\* One publisher and one player, default and named virtual hosts.
CONSTANTS
  Publishers = {c1}
  Players = {c2}
  Hosts = {"", "__defaultVhost__"}
  Queries = {"", "b"}
  DefaultVhost = "__defaultVhost__"
  MaxExtra = 1
  MaxAmiss = 1
SPECIFICATION Spec
INVARIANTS
  DialogueExact
  AnswersAsked
  SourceOfVhost
  CrashForCause
PROPERTY PatientServed
CHECK_DEADLOCK FALSE
