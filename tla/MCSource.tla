------------------------------ MODULE MCSource ------------------------------
EXTENDS Source, TLC

CONSTANTS A, B   \* the contents of two video sequence headers

\* Every way the relay treats a message, two different headers, and frames of
\* both tracks that arrive before and after what they precede.
MCInputs == {<<"avcSH", A, 0>>, <<"avcSH", B, 0>>, <<"avcBadSH", "x", 1>>,
             <<"avcKey", "f", 0>>, <<"avcKey", "f", 1>>, <<"avcInter", "f", 1>>,
             <<"aacSH", "h", 0>>, <<"aacRaw", "f", 0>>, <<"aacRaw", "f", 1>>}

Headers == Permutations({A, B})
=============================================================================
