----------------------------- MODULE MCAudioMT -----------------------------
EXTENDS AudioMT

All == [zero : BOOLEAN, input : BOOLEAN, early : BOOLEAN]

(* Set-ups in which a callback that comes early does not crash.            *)
SafeSetups == {s \in All : s.early => s.zero /\ ~s.input}

EarlySetups == {s \in All : s.early}
=============================================================================
