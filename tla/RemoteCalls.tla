----------------------------- MODULE RemoteCalls -----------------------------
(***************************************************************************)
(* What a connection promises about the calls made over it: each call is   *)
(* carried out at most once, an answer is returned only for a call that    *)
(* was carried out, and a call that was refused never is.  A call that     *)
(* failed leaves its caller in doubt.                                      *)
(***************************************************************************)
CONSTANT Calls
VARIABLES state, executed

vars == <<state, executed>>

Init == state = [c \in Calls |-> "new"] /\ executed = [c \in Calls |-> 0]

To(c, s) == state' = [state EXCEPT ![c] = s]

Issue(c) == state[c] = "new" /\ To(c, "open") /\ UNCHANGED executed

Execute(c) ==
    /\ state[c] \in {"open", "failed"} /\ executed[c] = 0
    /\ executed' = [executed EXCEPT ![c] = 1] /\ UNCHANGED state

Answer(c) ==
    /\ state[c] = "open" /\ executed[c] = 1
    /\ To(c, "answered") /\ UNCHANGED executed

Refuse(c) ==
    /\ state[c] = "open" /\ executed[c] = 0
    /\ To(c, "refused") /\ UNCHANGED executed

Fail(c) == state[c] = "open" /\ To(c, "failed") /\ UNCHANGED executed

Next == \E c \in Calls : Issue(c) \/ Execute(c) \/ Answer(c) \/ Refuse(c) \/ Fail(c)

Spec == Init /\ [][Next]_vars
=============================================================================
