--------------------------- MODULE CommandService ---------------------------
(***************************************************************************)
(* What morse_cmd_tx() promises its callers: commands are called one at a  *)
(* time, a response buffer is written only while its caller waits and only *)
(* with the answer to its command, and a call that returns the firmware's  *)
(* status has been answered.                                               *)
(***************************************************************************)
CONSTANTS Cmds, NoCmd

VARIABLES
    status,    \* what has become of each command
    buffer     \* the command each response buffer holds the answer of

svars == <<status, buffer>>

Init ==
    /\ status = [c \in Cmds |-> "new"]
    /\ buffer = [c \in Cmds |-> NoCmd]

Call(c) ==
    /\ status[c] = "new"
    /\ \A d \in Cmds : status[d] # "called"
    /\ status' = [status EXCEPT ![c] = "called"]
    /\ UNCHANGED buffer

Answer(c) ==
    /\ status[c] = "called"
    /\ buffer' = [buffer EXCEPT ![c] = c]
    /\ UNCHANGED status

Return(c, ret) ==
    /\ status[c] = "called"
    /\ ret = "answer" => buffer[c] = c
    /\ status' = [status EXCEPT ![c] = ret]
    /\ UNCHANGED buffer

Next ==
    \E c \in Cmds :
        \/ Call(c) \/ Answer(c)
        \/ \E ret \in {"answer", "timeout", "error"} : Return(c, ret)

Spec == Init /\ [][Next]_svars
=============================================================================
