------------------------------- MODULE Command -------------------------------
(***************************************************************************)
(* Commands to the firmware (command.c), and their queue (cmd_q, skbq.c):  *)
(*                                                                         *)
(*   - a caller of morse_cmd_tx() queues the command, waits for its answer *)
(*     with a timeout, cleans up and retries                               *)
(*   - the chip interface work sends what is queued                        *)
(*   - the network work processes the answers (morse_cmd_resp_process())   *)
(*                                                                         *)
(* A command is the number of its call (cmd_wait serialises the calls); a  *)
(* command packet is that number with the retry counter, as in host_id.    *)
(***************************************************************************)
EXTENDS Integers, Sequences, Functions

CONSTANTS
    NumCmds,    \* bound on the calls of a behaviour
    SeqMax,     \* MORSE_CMD_HOST_ID_SEQ_MAX
    MaxRetry,   \* MM_MAX_COMMAND_RETRY
    SlowSend,   \* the timeout may pass while the chip work is sending
    LongCmds    \* commands with 256 bytes or more after their header

ASSUME CommandAssumption ==
    /\ NumCmds \in Nat /\ SeqMax \in Nat \ {0} /\ MaxRetry \in Nat \ {0}
    /\ SlowSend \in BOOLEAN
    /\ LongCmds \subseteq 1 .. NumCmds

Cmds == 1 .. NumCmds
None == <<0, 0>>

VARIABLES
    cur,       \* the call being made, or the last one
    pc,        \* where its caller is
    retry,     \* its retry counter
    woken,     \* wait_ret # 0: the wait ended because of the completion
    comp,      \* the caller's on-stack completion is done
    cmdComp,   \* mors->cmd_comp: the call whose completion it is, 0 for NULL
    result,    \* what each call returned
    skbq, nSkbq,        \* cmd_q->skbq and its qlen
    pending, nPending,  \* cmd_q->pending and its qlen
    chipIf,    \* "pageset" (MM6108) or "yaps" (MM8108), set by the probe
    sending, sent,      \* local lists of the chip work
    freed,     \* packets freed
    fwSeen,    \* commands the firmware has received
    fwTodo,    \* packets it has accepted and not answered
    resps,     \* answers on their way to the driver
    resp,      \* the answer being processed (cmd_lock is held), or None
    respSkb,   \* cmd_skb: the packet it is matched against, or None
    stripped,  \* packets whose header was removed for an answer
    misread,   \* the header of respSkb was removed twice
    buffer     \* the command whose answer each response buffer holds, or 0

caller == <<cur, pc, retry, woken, comp, cmdComp, result>>
queues == <<skbq, nSkbq, pending, nPending, freed>>
chip == <<chipIf, sending, sent, fwSeen, fwTodo>>
answers == <<resps, resp, respSkb, stripped, misread, buffer>>
vars == <<caller, queues, chip, answers>>

-----------------------------------------------------------------------------
Init ==
    /\ cur = 0 /\ pc = "idle" /\ retry = 0 /\ woken = FALSE
    /\ comp = FALSE /\ cmdComp = 0 /\ result = [c \in Cmds |-> "none"]
    /\ skbq = <<>> /\ nSkbq = 0 /\ pending = <<>> /\ nPending = 0
    /\ chipIf \in {"pageset", "yaps"}
    /\ sending = <<>> /\ sent = <<>> /\ freed = {}
    /\ fwSeen = {} /\ fwTodo = {} /\ resps = {}
    /\ resp = None /\ respSkb = None /\ stripped = {} /\ misread = FALSE
    /\ buffer = [c \in Cmds |-> 0]

CmdLockIgnored == TRUE
CmdLockFree == resp = None

SeqOf(c) == ((c - 1) % SeqMax) + 1

\* __morse_skbq_unlink(): the packet leaves the list if it is linked in it.
Without(q, s) ==
    IF s \in Range(q)
    THEN LET i == CHOOSE j \in DOMAIN q : q[j] = s
         IN  SubSeq(q, 1, i - 1) \o SubSeq(q, i + 1, Len(q))
    ELSE q

\* morse_cmd_tx() up to its loop: cmd_wait is taken, the next sequence number.
Call ==
    /\ pc = "idle" /\ cur < NumCmds
    /\ cur' = cur + 1 /\ retry' = 0 /\ comp' = FALSE /\ pc' = "send"
    /\ UNCHANGED <<woken, cmdComp, result, queues, chip, answers>>

\* The loop is left because no skb could be allocated, or because
\* morse_skbq_skb_tx() failed: then cmd_comp keeps pointing to the completion.
SendFails ==
    /\ pc = "send"
    /\ \/ UNCHANGED cmdComp
       \/ CmdLockFree /\ cmdComp' = cur
    /\ result' = [result EXCEPT ![cur] = "error"]
    /\ pc' = "idle"
    /\ UNCHANGED <<cur, retry, woken, comp, queues, chip, answers>>

Send ==
    /\ pc = "send" /\ CmdLockFree
    /\ cmdComp' = cur
    /\ comp' = (comp /\ retry = 0)
    /\ skbq' = Append(skbq, <<cur, retry>>) /\ nSkbq' = nSkbq + 1
    /\ pc' = "wait"
    /\ UNCHANGED <<cur, retry, woken, result, pending, nPending, freed, chip, answers>>

\* wait_for_completion_timeout() returns.
Wake ==
    /\ pc = "wait" /\ comp
    /\ woken' = TRUE /\ comp' = FALSE /\ pc' = "cleanup"
    /\ UNCHANGED <<cur, retry, cmdComp, result, queues, chip, answers>>

Timeout ==
    /\ pc = "wait" /\ ~comp
    /\ woken' = FALSE /\ pc' = "cleanup"
    /\ UNCHANGED <<cur, retry, comp, cmdComp, result, queues, chip, answers>>

\* __skbq_cmd_finish(): the packet is unlinked from whatever list it is linked
\* in; which qlen goes down depends on the two counters alone.
CmdFinishAlwaysPending(s) ==
    /\ nPending' = nPending - 1
    /\ pending' = Without(pending, s) /\ skbq' = Without(skbq, s)
    /\ freed' = freed \cup {s}
    /\ UNCHANGED <<nSkbq, sending, sent>>
CmdFinish(s) ==
    IF nPending = 0 /\ nSkbq = 0
    THEN UNCHANGED <<queues, sending, sent>>
    ELSE /\ nPending' = IF nPending # 0 THEN nPending - 1 ELSE nPending
         /\ nSkbq' = IF nPending # 0 THEN nSkbq ELSE nSkbq - 1
         /\ pending' = Without(pending, s) /\ skbq' = Without(skbq, s)
         /\ sending' = Without(sending, s) /\ sent' = Without(sent, s)
         /\ freed' = freed \cup {s}

\* The end of the loop body, under cmd_lock: the completion is forgotten, the
\* packet finished, and the command retried while ret is -ETIMEDOUT, which after
\* an answer is its status.
MayRetry == retry + 1 < MaxRetry

Cleanup ==
    /\ pc = "cleanup" /\ CmdLockFree
    /\ SlowSend \/ <<cur, retry>> \notin Range(sending \o sent)
    /\ cmdComp' = 0
    /\ CmdFinish(<<cur, retry>>)
    /\ \E ret \in {"answer", "timeout"} :
        /\ ~woken => ret = "timeout"
        /\ IF ret = "timeout" /\ MayRetry
           THEN retry' = retry + 1 /\ pc' = "send" /\ UNCHANGED result
           ELSE /\ result' = [result EXCEPT ![cur] = ret]
                /\ pc' = "idle" /\ UNCHANGED retry
    /\ UNCHANGED <<cur, woken, comp, chipIf, fwSeen, fwTodo, answers>>

-----------------------------------------------------------------------------
ChipIdle == sending = <<>> /\ sent = <<>>

\* morse_pageset_tx() and morse_yaps_tx() on cmd_q: the pending commands are
\* purged, then up to n packets dequeued (none when there is no page).
TxStart(n) ==
    /\ ChipIdle /\ skbq # <<>>
    /\ n \in 0 .. Len(skbq) /\ (chipIf = "yaps" => n > 0)
    /\ pending' = <<>> /\ nPending' = nPending - Len(pending)
    /\ freed' = freed \cup Range(pending)
    /\ sending' = SubSeq(skbq, 1, n)
    /\ skbq' = SubSeq(skbq, n + 1, Len(skbq)) /\ nSkbq' = nSkbq - n
    /\ UNCHANGED <<caller, chipIf, sent, fwSeen, fwTodo, answers>>

\* A packet is written.  The firmware drops a retry silently when it received
\* the initial request.
WriteOk ==
    /\ sending # <<>>
    /\ sending' = Tail(sending) /\ sent' = Append(sent, Head(sending))
    /\ IF Head(sending)[1] \in fwSeen
       THEN UNCHANGED <<fwSeen, fwTodo>>
       ELSE /\ fwSeen' = fwSeen \cup {Head(sending)[1]}
            /\ fwTodo' = fwTodo \cup {Head(sending)}
    /\ UNCHANGED <<caller, queues, chipIf, answers>>

\* A write fails.  pageset.c frees the packet; yaps.c puts all that were not
\* sent back to the head of the queue, or returns and leaks them when
\* update_status() fails before the first write.
WriteFails ==
    /\ sending # <<>>
    /\ \/ /\ chipIf = "pageset"
          /\ freed' = freed \cup {Head(sending)}
          /\ sending' = Tail(sending)
          /\ UNCHANGED <<skbq, nSkbq>>
       \/ /\ chipIf = "yaps"
          /\ skbq' = sending \o skbq /\ nSkbq' = nSkbq + Len(sending)
          /\ sending' = <<>>
          /\ UNCHANGED freed
       \/ /\ chipIf = "yaps" /\ sent = <<>>
          /\ sending' = <<>>
          /\ UNCHANGED <<skbq, nSkbq, freed>>
    /\ UNCHANGED <<caller, pending, nPending, chipIf, sent, fwSeen, fwTodo, answers>>

\* morse_skbq_tx_complete(): what was sent is pending.
TxComplete ==
    /\ sending = <<>> /\ sent # <<>>
    /\ pending' = pending \o sent /\ nPending' = nPending + Len(sent)
    /\ sent' = <<>>
    /\ UNCHANGED <<caller, skbq, nSkbq, freed, chipIf, sending, fwSeen, fwTodo, answers>>

\* The firmware answers, and a pass of the chip work reads the answer.
FwAnswer(s) ==
    /\ s \in fwTodo /\ ChipIdle
    /\ fwTodo' = fwTodo \ {s}
    /\ resps' = resps \cup {s}
    /\ UNCHANGED <<caller, queues, chipIf, sending, sent, fwSeen, resp, respSkb,
                   stripped, misread, buffer>>

-----------------------------------------------------------------------------
\* morse_cmd_resp_process(): under cmd_lock, the first pending packet is looked
\* up and its header is removed, whether the answer will match it or not.  Where
\* it was removed before, skb_pull() takes the low byte of the command's length
\* for the header's offset, and succeeds only on a long command.
RespStart(r) ==
    /\ r \in resps /\ resp = None
    /\ resps' = resps \ {r} /\ resp' = r
    /\ respSkb' = IF pending = <<>> THEN None ELSE Head(pending)
    /\ misread' = (respSkb' \in stripped /\ respSkb'[1] \in LongCmds)
    /\ stripped' = stripped \cup ({respSkb'} \ {None})
    /\ UNCHANGED <<caller, queues, chip, buffer>>

\* The answer matches a packet with the same sequence number, whatever the
\* retry counter.
MatchesAny == respSkb # None
Matches == respSkb # None /\ ~misread /\ SeqOf(respSkb[1]) = SeqOf(resp[1])

\* The answer is copied for the packet's caller, and the completion cmd_comp
\* points to is completed; another answer is dropped.
RespEndKeepsLock ==
    /\ resp # None /\ Matches
    /\ buffer' = [buffer EXCEPT ![respSkb[1]] = resp[1]]
    /\ comp' = (comp \/ (cmdComp = cur /\ pc # "idle"))
    /\ resp' = None /\ respSkb' = None /\ misread' = FALSE
    /\ UNCHANGED <<cur, pc, retry, woken, cmdComp, result, queues, chip, resps, stripped>>
RespEnd ==
    /\ resp # None
    /\ IF Matches
       THEN /\ buffer' = [buffer EXCEPT ![respSkb[1]] = resp[1]]
            /\ comp' = (comp \/ (cmdComp = cur /\ pc # "idle"))
       ELSE UNCHANGED <<buffer, comp>>
    /\ resp' = None /\ respSkb' = None /\ misread' = FALSE
    /\ UNCHANGED <<cur, pc, retry, woken, cmdComp, result, queues, chip, resps, stripped>>

-----------------------------------------------------------------------------
Next ==
    \/ Call \/ SendFails \/ Send \/ Wake \/ Timeout \/ Cleanup
    \/ \E n \in 0 .. Len(skbq) : TxStart(n)
    \/ WriteOk \/ WriteFails \/ TxComplete
    \/ \E s \in fwTodo : FwAnswer(s)
    \/ \E r \in resps : RespStart(r)
    \/ RespEnd

Spec == Init /\ [][Next]_vars

\* The caller's thread and the work queues run; the timeout passes.  Nothing is
\* assumed of the firmware.
Fairness ==
    /\ WF_vars(SendFails \/ Send) /\ WF_vars(Wake \/ Timeout)
    /\ SF_vars(Cleanup)
    /\ WF_vars(RespEnd) /\ WF_vars(WriteOk \/ WriteFails) /\ WF_vars(TxComplete)

FairSpec == Spec /\ Fairness

-----------------------------------------------------------------------------
\* A try of a call, and what morse_cmd_tx() returns.
Packets == Cmds \X (0 .. MaxRetry - 1)
Results == {"none", "answer", "timeout", "error"}

\* Types: every list holds tries of calls, and the pending packet an answer is
\* matched against is one of them.
TypeOK ==
    /\ cur \in 0 .. NumCmds /\ retry \in 0 .. MaxRetry - 1
    /\ pc \in {"idle", "send", "wait", "cleanup"} /\ (pc # "idle" => cur # 0)
    /\ woken \in BOOLEAN /\ comp \in BOOLEAN
    /\ cmdComp \in 0 .. NumCmds /\ result \in [Cmds -> Results]
    /\ skbq \in Seq(Packets) /\ pending \in Seq(Packets)
    /\ nSkbq \in Int /\ nPending \in Int
    /\ chipIf \in {"pageset", "yaps"}
    /\ sending \in Seq(Packets) /\ sent \in Seq(Packets)
    /\ freed \subseteq Packets /\ stripped \subseteq Packets
    /\ fwSeen \subseteq Cmds /\ fwTodo \subseteq Packets /\ resps \subseteq Packets
    /\ resp \in Packets \cup {None} /\ respSkb \in Packets \cup {None}
    /\ (resp = None => respSkb = None)
    /\ misread \in BOOLEAN
    /\ buffer \in [Cmds -> 0 .. NumCmds]

\* "Remove commands from pending (or skbq if not sent)" on __skbq_cmd_finish():
\* both qlen count the packets that are linked.
CountsMatch == nSkbq = Len(skbq) /\ nPending = Len(pending)

\* The packet an answer is matched against is not freed under the handler: the
\* caller cleans up under cmd_lock, and the purge of the chip work, which does
\* not take it, finds no packet to purge.
HeldPacketLives == resp # None => respSkb \notin freed

\* The module is an implementation of CommandService.
Service == INSTANCE CommandService WITH
    Cmds <- Cmds, NoCmd <- 0,
    status <- [c \in Cmds |-> IF result[c] # "none" THEN result[c]
                              ELSE IF c = cur /\ pc # "idle" THEN "called" ELSE "new"],
    buffer <- buffer

Implements == Service!Spec

\* "the response may be from the retry or from the original command": an answer
\* to the command whose caller waits is accepted.
AnswerAccepted ==
    [][(resp # None /\ resp' = None /\ resp[1] = cur /\ pc = "wait")
         => buffer'[cur] # 0]_vars

\* Every call returns.
CallsReturn == \A c \in Cmds : c = cur ~> result[c] # "none"
=============================================================================
