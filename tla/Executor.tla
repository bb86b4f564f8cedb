------------------------------ MODULE Executor ------------------------------
(***************************************************************************)
(* What the thread pool promises its callers, without threads, mutexes or  *)
(* condition variables: a submitted task is executed once, at some later   *)
(* time; if it has a completion, that is put in the main thread's mailbox  *)
(* after the execution, once; and the mailbox is emptied in order.         *)
(***************************************************************************)
EXTENDS Sequences

CONSTANTS Tasks, WithCompletion

VARIABLES submitted, executed, mailbox, delivered

vars == <<submitted, executed, mailbox, delivered>>

InMail(t) == \E i \in DOMAIN mailbox : mailbox[i] = t
WasDelivered(t) == \E i \in DOMAIN delivered : delivered[i] = t

Init ==
    /\ submitted = {}
    /\ executed = {}
    /\ mailbox = <<>>
    /\ delivered = <<>>

Submit(t) ==
    /\ t \notin submitted
    /\ submitted' = submitted \union {t}
    /\ UNCHANGED <<executed, mailbox, delivered>>

Execute(t) ==
    /\ t \in submitted \ executed
    /\ executed' = executed \union {t}
    /\ UNCHANGED <<submitted, mailbox, delivered>>

Complete(t) ==
    /\ t \in executed \intersect WithCompletion
    /\ ~InMail(t) /\ ~WasDelivered(t)
    /\ mailbox' = Append(mailbox, t)
    /\ UNCHANGED <<submitted, executed, delivered>>

Deliver ==
    /\ mailbox # <<>>
    /\ delivered' = Append(delivered, Head(mailbox))
    /\ mailbox' = Tail(mailbox)
    /\ UNCHANGED <<submitted, executed>>

Next == Deliver \/ \E t \in Tasks : Submit(t) \/ Execute(t) \/ Complete(t)

Spec == Init /\ [][Next]_vars
=============================================================================
