-------------------------------- MODULE Chats --------------------------------
(***************************************************************************)
(* avatar/chats/chats.py: one person's saved chats, a file each.  People   *)
(* share nothing (a folder and a lock each), so one stands for all.        *)
(*                                                                         *)
(* Each request has a thread of its own.  A record in ops is a request     *)
(* from the browser's call to the answer; its fields "for", "shown" and    *)
(* "next" are the page's and are used in ChatPage.                         *)
(***************************************************************************)
EXTENDS Integers, Sequences, FiniteSets

CONSTANTS
    ChatIds,    \* the names chats can have
    None,       \* no file, or one read() cannot make sense of
    MaxOps,     \* bound: requests
    MaxCrashes  \* bound: restarts of the service

\* A message is its turn and its role; of a file, what the properties look at.
Messages == [turn : Nat \ {0}, role : {"user", "assistant", "call", "tool"}]
Saved == [created : Nat, messages : Seq(Messages)]

ASSUME ChatsAssumption ==
    /\ MaxOps \in Nat /\ MaxCrashes \in Nat
    /\ None \notin ChatIds /\ None \notin Saved

VARIABLES
    files,      \* the folder: chat -> [created, messages] or None
    lock,       \* lock_for(user): the request that holds it, or 0
    ops,        \* the requests made so far
    crashes,    \* history: restarts so far
    kept        \* history: chats whose save was answered, with no deletion since

serviceVars == <<files, lock, ops, crashes, kept>>

Ops == 1..Len(ops)

ServiceInit ==
    /\ files = [c \in ChatIds |-> None]
    /\ lock = 0
    /\ ops = <<>>
    /\ crashes = 0
    /\ kept = {}

At(n, place) == n \in Ops /\ ops[n].at = place
Move(n, place) == ops' = [ops EXCEPT ![n].at = place]

-----------------------------------------------------------------------------
(* do_PUT: read, then write a temporary file and rename it, under the lock *)

\* A plausible bug: no lock.
NobodyWaits == TRUE
LockIsFree == lock = 0

PutBegins(n) ==
    /\ At(n, "asked") /\ ops[n].method = "PUT"
    /\ LockIsFree
    /\ lock' = n
    /\ ops' = [ops EXCEPT ![n].at = "writing", ![n].old = files[ops[n].chat]]
    /\ UNCHANGED <<files, crashes, kept>>

\* os.replace().  The request's number is the time it was made.
PutReplaces(n) ==
    /\ At(n, "writing")
    /\ files' = [files EXCEPT ![ops[n].chat] =
                    [created |-> IF ops[n].old = None THEN n ELSE ops[n].old.created,
                     messages |-> ops[n].messages]]
    /\ lock' = 0
    /\ Move(n, "answered")
    /\ kept' = kept \cup {ops[n].chat}
    /\ UNCHANGED crashes

-----------------------------------------------------------------------------
(* do_DELETE: one chat, or each the folder has; do_GET: one chat, no lock *)

\* A plausible bug: the name in the request is not looked at.
EveryName(n) == {c \in ChatIds : files[c] # None}
NamesToRemove(n) ==
    IF ops[n].chat = None THEN {c \in ChatIds : files[c] # None} ELSE {ops[n].chat}

DeleteBegins(n) ==
    /\ At(n, "asked") /\ ops[n].method = "DELETE"
    /\ LockIsFree
    /\ lock' = n
    /\ ops' = [ops EXCEPT ![n].at = "removing", ![n].names = NamesToRemove(n)]
    /\ kept' = kept \ (IF ops[n].chat = None THEN ChatIds ELSE {ops[n].chat})
    /\ UNCHANGED <<files, crashes>>

RemoveOne(n) ==
    /\ At(n, "removing")
    /\ \E c \in ops[n].names :
          /\ files' = [files EXCEPT ![c] = None]
          /\ ops' = [ops EXCEPT ![n].names = @ \ {c}]
    /\ UNCHANGED <<lock, crashes, kept>>

DeleteEnds(n) ==
    /\ At(n, "removing")
    /\ ops[n].names = {}
    /\ lock' = 0
    /\ Move(n, "answered")
    /\ UNCHANGED <<files, crashes, kept>>

Get(n) ==
    /\ At(n, "asked") /\ ops[n].method = "GET"
    /\ ops' = [ops EXCEPT ![n].old = files[ops[n].chat],
                          ![n].at = IF files[ops[n].chat] = None THEN "failed" ELSE "answered"]
    /\ UNCHANGED <<files, lock, crashes, kept>>

-----------------------------------------------------------------------------
(* What may go wrong *)

\* A request never arrives, or its answer does not.
Lost(n) ==
    /\ At(n, "asked") \/ At(n, "answered")
    /\ Move(n, "failed")
    /\ UNCHANGED <<files, lock, crashes, kept>>

\* The service dies: its threads and locks are gone, the files stay (and
\* maybe a .tmp file, which nothing reads).
Crash ==
    /\ crashes < MaxCrashes
    /\ crashes' = crashes + 1
    /\ lock' = 0
    /\ ops' = [n \in Ops |-> IF ops[n].at \in {"asked", "writing", "removing"}
                             THEN [ops[n] EXCEPT !.at = "failed"] ELSE ops[n]]
    /\ UNCHANGED <<files, kept>>

Service ==
    \/ \E n \in Ops : \/ PutBegins(n) \/ PutReplaces(n)
                      \/ DeleteBegins(n) \/ RemoveOne(n) \/ DeleteEnds(n)
                      \/ Get(n) \/ Lost(n)
    \/ Crash

-----------------------------------------------------------------------------
(* Properties *)

\* do_PUT's read, write and rename under the lock: saving a chat again, from
\* however many tabs and over restarts, never changes when it was created.
CreatedKept ==
    [][\A c \in ChatIds : files[c] # None /\ files'[c] # None
          => files'[c].created = files[c].created]_serviceVars

\* A chat that was saved stays until its own deletion, or that of all, begins.
SavedStays == \A c \in kept : files[c] # None
=============================================================================
