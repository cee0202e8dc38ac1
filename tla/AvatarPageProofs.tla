---------------------------- MODULE AvatarPageProofs ----------------------------
(***************************************************************************)
(* Proofs about ChatPage with the service in Chats, for any chats and any  *)
(* number of turns, rounds, requests and restarts, and about listening,    *)
(* searches and tokens.                                                    *)
(***************************************************************************)
EXTENDS AvatarPage, SelectionProofs, FiniteSetTheorems, SequenceTheorems, TLAPS

\* A request until the page has settled it, and then.
Request ==
    [method : {"PUT", "GET", "DELETE"}, chat : ChatIds \cup {None}, messages : Seq(Messages),
     at : {"asked", "writing", "removing", "answered", "failed"}, old : Saved \cup {None},
     names : SUBSET ChatIds, for : ChatIds \cup {None}, shown : Seq(Messages),
     next : {"nothing", "fresh", "open", "show", "remove"}]
AnyRequest == Request \cup {[at |-> "settled"]}

Turn == [chat : ChatIds, gen : Nat, round : Nat \ {0}, at : {"model", "tool"}]
AnyTurn == Turn \cup [chat : ChatIds, at : {"over"}]

Types ==
    /\ files \in [ChatIds -> Saved \cup {None}]
    /\ kept \subseteq ChatIds
    /\ lock \in 0..Len(ops)
    /\ ops \in Seq(AnyRequest)
    /\ turns \in Seq(AnyTurn)
    /\ history \in Seq(Messages)
    /\ made \subseteq ChatIds /\ id \in made
    /\ generation \in Nat
    /\ crashes \in 0..MaxCrashes
    /\ saveT \in {"never", "armed", "off"}

\* The messages are of turns that were made, the questions and answers of the chat's.
Said(ts, messages, chat) ==
    \A i \in 1..Len(messages) :
        /\ messages[i].turn \in 1..Len(ts)
        /\ messages[i].role # "tool" => ts[messages[i].turn].chat = chat

\* What a request carries, by what it is for.
Sound(ts, ids, o) ==
    o.at # "settled" =>
        /\ o.method # "DELETE" => o.chat \in ChatIds
        /\ o.method = "PUT" => Said(ts, o.messages, o.chat)
        /\ o.old # None => o.chat \in ChatIds /\ Said(ts, o.old.messages, o.chat)
        /\ o.next = "open" => o.method = "GET" /\ o.chat \in ids /\ (o.at = "answered" => o.old # None)
        /\ o.next = "show" => o.for \in ids /\ Said(ts, o.shown, o.for)
        /\ o.at = "writing" => o.method = "PUT"
        /\ o.at = "removing" => o.method = "DELETE"

\* The holder of the lock knows the folder: what it read is still there, and
\* what it has yet to remove is not to be kept.
Knows(fs, ks, o) ==
    /\ o.at = "writing" => o.old = fs[o.chat]
    /\ o.at = "removing" => o.names \cap ks = {}

Holding == {"writing", "removing"}
Requests ==
    \A n \in Ops :
        /\ Sound(turns, made, ops[n])
        /\ Knows(files, kept, ops[n])
        /\ ops[n].at \in Holding <=> lock = n

FilesSaid == \A c \in ChatIds : files[c] # None => Said(turns, files[c].messages, c)

\* A turn that is not interrupted is one of the chat that is shown.
CurrentTurns ==
    \A t \in Turns : turns[t].at # "over" =>
        /\ turns[t].round <= MaxRounds /\ turns[t].gen <= generation
        /\ (turns[t].gen = generation => turns[t].chat = id)

IInv ==
    /\ ChatsAssumption /\ ChatPageAssumption
    /\ Types /\ Requests /\ FilesSaid /\ SavedStays
    /\ CurrentTurns /\ Said(turns, history, id)

-----------------------------------------------------------------------------
(* Helpers *)

\* Turns are added and change their place; whose chat a turn is never changes.
Grows == Len(turns) <= Len(turns') /\ \A t \in Turns : turns'[t].chat = turns[t].chat

\* What was said in a chat stays said in it.
LEMMA SaidStays ==
    ASSUME Types, Grows, Len(turns') \in Nat, NEW m \in Seq(Messages), NEW c, Said(turns, m, c)
    PROVE  Said(turns', m, c)
BY DEF Types, Grows, Said, Turns

\* A request that has not settled has its fields.
LEMMA RequestHasFields ==
    ASSUME Types, NEW n \in Ops, ops[n].at # "settled"
    PROVE  ops[n] \in Request
<1>1. ops[n] \in AnyRequest
  BY ElementOfSeq DEF Types, Ops
<1> QED
  BY <1>1 DEF AnyRequest

\* A turn that is not over has its fields.
LEMMA TurnHasFields ==
    ASSUME Types, NEW t \in Turns, turns[t].at # "over"
    PROVE  turns[t] \in Turn
<1>1. turns[t] \in AnyTurn
  BY ElementOfSeq DEF Types, Turns
<1> QED
  BY <1>1 DEF AnyTurn

\* A file holds what was said and when it was made, and is there.
LEMMA FilesHaveFields ==
    ASSUME ChatsAssumption
    PROVE  /\ \A f \in Saved : f # None /\ f.created \in Nat /\ f.messages \in Seq(Messages)
           /\ \A k \in Nat, m \in Seq(Messages) : [created |-> k, messages |-> m] \in Saved
BY DEF ChatsAssumption, Saved

\* A request keeps its word while turns go on and ids are made.
LEMMA SoundStays ==
    ASSUME ChatsAssumption, Types, Grows, Len(turns') \in Nat, made \subseteq made',
           NEW o \in AnyRequest, Sound(turns, made, o)
    PROVE  Sound(turns', made', o)
<1>1. CASE o.at = "settled"
  BY <1>1 DEF Sound
<1>2. CASE o.at # "settled"
  <2>1. o \in Request
    BY <1>2 DEF AnyRequest
  <2>2. o.messages \in Seq(Messages) /\ o.shown \in Seq(Messages)
    BY <2>1 DEF Request
  <2>3. o.old # None => o.old.messages \in Seq(Messages)
    BY <2>1, FilesHaveFields DEF Request
  <2> QED
    BY <1>2, <2>2, <2>3, SaidStays DEF Sound
<1> QED
  BY <1>1, <1>2

\* When nothing happens to the service, its part of the invariant stays.
LEMMA ServiceRests ==
    ASSUME IInv, Grows, Len(turns') \in Nat, made \subseteq made', UNCHANGED serviceVars
    PROVE  Requests' /\ FilesSaid' /\ SavedStays'
<1> USE DEF serviceVars
<1>1. ASSUME NEW n \in Ops
      PROVE  Sound(turns', made', ops[n])
  <2>1. ops[n] \in AnyRequest
    BY ElementOfSeq DEF IInv, Types, Ops
  <2> QED
    BY <2>1, SoundStays DEF IInv, Requests
<1>2. Requests'
  BY <1>1 DEF IInv, Requests, Ops, Knows
<1>3. FilesSaid'
  BY SaidStays, FilesHaveFields DEF IInv, Types, FilesSaid
<1> QED
  BY <1>2, <1>3 DEF IInv, SavedStays

\* One request moves on to r, which is sound and knows what it has to.
LEMMA OneMoves ==
    ASSUME IInv, Grows, Len(turns') \in Nat, made \subseteq made',
           NEW n \in Ops, NEW r \in AnyRequest, ops' = [ops EXCEPT ![n] = r],
           Sound(turns', made', r), Knows(files', kept', r),
           lock' \in 0..Len(ops), r.at \in Holding <=> lock' = n,
           \A m \in Ops \ {n} : lock' = m <=> lock = m,
           (files' = files /\ kept' \subseteq kept) \/ lock = n
    PROVE  ops' \in Seq(AnyRequest) /\ lock' \in 0..Len(ops)' /\ Requests'
<1>1. /\ ops' \in Seq(AnyRequest) /\ Len(ops') = Len(ops) /\ ops'[n] = r
      /\ \A m \in Ops \ {n} : ops'[m] = ops[m]
  BY ExceptSeq DEF IInv, Types, Ops
<1>2. Ops' = Ops
  BY <1>1 DEF Ops
<1>3. ASSUME NEW m \in Ops, m # n
      PROVE  /\ Sound(turns', made', ops'[m]) /\ Knows(files', kept', ops'[m])
             /\ ops'[m].at \in Holding <=> lock' = m
  <2>1. ops[m] \in AnyRequest /\ ops'[m] = ops[m]
    BY <1>1, <1>3, ElementOfSeq DEF IInv, Types, Ops
  <2>2. Sound(turns', made', ops[m])
    BY <2>1, SoundStays DEF IInv, Requests
  <2>3. ops[m].at \in Holding <=> lock' = m
    BY <1>3 DEF IInv, Requests
  <2>4. Knows(files', kept', ops[m])
    <3>1. CASE ops[m].at \notin Holding
      BY <3>1 DEF Knows, Holding
    <3>2. CASE ops[m].at \in Holding
      <4>1. lock = m /\ lock # n
        BY <1>3, <3>2 DEF IInv, Requests
      <4> QED
        BY <4>1 DEF IInv, Requests, Knows
    <3> QED
      BY <3>1, <3>2
  <2> QED
    BY <2>1, <2>2, <2>3, <2>4
<1>4. Requests'
  BY <1>1, <1>2, <1>3 DEF Requests
<1> QED
  BY <1>1, <1>4

\* A request is made: nothing is held for it yet.
LEMMA OneMore ==
    ASSUME IInv, Grows, Len(turns') \in Nat, made \subseteq made',
           NEW r \in AnyRequest, ops' = Append(ops, r), r.at = "asked",
           Sound(turns', made', r), UNCHANGED <<files, lock, kept>>
    PROVE  ops' \in Seq(AnyRequest) /\ lock' \in 0..Len(ops)' /\ Requests'
<1> DEFINE n == Len(ops) + 1
<1>1. /\ ops' \in Seq(AnyRequest) /\ Len(ops) \in Nat /\ Len(ops') = n /\ ops'[n] = r
      /\ \A m \in Ops : ops'[m] = ops[m]
  BY AppendProperties, LenProperties DEF IInv, Types, Ops
<1>2. Ops' = Ops \cup {n} /\ lock # n /\ lock \in 0..n
  BY <1>1 DEF Ops, IInv, Types
<1>3. ASSUME NEW m \in Ops
      PROVE  /\ Sound(turns', made', ops'[m]) /\ Knows(files', kept', ops'[m])
             /\ ops'[m].at \in Holding <=> lock' = m
  <2>1. ops[m] \in AnyRequest
    BY ElementOfSeq DEF IInv, Types, Ops
  <2> QED
    BY <1>1, <2>1, SoundStays DEF IInv, Requests, Knows
<1>4. /\ Sound(turns', made', ops'[n]) /\ Knows(files', kept', ops'[n])
      /\ ops'[n].at \in Holding <=> lock' = n
  BY <1>1, <1>2 DEF Knows, Holding
<1>5. Requests'
  BY <1>2, <1>3, <1>4 DEF Requests
<1> QED
  BY <1>1, <1>2, <1>5

\* The page rests: what it remembers stays as it is.
LEMMA PageRests ==
    ASSUME IInv, UNCHANGED pageVars
    PROVE  /\ Grows /\ Len(turns') \in Nat /\ made \subseteq made'
           /\ turns' \in Seq(AnyTurn) /\ history' \in Seq(Messages)
           /\ made' \subseteq ChatIds /\ id' \in made' /\ generation' \in Nat
           /\ saveT' \in {"never", "armed", "off"}
           /\ CurrentTurns' /\ Said(turns, history, id)'
BY LenProperties DEF IInv, Types, pageVars, Grows, CurrentTurns, Turns, Said

-----------------------------------------------------------------------------
(* The steps of the service *)

LEMMA PutBeginsKeeps ==
    ASSUME IInv, UNCHANGED pageVars, NEW n \in Ops, PutBegins(n)
    PROVE  IInv'
<1> DEFINE r == [ops[n] EXCEPT !.at = "writing", !.old = files[ops[n].chat]]
<1>1. ops[n] \in Request /\ ops[n].at = "asked" /\ ops[n].method = "PUT"
  BY RequestHasFields DEF PutBegins, At, IInv
<1>2. ops[n].chat \in ChatIds /\ files[ops[n].chat] \in Saved \cup {None}
  BY <1>1 DEF IInv, Types, Requests, Sound
<1>3. /\ r \in Request /\ ops' = [ops EXCEPT ![n] = r]
      /\ r.at = "writing" /\ r.old = files[ops[n].chat] /\ r.chat = ops[n].chat
      /\ r.method = ops[n].method /\ r.messages = ops[n].messages /\ r.shown = ops[n].shown
      /\ r.next = ops[n].next /\ r.for = ops[n].for
  BY <1>1, <1>2 DEF PutBegins, Request
<1>4. Sound(turns, made, r)
  BY <1>1, <1>2, <1>3 DEF IInv, Requests, Sound, FilesSaid
<1> HIDE DEF r
<1>5. lock = 0 /\ lock' = n /\ UNCHANGED <<files, crashes, kept>> /\ n \in 1..Len(ops)
  BY DEF PutBegins, LockIsFree, Ops
<1>6. ops' \in Seq(AnyRequest) /\ lock' \in 0..Len(ops)' /\ Requests'
  <2>1. /\ r \in AnyRequest /\ Knows(files', kept', r) /\ (r.at \in Holding <=> lock' = n)
        /\ lock' \in 0..Len(ops)
    BY <1>3, <1>5, LenProperties DEF Knows, Holding, AnyRequest, IInv, Types
  <2>2. Sound(turns', made', r)
    BY <1>4, PageRests DEF pageVars
  <2>3. \A m \in Ops \ {n} : lock' = m <=> lock = m
    BY <1>5 DEF Ops
  <2> QED
    BY <1>3, <1>5, <2>1, <2>2, <2>3, PageRests, OneMoves
<1> QED
  BY <1>5, <1>6, PageRests DEF IInv, Types, FilesSaid, SavedStays, pageVars

LEMMA PutReplacesKeeps ==
    ASSUME IInv, UNCHANGED pageVars, NEW n \in Ops, PutReplaces(n)
    PROVE  IInv'
<1> DEFINE r == [ops[n] EXCEPT !.at = "answered"]
           f == [created |-> IF ops[n].old = None THEN n ELSE ops[n].old.created,
                 messages |-> ops[n].messages]
<1>1. ops[n] \in Request /\ ops[n].at = "writing" /\ lock = n /\ n \in 1..Len(ops)
  BY RequestHasFields DEF PutReplaces, At, IInv, Requests, Holding, Ops
<1>2. /\ r \in Request /\ ops' = [ops EXCEPT ![n] = r] /\ r.at = "answered"
      /\ r.chat = ops[n].chat /\ r.method = ops[n].method /\ r.messages = ops[n].messages
      /\ r.shown = ops[n].shown /\ r.old = ops[n].old /\ r.next = ops[n].next /\ r.for = ops[n].for
  BY <1>1 DEF PutReplaces, Move, Request
<1>3. /\ ops[n].chat \in ChatIds /\ ops[n].method = "PUT"
      /\ ops[n].messages \in Seq(Messages) /\ Said(turns, ops[n].messages, ops[n].chat)
  BY <1>1 DEF IInv, Types, Requests, Sound, Request
<1>4. f \in Saved /\ f # None /\ f.messages = ops[n].messages
  <2>1. ops[n].old # None => ops[n].old.created \in Nat
    BY <1>1, FilesHaveFields DEF Request, IInv
  <2>2. (IF ops[n].old = None THEN n ELSE ops[n].old.created) \in Nat
    BY <1>1, <2>1
  <2> QED
    BY <1>3, <2>2, FilesHaveFields DEF IInv
<1>5. Sound(turns, made, r)
  BY <1>1, <1>2, <1>3 DEF IInv, Requests, Sound
<1>6. /\ files' = [files EXCEPT ![ops[n].chat] = f]
      /\ lock' = 0 /\ kept' = kept \cup {ops[n].chat} /\ crashes' = crashes
  BY DEF PutReplaces
<1> HIDE DEF r, f
<1>7. ops' \in Seq(AnyRequest) /\ lock' \in 0..Len(ops)' /\ Requests'
  <2>1. /\ r \in AnyRequest /\ Knows(files', kept', r) /\ (r.at \in Holding <=> lock' = n)
        /\ lock' \in 0..Len(ops)
    BY <1>1, <1>2, <1>6, LenProperties DEF Knows, Holding, AnyRequest, IInv, Types
  <2>2. Sound(turns', made', r)
    BY <1>5, PageRests DEF pageVars
  <2>3. \A m \in Ops \ {n} : lock' = m <=> lock = m
    BY <1>1, <1>6 DEF Ops
  <2> QED
    BY <1>1, <1>2, <2>1, <2>2, <2>3, PageRests, OneMoves
<1>8. files' \in [ChatIds -> Saved \cup {None}] /\ kept' \subseteq ChatIds
  BY <1>3, <1>4, <1>6 DEF IInv, Types
<1>9. FilesSaid' /\ SavedStays'
  BY <1>3, <1>4, <1>6 DEF IInv, Types, FilesSaid, SavedStays, pageVars
<1> QED
  BY <1>6, <1>7, <1>8, <1>9, PageRests DEF IInv, Types

LEMMA DeleteBeginsKeeps ==
    ASSUME IInv, UNCHANGED pageVars, NEW n \in Ops, DeleteBegins(n)
    PROVE  IInv'
<1> DEFINE r == [ops[n] EXCEPT !.at = "removing", !.names = NamesToRemove(n)]
<1>1. ops[n] \in Request /\ ops[n].at = "asked" /\ ops[n].method = "DELETE"
  BY RequestHasFields DEF DeleteBegins, At, IInv
<1>2. NamesToRemove(n) \in SUBSET ChatIds
  BY <1>1 DEF NamesToRemove, Request
<1>3. /\ r \in Request /\ ops' = [ops EXCEPT ![n] = r]
      /\ r.at = "removing" /\ r.names = NamesToRemove(n) /\ r.chat = ops[n].chat
      /\ r.method = ops[n].method /\ r.messages = ops[n].messages /\ r.shown = ops[n].shown
      /\ r.old = ops[n].old /\ r.next = ops[n].next /\ r.for = ops[n].for
  BY <1>1, <1>2 DEF DeleteBegins, Request
<1>4. Sound(turns, made, r)
  BY <1>1, <1>3 DEF IInv, Requests, Sound
<1> HIDE DEF r
<1>5. lock = 0 /\ lock' = n /\ UNCHANGED <<files, crashes>> /\ n \in 1..Len(ops)
  BY DEF DeleteBegins, LockIsFree, Ops
<1>6. kept' \subseteq kept /\ r.names \cap kept' = {}
  BY <1>2, <1>3 DEF DeleteBegins, NamesToRemove
<1>7. ops' \in Seq(AnyRequest) /\ lock' \in 0..Len(ops)' /\ Requests'
  <2>1. /\ r \in AnyRequest /\ Knows(files', kept', r) /\ (r.at \in Holding <=> lock' = n)
        /\ lock' \in 0..Len(ops)
    BY <1>3, <1>5, <1>6, LenProperties DEF Knows, Holding, AnyRequest, IInv, Types
  <2>2. Sound(turns', made', r)
    BY <1>4, PageRests DEF pageVars
  <2>3. \A m \in Ops \ {n} : lock' = m <=> lock = m
    BY <1>5 DEF Ops
  <2> QED
    BY <1>3, <1>5, <1>6, <2>1, <2>2, <2>3, PageRests, OneMoves
<1> QED
  BY <1>5, <1>6, <1>7, PageRests DEF IInv, Types, FilesSaid, SavedStays, pageVars

LEMMA RemoveOneKeeps ==
    ASSUME IInv, UNCHANGED pageVars, NEW n \in Ops, RemoveOne(n)
    PROVE  IInv'
<1>1. ops[n] \in Request /\ ops[n].at = "removing" /\ lock = n /\ n \in 1..Len(ops)
  BY RequestHasFields DEF RemoveOne, At, IInv, Requests, Holding, Ops
<1>2. PICK c \in ops[n].names : /\ files' = [files EXCEPT ![c] = None]
                                /\ ops' = [ops EXCEPT ![n].names = @ \ {c}]
  BY DEF RemoveOne
<1> DEFINE r == [ops[n] EXCEPT !.names = @ \ {c}]
<1>3. /\ r \in Request /\ ops' = [ops EXCEPT ![n] = r]
      /\ r.at = "removing" /\ r.names = ops[n].names \ {c} /\ r.chat = ops[n].chat
      /\ r.method = ops[n].method /\ r.messages = ops[n].messages /\ r.shown = ops[n].shown
      /\ r.old = ops[n].old /\ r.next = ops[n].next /\ r.for = ops[n].for
  BY <1>1, <1>2 DEF Request
<1>4. Sound(turns, made, r)
  BY <1>1, <1>3 DEF IInv, Requests, Sound
<1> HIDE DEF r
<1>5. ops[n].names \cap kept = {} /\ c \in ChatIds /\ UNCHANGED <<lock, crashes, kept>>
  BY <1>1 DEF IInv, Requests, Knows, RemoveOne, Request
<1>6. ops' \in Seq(AnyRequest) /\ lock' \in 0..Len(ops)' /\ Requests'
  <2>1. /\ r \in AnyRequest /\ Knows(files', kept', r) /\ (r.at \in Holding <=> lock' = n)
        /\ lock' \in 0..Len(ops)
    BY <1>1, <1>3, <1>5 DEF Knows, Holding, AnyRequest, IInv, Types
  <2>2. Sound(turns', made', r)
    BY <1>4, PageRests DEF pageVars
  <2>3. \A m \in Ops \ {n} : lock' = m <=> lock = m
    BY <1>5
  <2> QED
    BY <1>1, <1>3, <2>1, <2>2, <2>3, PageRests, OneMoves
<1>7. /\ files' \in [ChatIds -> Saved \cup {None}]
      /\ \A k \in ChatIds : files'[k] = IF k = c THEN None ELSE files[k]
  BY <1>2, <1>5 DEF IInv, Types
<1>8. FilesSaid' /\ SavedStays'
  BY <1>5, <1>7 DEF IInv, Types, FilesSaid, SavedStays, pageVars
<1> QED
  BY <1>5, <1>6, <1>7, <1>8, PageRests DEF IInv, Types

\* The lock is given back, or a request or its answer is lost.
LEMMA EndsKeep ==
    ASSUME IInv, UNCHANGED pageVars, NEW n \in Ops, DeleteEnds(n) \/ Lost(n)
    PROVE  IInv'
<1> DEFINE place == IF Lost(n) THEN "failed" ELSE "answered"
           r == [ops[n] EXCEPT !.at = place]
<1>1. /\ ops[n] \in Request /\ n \in 1..Len(ops) /\ lock' \in {lock, 0}
      /\ lock' # n /\ (lock' # lock => lock = n) /\ UNCHANGED <<files, crashes, kept>>
  BY RequestHasFields DEF DeleteEnds, Lost, At, IInv, Requests, Holding, Ops
<1>2. /\ r \in Request /\ ops' = [ops EXCEPT ![n] = r] /\ r.at = place
      /\ r.chat = ops[n].chat /\ r.method = ops[n].method /\ r.messages = ops[n].messages
      /\ r.shown = ops[n].shown /\ r.old = ops[n].old /\ r.next = ops[n].next /\ r.for = ops[n].for
  BY <1>1 DEF DeleteEnds, Lost, Move, Request
<1>3. Sound(turns, made, r)
  <2>1. ~Lost(n) => ops[n].at = "removing" /\ ops[n].method = "DELETE"
    BY DEF DeleteEnds, At, IInv, Requests, Sound
  <2>2. Sound(turns, made, ops[n]) /\ ops[n].at # "settled"
    BY <1>1 DEF IInv, Requests, Request
  <2>3. /\ r.at \in {"failed", "answered"}
        /\ r.at = "answered" => ops[n].method = "DELETE"
    BY <1>2, <2>1
  <2> HIDE DEF r
  <2> QED
    BY <1>2, <2>2, <2>3 DEF Sound
<1> HIDE DEF r
<1>4. ops' \in Seq(AnyRequest) /\ lock' \in 0..Len(ops)' /\ Requests'
  <2>1. /\ r \in AnyRequest /\ Knows(files', kept', r) /\ (r.at \in Holding <=> lock' = n)
        /\ lock' \in 0..Len(ops)
    BY <1>1, <1>2 DEF Knows, Holding, AnyRequest, IInv, Types
  <2>2. Sound(turns', made', r)
    BY <1>3, PageRests DEF pageVars
  <2>3. \A m \in Ops \ {n} : lock' = m <=> lock = m
    BY <1>1 DEF Ops
  <2> QED
    BY <1>1, <1>2, <2>1, <2>2, <2>3, PageRests, OneMoves
<1> QED
  BY <1>1, <1>4, PageRests DEF IInv, Types, FilesSaid, SavedStays, pageVars

LEMMA GetKeeps ==
    ASSUME IInv, UNCHANGED pageVars, NEW n \in Ops, Get(n)
    PROVE  IInv'
<1> DEFINE place == IF files[ops[n].chat] = None THEN "failed" ELSE "answered"
           r == [ops[n] EXCEPT !.old = files[ops[n].chat], !.at = place]
<1>1. /\ ops[n] \in Request /\ n \in 1..Len(ops) /\ ops[n].at = "asked" /\ ops[n].method = "GET"
      /\ lock # n /\ UNCHANGED <<files, lock, crashes, kept>>
  BY RequestHasFields DEF Get, At, IInv, Requests, Holding, Ops
<1>2. ops[n].chat \in ChatIds /\ files[ops[n].chat] \in Saved \cup {None}
  BY <1>1 DEF IInv, Types, Requests, Sound
<1>3. /\ r \in Request /\ ops' = [ops EXCEPT ![n] = r]
      /\ r.at = place /\ r.old = files[ops[n].chat]
      /\ r.chat = ops[n].chat /\ r.method = ops[n].method /\ r.messages = ops[n].messages
      /\ r.shown = ops[n].shown /\ r.next = ops[n].next /\ r.for = ops[n].for
  BY <1>1, <1>2 DEF Get, Request
<1>4. Sound(turns, made, r)
  BY <1>1, <1>2, <1>3 DEF IInv, Requests, Sound, FilesSaid
<1> HIDE DEF r
<1>5. ops' \in Seq(AnyRequest) /\ lock' \in 0..Len(ops)' /\ Requests'
  <2>1. /\ r \in AnyRequest /\ Knows(files', kept', r) /\ (r.at \in Holding <=> lock' = n)
        /\ lock' \in 0..Len(ops)
    BY <1>1, <1>3 DEF Knows, Holding, AnyRequest, IInv, Types
  <2>2. Sound(turns', made', r)
    BY <1>4, PageRests DEF pageVars
  <2> QED
    BY <1>1, <1>3, <2>1, <2>2, PageRests, OneMoves
<1> QED
  BY <1>1, <1>5, PageRests DEF IInv, Types, FilesSaid, SavedStays, pageVars

\* Of the threads that held the lock, none is left.
LEMMA CrashKeeps ==
    ASSUME IInv, UNCHANGED pageVars, Crash
    PROVE  IInv'
<1> DEFINE dies == {"asked", "writing", "removing"}
           after(n) == IF ops[n].at \in dies THEN [ops[n] EXCEPT !.at = "failed"] ELSE ops[n]
<1>1. /\ lock' = 0 /\ ops' = [n \in Ops |-> after(n)] /\ UNCHANGED <<files, kept>>
      /\ crashes' \in 0..MaxCrashes
  BY DEF Crash, IInv, Types, ChatsAssumption
<1>2. ASSUME NEW n \in Ops
      PROVE  /\ after(n) \in AnyRequest /\ after(n).at \notin dies
             /\ Sound(turns, made, after(n))
  <2>1. CASE ops[n].at \notin dies
    BY <2>1, ElementOfSeq DEF IInv, Types, Requests, Ops
  <2>2. CASE ops[n].at \in dies
    <3> DEFINE r == after(n)
    <3>1. ops[n] \in Request /\ r = [ops[n] EXCEPT !.at = "failed"]
      BY <2>2, RequestHasFields DEF IInv
    <3>2. /\ r \in Request /\ r.at = "failed"
          /\ r.chat = ops[n].chat /\ r.method = ops[n].method /\ r.messages = ops[n].messages
          /\ r.shown = ops[n].shown /\ r.old = ops[n].old /\ r.next = ops[n].next /\ r.for = ops[n].for
      BY <3>1 DEF Request
    <3>3. Sound(turns, made, r)
      BY <3>1, <3>2 DEF IInv, Requests, Sound, Request
    <3> QED
      BY <3>2, <3>3 DEF AnyRequest
  <2> QED
    BY <2>1, <2>2
<1>3. /\ ops' \in Seq(AnyRequest) /\ Len(ops') = Len(ops) /\ Len(ops) \in Nat
      /\ \A n \in Ops : ops'[n] = after(n)
  <2>1. Len(ops) \in Nat
    BY LenProperties DEF IInv, Types
  <2>2. ops' \in [1..Len(ops) -> AnyRequest]
    BY <1>1, <1>2 DEF Ops
  <2>3. ops' \in Seq(AnyRequest)
    BY <2>1, <2>2, SeqDef
  <2>4. Len(ops') = Len(ops)
    BY <2>1, <2>2, <2>3
  <2> QED
    BY <1>1, <2>1, <2>3, <2>4
<1> HIDE DEF after
<1>4. Requests'
  BY <1>1, <1>2, <1>3 DEF Requests, Ops, Knows, Holding, pageVars
<1> QED
  BY <1>1, <1>3, <1>4, PageRests DEF IInv, Types, FilesSaid, SavedStays, pageVars

-----------------------------------------------------------------------------
(* The rounds of a turn *)

\* A turn takes another place; it stays a turn of its chat.
LEMMA TurnMoves ==
    ASSUME IInv, NEW t \in Turns, NEW u \in AnyTurn, turns' = [turns EXCEPT ![t] = u],
           u.chat = turns[t].chat
    PROVE  /\ Grows /\ Len(turns') \in Nat /\ turns' \in Seq(AnyTurn) /\ Turns' = Turns
           /\ turns'[t] = u /\ \A k \in Turns \ {t} : turns'[k] = turns[k]
<1>1. /\ Len(turns) \in Nat /\ turns' \in Seq(AnyTurn) /\ Len(turns') = Len(turns)
      /\ \A k \in Turns : turns'[k] = IF k = t THEN u ELSE turns[k]
  BY ExceptSeq, LenProperties DEF IInv, Types, Turns
<1> QED
  BY <1>1 DEF Grows, Turns

LEMMA TurnEnds ==
    ASSUME IInv, NEW t \in Turns, turns[t].at # "over", Finish(t), UNCHANGED <<generation, id>>
    PROVE  /\ Grows /\ Len(turns') \in Nat /\ turns' \in Seq(AnyTurn)
           /\ CurrentTurns' /\ saveT' \in {"never", "armed", "off"}
<1> DEFINE u == [chat |-> turns[t].chat, at |-> "over"]
<1>1. turns[t] \in Turn
  BY TurnHasFields DEF IInv
<1>2. u \in AnyTurn /\ u.chat = turns[t].chat /\ u.at = "over"
  BY <1>1 DEF AnyTurn, Turn
<1>3. turns' = [turns EXCEPT ![t] = u] /\ saveT' = "armed"
  BY DEF Finish
<1> HIDE DEF u
<1>4. /\ Grows /\ Len(turns') \in Nat /\ turns' \in Seq(AnyTurn) /\ Turns' = Turns
      /\ turns'[t] = u /\ \A k \in Turns \ {t} : turns'[k] = turns[k]
  BY <1>2, <1>3, TurnMoves
<1>5. CurrentTurns'
  BY <1>2, <1>4 DEF IInv, CurrentTurns
<1> QED
  BY <1>3, <1>4, <1>5

\* What is put into the history is of the turn that puts it there; unless it is
\* a tool's result, the turn is of the chat that is shown.
LEMMA Remembered ==
    ASSUME IInv, NEW t \in 1..Len(turns'), NEW role \in {"user", "assistant", "call", "tool"},
           Grows, Len(turns') \in Nat, role # "tool" => turns'[t].chat = id,
           history' = Append(history, Message(t, role)), id' = id
    PROVE  history' \in Seq(Messages) /\ Said(turns', history', id')
<1> DEFINE m == Message(t, role)
<1>1. m \in Messages /\ m.turn = t /\ m.role = role
  BY DEF Message, Messages
<1>2. Said(turns', history, id)
  BY SaidStays DEF IInv, Types
<1> HIDE DEF m
<1>3. /\ history' \in Seq(Messages) /\ Len(history) \in Nat /\ Len(history') = Len(history) + 1
      /\ \A i \in 1..Len(history) : history'[i] = history[i]
      /\ history'[Len(history) + 1] = m
  BY <1>1, AppendProperties, LenProperties DEF IInv, Types, m
<1>4. \A i \in 1..Len(history') : i \in 1..Len(history) \/ i = Len(history) + 1
  BY <1>3
<1> QED
  BY <1>1, <1>2, <1>3, <1>4 DEF Said

LEMMA AskKeeps ==
    ASSUME IInv, Ask
    PROVE  IInv'
<1> DEFINE u == [chat |-> id, gen |-> generation + 1, round |-> 1, at |-> "model"]
           k == Len(turns) + 1
<1>1. /\ generation' = generation + 1 /\ turns' = Append(turns, u)
      /\ history' = Append(history, Message(k, "user"))
      /\ UNCHANGED <<serviceVars, id, made, saveT>>
  BY DEF Ask
<1>2. u \in Turn /\ u.chat = id /\ u.gen = generation + 1 /\ u.round = 1
  BY DEF IInv, Types, Turn
<1> HIDE DEF u
<1>3. /\ turns' \in Seq(AnyTurn) /\ Len(turns) \in Nat /\ Len(turns') = k
      /\ \A t \in Turns : turns'[t] = turns[t]
      /\ turns'[k] = u
  BY <1>1, <1>2, AppendProperties, LenProperties DEF IInv, Types, Turns, AnyTurn
<1>4. Grows /\ Len(turns') \in Nat /\ Turns' = Turns \cup {k} /\ k \in 1..Len(turns')
  BY <1>3 DEF Grows, Turns
<1>5. history' \in Seq(Messages) /\ Said(turns', history', id')
  BY <1>1, <1>2, <1>3, <1>4, Remembered
<1>6. CurrentTurns'
  <2>1. /\ turns'[k].round <= MaxRounds /\ turns'[k].chat = id'
        /\ turns'[k].gen = generation' /\ turns'[k].gen <= generation'
    BY <1>1, <1>2, <1>3 DEF IInv, Types, ChatPageAssumption
  <2>2. \A t \in Turns : turns[t].at # "over" => turns[t].gen \in Nat /\ turns[t].gen < generation'
    BY <1>1, TurnHasFields DEF IInv, Types, CurrentTurns, Turn
  <2>3. ASSUME NEW t \in Turns, turns[t].at # "over"
        PROVE  /\ turns[t].round <= MaxRounds /\ turns[t].gen <= generation'
               /\ turns[t].gen # generation'
    BY <1>1, <2>2, <2>3 DEF IInv, Types, CurrentTurns
  <2> QED
    BY <1>1, <1>2, <1>3, <1>4, <2>1, <2>3 DEF IInv, Types, CurrentTurns
<1>7. Requests' /\ FilesSaid' /\ SavedStays'
  BY <1>1, <1>4, ServiceRests
<1> QED
  BY <1>1, <1>3, <1>5, <1>6, <1>7 DEF IInv, Types, serviceVars

\* The turn is over without another word.
LEMMA BreakKeeps ==
    ASSUME IInv, NEW t \in Turns, StreamBreaks(t) \/ RequestFails(t)
    PROVE  IInv'
<1>1. Finish(t) /\ turns[t].at # "over" /\ UNCHANGED <<serviceVars, history, id, made, generation>>
  BY DEF StreamBreaks, RequestFails
<1>2. /\ Grows /\ Len(turns') \in Nat /\ turns' \in Seq(AnyTurn)
      /\ CurrentTurns' /\ saveT' \in {"never", "armed", "off"}
  BY <1>1, TurnEnds
<1>3. Said(turns', history', id')
  BY <1>1, <1>2, SaidStays DEF IInv, Types
<1>4. Requests' /\ FilesSaid' /\ SavedStays'
  BY <1>1, <1>2, ServiceRests
<1> QED
  BY <1>1, <1>2, <1>3, <1>4 DEF IInv, Types, serviceVars

\* A turn that may still speak is of the chat that is shown.
LEMMA SpeakerIsHere ==
    ASSUME IInv, NEW t \in Turns, turns[t].at = "model", ~Interrupted(t)
    PROVE  turns[t].chat = id
BY DEF IInv, CurrentTurns, Interrupted

LEMMA ReplyKeeps ==
    ASSUME IInv, NEW t \in Turns, Reply(t)
    PROVE  IInv'
<1>1. /\ Finish(t) /\ turns[t].at = "model" /\ ~Interrupted(t)
      /\ history' = Append(history, Message(t, "assistant"))
      /\ UNCHANGED <<serviceVars, id, made, generation>>
  BY DEF Reply
<1>2. /\ Grows /\ Len(turns') \in Nat /\ turns' \in Seq(AnyTurn)
      /\ CurrentTurns' /\ saveT' \in {"never", "armed", "off"}
  BY <1>1, TurnEnds
<1>3. t \in 1..Len(turns') /\ turns'[t].chat = id
  BY <1>1, <1>2, SpeakerIsHere, LenProperties DEF Grows, Turns, IInv, Types
<1>4. history' \in Seq(Messages) /\ Said(turns', history', id')
  BY <1>1, <1>2, <1>3, Remembered
<1>5. Requests' /\ FilesSaid' /\ SavedStays'
  BY <1>1, <1>2, ServiceRests
<1> QED
  BY <1>1, <1>2, <1>4, <1>5 DEF IInv, Types, serviceVars

LEMMA ToolCallKeeps ==
    ASSUME IInv, NEW t \in Turns, ToolCall(t)
    PROVE  IInv'
<1> DEFINE u == [turns[t] EXCEPT !.at = "tool"]
<1>1. /\ turns' = [turns EXCEPT ![t] = u] /\ turns[t].at = "model" /\ ~Interrupted(t)
      /\ history' = Append(history, Message(t, "call"))
      /\ UNCHANGED <<serviceVars, id, made, saveT, generation>>
  BY DEF ToolCall
<1>2. turns[t] \in Turn
  BY <1>1, TurnHasFields DEF IInv
<1>3. /\ u \in AnyTurn /\ u.chat = turns[t].chat /\ u.gen = turns[t].gen
      /\ u.round = turns[t].round
  BY <1>2 DEF AnyTurn, Turn
<1> HIDE DEF u
<1>4. /\ Grows /\ Len(turns') \in Nat /\ turns' \in Seq(AnyTurn) /\ Turns' = Turns
      /\ turns'[t] = u /\ \A k \in Turns \ {t} : turns'[k] = turns[k]
  BY <1>1, <1>3, TurnMoves
<1>5. CurrentTurns'
  BY <1>1, <1>3, <1>4 DEF IInv, CurrentTurns
<1>6. t \in 1..Len(turns') /\ turns'[t].chat = id
  BY <1>1, <1>3, <1>4, SpeakerIsHere DEF Turns
<1>7. history' \in Seq(Messages) /\ Said(turns', history', id')
  BY <1>1, <1>4, <1>6, Remembered
<1>8. Requests' /\ FilesSaid' /\ SavedStays'
  BY <1>1, <1>4, ServiceRests
<1> QED
  BY <1>1, <1>4, <1>5, <1>7, <1>8 DEF IInv, Types, serviceVars

\* The result of a tool is remembered wherever it arrives; that it is a tool's
\* is what the property allows.
LEMMA ToolDoneKeeps ==
    ASSUME IInv, NEW t \in Turns, ToolDone(t)
    PROVE  IInv'
<1>1. /\ turns[t].at = "tool" /\ history' = Append(history, Message(t, "tool"))
      /\ UNCHANGED <<serviceVars, id, made, generation>>
  BY DEF ToolDone
<1>2. /\ Grows /\ Len(turns') \in Nat /\ turns' \in Seq(AnyTurn)
      /\ CurrentTurns' /\ saveT' \in {"never", "armed", "off"}
  <2>1. CASE turns[t].round = MaxRounds
    <3>1. Finish(t)
      BY <2>1 DEF ToolDone
    <3> QED
      BY <1>1, <3>1, TurnEnds
  <2>2. CASE turns[t].round # MaxRounds
    <3> DEFINE u == [turns[t] EXCEPT !.at = "model", !.round = @ + 1]
    <3>1. turns' = [turns EXCEPT ![t] = u] /\ UNCHANGED saveT
      BY <2>2 DEF ToolDone
    <3>2. turns[t] \in Turn
      BY <1>1, TurnHasFields DEF IInv
    <3>3. /\ u \in AnyTurn /\ u.chat = turns[t].chat /\ u.gen = turns[t].gen
          /\ u.round = turns[t].round + 1
      <4>1. turns[t].round + 1 \in Nat \ {0}
        BY <3>2 DEF Turn
      <4> QED
        BY <3>2, <4>1 DEF AnyTurn, Turn
    <3>4. u.round <= MaxRounds
      BY <1>1, <2>2, <3>2, <3>3 DEF IInv, CurrentTurns, ChatPageAssumption, Turn
    <3> HIDE DEF u
    <3>5. /\ Grows /\ Len(turns') \in Nat /\ turns' \in Seq(AnyTurn) /\ Turns' = Turns
          /\ turns'[t] = u /\ \A k \in Turns \ {t} : turns'[k] = turns[k]
      BY <3>1, <3>3, TurnMoves
    <3>6. CurrentTurns'
      BY <1>1, <3>3, <3>4, <3>5 DEF IInv, CurrentTurns
    <3> QED
      BY <3>1, <3>5, <3>6 DEF IInv, Types
  <2> QED
    BY <2>1, <2>2
<1>3. t \in 1..Len(turns')
  BY <1>2, LenProperties DEF Grows, Turns, IInv, Types
<1>4. history' \in Seq(Messages) /\ Said(turns', history', id')
  BY <1>1, <1>2, <1>3, Remembered
<1>5. Requests' /\ FilesSaid' /\ SavedStays'
  BY <1>1, <1>2, ServiceRests
<1> QED
  BY <1>1, <1>2, <1>4, <1>5 DEF IInv, Types, serviceVars

-----------------------------------------------------------------------------
(* The chats panel *)

\* The invariant's two sides: what the service keeps, and what the page does.
ServiceSide ==
    /\ files \in [ChatIds -> Saved \cup {None}]
    /\ kept \subseteq ChatIds
    /\ lock \in 0..Len(ops)
    /\ ops \in Seq(AnyRequest)
    /\ crashes \in 0..MaxCrashes
    /\ Requests /\ FilesSaid /\ SavedStays

PageSide ==
    /\ turns \in Seq(AnyTurn)
    /\ history \in Seq(Messages)
    /\ made \subseteq ChatIds /\ id \in made
    /\ generation \in Nat
    /\ CurrentTurns /\ Said(turns, history, id)

\* While no turn moves, none changes its chat.
LEMMA TurnsRest ==
    ASSUME IInv, UNCHANGED turns
    PROVE  Grows /\ Len(turns') \in Nat
BY LenProperties DEF IInv, Types, Grows, Turns

LEMMA PageStays ==
    ASSUME IInv, UNCHANGED <<history, id, made, generation, turns>>
    PROVE  PageSide'
BY DEF IInv, Types, PageSide, CurrentTurns, Turns, Said

\* A new chat: nothing was said in it, and every turn is interrupted.
LEMMA NewChatShown ==
    ASSUME IInv, NewChat, UNCHANGED turns
    PROVE  PageSide' /\ made \subseteq made'
<1>1. PICK c \in ChatIds \ made : id' = c /\ made' = made \cup {c}
  BY DEF NewChat
<1>2. history' = <<>> /\ generation' = generation + 1
  BY DEF NewChat
<1>3. history' \in Seq(Messages) /\ Said(turns', history', id')
  BY <1>2 DEF Said
<1>4. ASSUME NEW t \in Turns, turns[t].at # "over"
      PROVE  /\ turns[t].round <= MaxRounds /\ turns[t].gen <= generation'
             /\ turns[t].gen # generation'
  BY <1>2, <1>4, TurnHasFields DEF IInv, Types, CurrentTurns, Turn
<1>5. CurrentTurns'
  BY <1>4 DEF CurrentTurns, Turns
<1> QED
  BY <1>1, <1>2, <1>3, <1>5 DEF IInv, Types, PageSide

\* A chat is shown with what was said in it, and every turn is interrupted.
LEMMA ChatShown ==
    ASSUME IInv, NEW chat \in made, NEW messages \in Seq(Messages), Said(turns, messages, chat),
           ShowChat(chat, messages), UNCHANGED turns
    PROVE  PageSide' /\ made \subseteq made'
<1>1. /\ history' = messages /\ id' = chat /\ made' = made
      /\ generation' = generation + 1
  BY DEF ShowChat
<1>2. ASSUME NEW t \in Turns, turns[t].at # "over"
      PROVE  /\ turns[t].round <= MaxRounds /\ turns[t].gen <= generation'
             /\ turns[t].gen # generation'
  BY <1>1, <1>2, TurnHasFields DEF IInv, Types, CurrentTurns, Turn
<1>3. CurrentTurns'
  BY <1>2 DEF CurrentTurns, Turns
<1>4. Said(turns', history', id')
  BY <1>1
<1> QED
  BY <1>1, <1>3, <1>4 DEF IInv, Types, PageSide

LEMMA ServiceStays ==
    ASSUME IInv, UNCHANGED <<serviceVars, turns>>, made \subseteq made'
    PROVE  ServiceSide'
<1>1. Requests' /\ FilesSaid' /\ SavedStays'
  BY TurnsRest, ServiceRests
<1> QED
  BY <1>1 DEF IInv, Types, ServiceSide, serviceVars

\* One request of the page's, by what the service has made of the others.
LEMMA ServiceGoesOn ==
    ASSUME IInv, UNCHANGED <<files, lock, crashes, kept, turns>>, made \subseteq made',
           ops' \in Seq(AnyRequest), lock' \in 0..Len(ops)', Requests'
    PROVE  ServiceSide'
BY DEF IInv, Types, ServiceSide, FilesSaid, SavedStays, Said

\* What the page asks for carries the chat and the messages of the moment.
LEMMA Called ==
    ASSUME IInv, UNCHANGED <<turns, made>>,
           NEW method \in {"PUT", "GET", "DELETE"}, NEW chat \in ChatIds \cup {None},
           NEW next \in {"nothing", "fresh", "open", "remove"},
           Call(method, chat, None, <<>>, next),
           method # "DELETE" => chat \in ChatIds, method = "PUT" => chat = id,
           next = "open" => method = "GET" /\ chat \in made
    PROVE  ServiceSide'
<1> DEFINE r == [method |-> method, chat |-> chat, messages |-> history, at |-> "asked",
                 old |-> None, names |-> {}, for |-> None, shown |-> <<>>, next |-> next]
<1>1. ops' = Append(ops, r) /\ UNCHANGED <<files, lock, crashes, kept>>
  BY DEF Call
<1>2. /\ r \in Request /\ r.method = method /\ r.chat = chat /\ r.messages = history
      /\ r.at = "asked" /\ r.old = None /\ r.next = next
  BY DEF Request, IInv, Types
<1> HIDE DEF r
<1>3. Sound(turns', made', r)
  BY <1>2 DEF Sound, IInv
<1>4. ops' \in Seq(AnyRequest) /\ lock' \in 0..Len(ops)' /\ Requests'
  BY <1>1, <1>2, <1>3, TurnsRest, OneMore DEF AnyRequest
<1> QED
  BY <1>1, <1>4, ServiceGoesOn

\* A request that has its answer, or never will, is done with.
LEMMA SettledGoesOn ==
    ASSUME IInv, UNCHANGED turns, made \subseteq made', NEW n \in Ops, Done(n), Settled(n)
    PROVE  ServiceSide'
<1> DEFINE r == [at |-> "settled"]
<1>1. /\ ops' = [ops EXCEPT ![n] = r] /\ UNCHANGED <<files, lock, crashes, kept>>
      /\ r \in AnyRequest /\ r.at = "settled"
  BY DEF Settled, AnyRequest
<1>2. lock # n
  BY DEF Done, IInv, Requests, Holding
<1> HIDE DEF r
<1>3. /\ Sound(turns', made', r) /\ Knows(files', kept', r)
      /\ (r.at \in Holding <=> lock' = n) /\ lock' \in 0..Len(ops)
  BY <1>1, <1>2 DEF Sound, Knows, Holding, IInv, Types
<1>4. ops' \in Seq(AnyRequest) /\ lock' \in 0..Len(ops)' /\ Requests'
  BY <1>1, <1>3, TurnsRest, OneMoves
<1> QED
  BY <1>1, <1>4, ServiceGoesOn

\* The timer, leaving the page, and saving before a new chat.
LEMMA SavesKeep ==
    ASSUME IInv, Save \/ Fresh
    PROVE  IInv'
<1>1. saveT' \in {"never", "armed", "off"} /\ UNCHANGED turns
  BY DEF Save, Fresh, IInv, Types
<1>2. id \in ChatIds
  BY DEF IInv, Types
<1>3. CASE Save
  <2>1. PageSide' /\ UNCHANGED made
    BY <1>3, PageStays DEF Save
  <2>2. CASE HasQuestion
    <3>1. Call("PUT", id, None, <<>>, "nothing")
      BY <1>3, <2>2 DEF Save
    <3>2. ServiceSide'
      BY <1>1, <1>2, <2>1, <3>1, Called
    <3> QED
      BY <1>1, <2>1, <3>2 DEF IInv, Types, ServiceSide, PageSide
  <2>3. CASE ~HasQuestion
    <3>1. ServiceSide'
      BY <1>1, <1>3, <2>1, <2>3, ServiceStays DEF Save
    <3> QED
      BY <1>1, <2>1, <3>1 DEF IInv, Types, ServiceSide, PageSide
  <2> QED
    BY <2>2, <2>3
<1>4. CASE Fresh
  <2>1. CASE HasQuestion
    <3>1. Call("PUT", id, None, <<>>, "fresh") /\ UNCHANGED <<history, id, made, generation>>
      BY <1>4, <2>1 DEF Fresh
    <3>2. PageSide'
      BY <1>1, <3>1, PageStays
    <3>3. ServiceSide'
      BY <1>1, <1>2, <3>1, Called
    <3> QED
      BY <1>1, <3>2, <3>3 DEF IInv, Types, ServiceSide, PageSide
  <2>2. CASE ~HasQuestion
    <3>1. NewChat /\ UNCHANGED serviceVars
      BY <1>4, <2>2 DEF Fresh
    <3>2. PageSide' /\ made \subseteq made'
      BY <1>1, <3>1, NewChatShown
    <3>3. ServiceSide'
      BY <1>1, <3>1, <3>2, ServiceStays
    <3> QED
      BY <1>1, <3>2, <3>3 DEF IInv, Types, ServiceSide, PageSide
  <2> QED
    BY <2>1, <2>2
<1> QED
  BY <1>3, <1>4

LEMMA FreshEndsKeeps ==
    ASSUME IInv, NEW n \in Ops, FreshEnds(n)
    PROVE  IInv'
<1>1. Done(n) /\ Settled(n) /\ NewChat /\ UNCHANGED <<saveT, turns>>
  BY DEF FreshEnds
<1>2. PageSide' /\ made \subseteq made'
  BY <1>1, NewChatShown
<1>3. ServiceSide'
  BY <1>1, <1>2, SettledGoesOn
<1> QED
  BY <1>1, <1>2, <1>3 DEF IInv, Types, ServiceSide, PageSide

\* A chat is fetched, or is to be removed.
LEMMA AsksKeep ==
    ASSUME IInv, (\E c \in made : Open(c)) \/ (\E c \in made \cup {None} : Remove(c))
    PROVE  IInv'
<1>1. UNCHANGED pageVars
  BY DEF Open, Remove
<1>2. PageSide'
  BY <1>1, PageStays DEF pageVars
<1>3. ASSUME NEW c \in made, Open(c)
      PROVE  ServiceSide'
  <2>1. Call("GET", c, None, <<>>, "open") /\ c \in ChatIds
    BY <1>3 DEF Open, IInv, Types
  <2> QED
    BY <1>1, <2>1, Called DEF pageVars
<1>4. ASSUME NEW c \in made \cup {None}, Remove(c)
      PROVE  ServiceSide'
  <2>1. Call("DELETE", c, None, <<>>, "remove") /\ c \in ChatIds \cup {None}
    BY <1>4 DEF Remove, IInv, Types
  <2> QED
    BY <1>1, <2>1, Called DEF pageVars
<1>5. ServiceSide'
  BY <1>3, <1>4
<1> QED
  BY <1>1, <1>2, <1>5 DEF IInv, Types, ServiceSide, PageSide, pageVars

\* The chat was fetched: the one on screen is saved first, or it is shown.
LEMMA FetchedKeeps ==
    ASSUME IInv, NEW n \in Ops, Fetched(n)
    PROVE  IInv'
<1>1. /\ ops[n] \in Request /\ ops[n].at = "answered" /\ ops[n].next = "open"
      /\ UNCHANGED turns /\ n \in 1..Len(ops)
  BY RequestHasFields DEF Fetched, At, IInv, Ops
<1>2. /\ ops[n].chat \in made /\ ops[n].old # None
      /\ Said(turns, ops[n].old.messages, ops[n].chat)
      /\ ops[n].old.messages \in Seq(Messages)
  BY <1>1, FilesHaveFields DEF IInv, Requests, Sound, Request
<1>3. CASE id # ops[n].chat /\ HasQuestion
  <2> DEFINE r == [ops[n] EXCEPT !.method = "PUT", !.chat = id, !.messages = history,
                                 !.at = "asked", !.for = ops[n].chat,
                                 !.shown = ops[n].old.messages, !.old = None, !.next = "show"]
  <2>1. /\ saveT' = "off" /\ ops' = [ops EXCEPT ![n] = r]
        /\ UNCHANGED <<files, lock, crashes, kept, history, id, made, generation>>
    BY <1>3 DEF Fetched
  <2>2. id \in ChatIds /\ ops[n].chat \in ChatIds /\ lock # n
    BY <1>1, <1>2 DEF IInv, Types, Requests, Holding
  <2>3. /\ r \in Request /\ r.method = "PUT" /\ r.chat = id /\ r.messages = history
        /\ r.at = "asked" /\ r.for = ops[n].chat /\ r.shown = ops[n].old.messages
        /\ r.old = None /\ r.next = "show"
    BY <1>1, <1>2, <2>2 DEF IInv, Types, Request
  <2> HIDE DEF r
  <2>4. Sound(turns', made', r)
    BY <1>1, <1>2, <2>1, <2>2, <2>3 DEF Sound, IInv
  <2>5. /\ r \in AnyRequest /\ Knows(files', kept', r)
        /\ (r.at \in Holding <=> lock' = n) /\ lock' \in 0..Len(ops)
    BY <2>1, <2>2, <2>3 DEF AnyRequest, Knows, Holding, IInv, Types
  <2>6. ops' \in Seq(AnyRequest) /\ lock' \in 0..Len(ops)' /\ Requests'
    BY <1>1, <2>1, <2>4, <2>5, TurnsRest, OneMoves
  <2>7. ServiceSide' /\ PageSide'
    BY <1>1, <2>1, <2>6, ServiceGoesOn, PageStays
  <2> QED
    BY <2>1, <2>7 DEF IInv, Types, ServiceSide, PageSide
<1>4. CASE ~(id # ops[n].chat /\ HasQuestion)
  <2>1. /\ ShowChat(ops[n].chat, ops[n].old.messages) /\ Settled(n) /\ Done(n)
        /\ saveT' \in {saveT, "off"}
    BY <1>1, <1>4 DEF Fetched, Done
  <2>2. PageSide' /\ made \subseteq made'
    BY <1>1, <1>2, <2>1, ChatShown
  <2>3. ServiceSide'
    BY <1>1, <2>1, <2>2, SettledGoesOn
  <2> QED
    BY <2>1, <2>2, <2>3 DEF IInv, Types, ServiceSide, PageSide
<1> QED
  BY <1>3, <1>4

LEMMA OpenEndsKeeps ==
    ASSUME IInv, NEW n \in Ops, OpenEnds(n)
    PROVE  IInv'
<1>1. /\ Done(n) /\ Settled(n) /\ ops[n].next = "show"
      /\ ShowChat(ops[n].for, ops[n].shown) /\ UNCHANGED <<saveT, turns>>
  BY DEF OpenEnds
<1>2. ops[n] \in Request
  BY <1>1, RequestHasFields DEF IInv, Done
<1>3. /\ ops[n].for \in made /\ ops[n].shown \in Seq(Messages)
      /\ Said(turns, ops[n].shown, ops[n].for)
  BY <1>1, <1>2 DEF IInv, Requests, Sound, Request, Done
<1>4. PageSide' /\ made \subseteq made'
  BY <1>1, <1>3, ChatShown
<1>5. ServiceSide'
  BY <1>1, <1>4, SettledGoesOn
<1> QED
  BY <1>1, <1>4, <1>5 DEF IInv, Types, ServiceSide, PageSide

\* A deletion was answered, or an answer is not looked at.
LEMMA RemovedKeeps ==
    ASSUME IInv, NEW n \in Ops, Removed(n) \/ Ignored(n)
    PROVE  IInv'
<1>1. /\ Done(n) /\ Settled(n) /\ UNCHANGED turns /\ saveT' \in {"never", "armed", "off"}
      /\ NewChat \/ UNCHANGED <<history, id, made, generation>>
  BY DEF Removed, Ignored, Done, At, pageVars, IInv, Types
<1>2. PageSide' /\ made \subseteq made'
  <2>1. CASE NewChat
    BY <1>1, <2>1, NewChatShown
  <2>2. CASE UNCHANGED <<history, id, made, generation>>
    BY <1>1, <2>2, PageStays
  <2> QED
    BY <1>1, <2>1, <2>2
<1>3. ServiceSide'
  BY <1>1, <1>2, SettledGoesOn
<1> QED
  BY <1>1, <1>2, <1>3 DEF IInv, Types, ServiceSide, PageSide

-----------------------------------------------------------------------------
(* The invariant and what follows from it *)

LEMMA InitHolds ==
    ASSUME ChatsAssumption, ChatPageAssumption, Init
    PROVE  IInv
<1>1. Types
  BY DEF Init, ServiceInit, Types, ChatsAssumption
<1>2. Ops = {} /\ Turns = {}
  BY DEF Init, ServiceInit, Ops, Turns
<1>3. Requests /\ FilesSaid /\ SavedStays /\ CurrentTurns /\ Said(turns, history, id)
  BY <1>2 DEF Init, ServiceInit, Requests, FilesSaid, SavedStays, CurrentTurns, Said
<1> QED
  BY <1>1, <1>3 DEF IInv

LEMMA NextKeeps ==
    ASSUME IInv, Next
    PROVE  IInv'
<1>1. CASE Model
  BY <1>1, AskKeeps, BreakKeeps, ReplyKeeps, ToolCallKeeps, ToolDoneKeeps DEF Model
<1>2. CASE Panel
  <2>1. CASE SaveTimer \/ PageHide \/ Fresh
    BY <2>1, SavesKeep DEF SaveTimer, PageHide
  <2>2. CASE (\E c \in made : Open(c)) \/ (\E c \in made \cup {None} : Remove(c))
    BY <2>2, AsksKeep
  <2>3. ASSUME NEW n \in Ops,
               FreshEnds(n) \/ Fetched(n) \/ OpenEnds(n) \/ Removed(n) \/ Ignored(n)
        PROVE  IInv'
    BY <2>3, FreshEndsKeeps, FetchedKeeps, OpenEndsKeeps, RemovedKeeps
  <2> QED
    BY <1>2, <2>1, <2>2, <2>3 DEF Panel
<1>3. CASE Service /\ UNCHANGED pageVars
  BY <1>3, PutBeginsKeeps, PutReplacesKeeps, DeleteBeginsKeeps, RemoveOneKeeps, EndsKeep,
     GetKeeps, CrashKeeps DEF Service
<1> QED
  BY <1>1, <1>2, <1>3 DEF Next

LEMMA StutterKeeps ==
    ASSUME IInv, UNCHANGED vars
    PROVE  IInv'
<1>1. UNCHANGED serviceVars /\ UNCHANGED pageVars
  BY DEF vars
<1>2. ServiceSide' /\ PageSide'
  BY <1>1, ServiceStays, PageStays DEF pageVars
<1> QED
  BY <1>1, <1>2 DEF IInv, Types, ServiceSide, PageSide, pageVars

\* IInv holds always, whatever the order of requests, answers and turns.
THEOREM Invariance == Spec => []IInv
<1>1. Init => IInv
  BY InitHolds, ChatsAssumption, ChatPageAssumption
<1>2. IInv /\ [Next]_vars => IInv'
  BY NextKeeps, StutterKeeps
<1> QED
  BY <1>1, <1>2, PTL DEF Spec

\* Type correctness; the lock is held by the one request that is under it.
THEOREM TypeCorrect == Spec => []TypeOK
<1>1. IInv => TypeOK
  <2> SUFFICES ASSUME IInv PROVE TypeOK
    OBVIOUS
  <2>1. ASSUME NEW t \in Turns, turns[t].at # "over"
        PROVE  turns[t].gen <= generation /\ turns[t].round \in 1..MaxRounds
    BY <2>1, TurnHasFields DEF IInv, CurrentTurns, Turn, ChatPageAssumption
  <2>2. \A i \in 1..Len(history) : history[i].turn \in Turns
    BY DEF IInv, Said, Turns
  <2>3. Len(ops) \in Nat /\ \A n \in Ops : n # 0
    BY LenProperties DEF IInv, Types, Ops
  <2>4. /\ lock # 0 <=> \E n \in Ops : ops[n].at \in {"writing", "removing"}
        /\ lock # 0 => ops[lock].at \in {"writing", "removing"}
    BY <2>3 DEF IInv, Types, Requests, Holding, Ops
  <2> QED
    BY <2>1, <2>2, <2>4 DEF IInv, Types, TypeOK
<1> QED
  BY <1>1, Invariance, PTL

\* Saves, deletions of one and of all, lost answers and restarts: a chat that was
\* saved is there until its own deletion begins.
THEOREM SavedChatsStay == Spec => []SavedStays
<1>1. IInv => SavedStays
  BY DEF IInv
<1> QED
  BY <1>1, Invariance, PTL

\* Whatever is cleared, opened or deleted while turns run, questions and answers
\* are remembered and saved in the chat they were given in, and in no other.
THEOREM AnswersAreInTheirChat == Spec => []AnswersStayInTheirChat
<1>1. IInv => AnswersStayInTheirChat
  BY DEF IInv, FilesSaid, Said, AnswersStayInTheirChat, SaidIn
<1> QED
  BY <1>1, Invariance, PTL

\* Saving a chat again never changes when it was created: what do_PUT read is
\* still in the file when it replaces it.
THEOREM CreationIsKept == Spec => CreatedKept
<1> DEFINE Same == \A c \in ChatIds : files[c] # None /\ files'[c] # None
                      => files'[c].created = files[c].created
<1>1. ASSUME IInv, Next
      PROVE  Same
  <2>1. CASE UNCHANGED files
    BY <2>1
  <2>2. ASSUME NEW n \in Ops, PutReplaces(n)
        PROVE  Same
    <3>1. ops[n] \in Request /\ ops[n].old = files[ops[n].chat] /\ ops[n].chat \in ChatIds
      BY <1>1, <2>2, RequestHasFields
         DEF PutReplaces, At, IInv, Types, Requests, Sound, Knows
    <3>2. /\ files[ops[n].chat] # None => files'[ops[n].chat].created = ops[n].old.created
          /\ \A c \in ChatIds \ {ops[n].chat} : files'[c] = files[c]
      BY <1>1, <2>2, <3>1 DEF PutReplaces, IInv, Types
    <3> QED
      BY <3>1, <3>2
  <2>3. ASSUME NEW n \in Ops, RemoveOne(n)
        PROVE  Same
    <3>1. PICK c : files' = [files EXCEPT ![c] = None]
      BY <2>3 DEF RemoveOne
    <3> QED
      BY <1>1, <3>1 DEF IInv, Types
  <2>4. UNCHANGED files \/ \E n \in Ops : PutReplaces(n) \/ RemoveOne(n)
    <3>1. Model \/ Panel => UNCHANGED files
      BY DEF Model, Ask, StreamBreaks, RequestFails, Reply, ToolCall, ToolDone, Panel, SaveTimer,
         PageHide, Save, Fresh, FreshEnds, Open, Fetched, OpenEnds, Remove, Removed, Ignored,
         Call, Settled, serviceVars
    <3>2. Service => UNCHANGED files \/ \E n \in Ops : PutReplaces(n) \/ RemoveOne(n)
      BY DEF Service, PutBegins, DeleteBegins, DeleteEnds, Get, Lost, Crash
    <3> QED
      BY <1>1, <3>1, <3>2 DEF Next
  <2> QED
    BY <2>1, <2>2, <2>3, <2>4
<1>2. IInv /\ [Next]_vars => [Same]_serviceVars
  BY <1>1 DEF vars
<1> QED
  BY <1>2, Invariance, PTL DEF Spec, CreatedKept

-----------------------------------------------------------------------------
(* Lyrics: for any songs, and any number of requests and answers *)

\* A file and what a task will write into it; each song has its own.
ListenIInv ==
    /\ Listen!LyricsAssumption
    /\ file = [s \in Songs |-> file[s]] /\ listens = [s \in Songs |-> listens[s]]
    /\ \A s \in Songs : "at" \in DOMAIN listens[s]
    /\ "nobody" \notin Songs
    /\ \A s \in Songs : file[s].slips \in {0, file[s].lines}
    /\ \A s \in Songs : listens[s].at = "hearing" <=> ears = s

\* listen() and lyrics() of other songs, and what writes no file.
LEMMA ListenKeeps ==
    ASSUME ListenIInv, NEW s \in Songs,
           \/ Listen!Ask(s) \/ Listen!FindFails(s) \/ Listen!Begin(s) \/ Listen!Cut(s) \/ Listen!Hear(s)
           \/ Listen!ListenFails(s) \/ Listen!Forgiven(s)
    PROVE  ListenIInv'
<1>1. file' = file
  BY DEF Listen!Ask, Listen!FindFails, Listen!Begin, Listen!Cut, Listen!Hear, Listen!ListenFails, Listen!Forgiven
<1>2. /\ listens' = [x \in Songs |-> listens'[x]]
      /\ \A x \in Songs \ {s} : listens'[x] = listens[x]
  BY DEF Listen!Ask, Listen!FindFails, Listen!Begin, Listen!Cut, Listen!Hear, Listen!ListenFails,
         Listen!Forgiven, Listen!StartListening, Listen!Over, ListenIInv
<1>3. \A x \in Songs : listens'[x].at = "hearing" <=> ears' = x
  <2>1. CASE Listen!Hear(s)
    BY <1>2, <2>1 DEF Listen!Hear, Listen!At, Listen!Nobody, ListenIInv
  <2>2. CASE Listen!ListenFails(s)
    BY <1>2, <2>2 DEF Listen!ListenFails, Listen!Over, Listen!Quiet, Listen!Nobody, ListenIInv
  <2>3. CASE Listen!Ask(s) \/ Listen!FindFails(s) \/ Listen!Begin(s) \/ Listen!Cut(s) \/ Listen!Forgiven(s)
    <3>1. ears' = ears
      BY <2>3 DEF Listen!Ask, Listen!FindFails, Listen!Begin, Listen!Cut, Listen!Forgiven
    <3>2. CASE Listen!FindFails(s) \/ Listen!Forgiven(s)
      BY <3>1, <3>2 DEF Listen!FindFails, Listen!Forgiven, ListenIInv
    <3>3. CASE Listen!Ask(s)
      <4>1. \/ listens' = listens
            \/ listens[s].at = "none" /\ listens' = [listens EXCEPT ![s].at = "started"]
        BY <3>3 DEF Listen!Ask, Listen!StartListening, Listen!Starts, Listen!At
      <4>2. CASE listens' = listens
        BY <3>1, <4>2 DEF ListenIInv
      <4>3. CASE listens[s].at = "none" /\ listens' = [listens EXCEPT ![s].at = "started"]
        <5>1. listens'[s].at = "started"
          BY <4>3 DEF ListenIInv
        <5> QED
          BY <1>2, <3>1, <4>3, <5>1 DEF ListenIInv
      <4> QED
        BY <4>1, <4>2, <4>3
    <3>4. CASE Listen!Begin(s)
      <4>1. listens[s].at = "started" /\ listens'[s].at = "cutting"
        BY <3>4 DEF Listen!Begin, Listen!At, ListenIInv
      <4> QED
        BY <1>2, <3>1, <4>1 DEF ListenIInv
    <3>5. CASE Listen!Cut(s)
      <4>1. /\ listens[s].at = "cutting"
            /\ \/ listens' = [listens EXCEPT ![s] = Listen!Quiet]
               \/ listens' = [listens EXCEPT ![s].at = "waiting"]
        BY <3>5 DEF Listen!Cut, Listen!At, Listen!Over
      <4>2. listens'[s].at \in {"none", "waiting"}
        BY <4>1 DEF Listen!Quiet, ListenIInv
      <4> QED
        BY <1>2, <3>1, <4>1, <4>2 DEF ListenIInv
    <3> QED
      BY <2>3, <3>2, <3>3, <3>4, <3>5
  <2> QED
    BY <2>1, <2>2, <2>3
<1>4. \A x \in Songs : "at" \in DOMAIN listens'[x]
  <2>1. \/ listens' = listens
        \/ \E place : listens' = [listens EXCEPT ![s].at = place]
        \/ listens' = [listens EXCEPT ![s] = Listen!Quiet]
        \/ \E lines : listens' = [listens EXCEPT ![s] = [at |-> "cutting", lines |-> lines, upto |-> 0]]
    BY DEF Listen!Ask, Listen!FindFails, Listen!Begin, Listen!Cut, Listen!Hear, Listen!ListenFails,
           Listen!Forgiven, Listen!StartListening, Listen!Over
  <2>2. "at" \in DOMAIN listens'[s]
    BY <2>1 DEF Listen!Quiet, ListenIInv
  <2> QED
    BY <1>2, <2>2 DEF ListenIInv
<1> QED
  BY <1>1, <1>2, <1>3, <1>4 DEF ListenIInv

\* Whatever lyrics() writes has no slips.
LEMMA FindKeeps ==
    ASSUME ListenIInv, NEW s \in Songs, Listen!Find(s)
    PROVE  ListenIInv'
<1>1. PICK given \in Listen!Answers :
          file' = [file EXCEPT ![s] = given] /\ Listen!StartListening(s, given)
  BY DEF Listen!Find
<1>2. given.slips = 0
  BY <1>1 DEF Listen!Answers, Listen!Found, Listen!NoFile
<1>3. \A x \in Songs : file'[x].slips \in {0, file'[x].lines}
  BY <1>1, <1>2 DEF ListenIInv
<1>4. /\ listens' = [x \in Songs |-> listens'[x]] /\ ears' = ears
      /\ \A x \in Songs : listens'[x].at = "hearing" <=> listens[x].at = "hearing"
  BY <1>1 DEF Listen!Find, Listen!StartListening, Listen!Starts, Listen!At, ListenIInv
<1>5. \A x \in Songs : "at" \in DOMAIN listens'[x]
  BY <1>1 DEF Listen!StartListening, ListenIInv
<1> QED
  BY <1>1, <1>3, <1>4, <1>5 DEF ListenIInv

\* listen() writes the lines it read with the slips it heard for them.
LEMMA HeardKeeps ==
    ASSUME ListenIInv, NEW s \in Songs, Listen!Heard(s)
    PROVE  ListenIInv'
<1>1. PICK matched, upto, done :
          /\ file' = [file EXCEPT ![s] =
                [kind |-> "lines", lines |-> listens[s].lines,
                 slips |-> IF matched THEN listens[s].lines ELSE 0, done |-> done]]
          /\ listens' = [listens EXCEPT ![s] =
                IF done THEN Listen!Quiet ELSE [at |-> "cutting", lines |-> @.lines, upto |-> upto]]
  BY DEF Listen!Heard, Listen!Saved
<1>2. file'[s].slips \in {0, file'[s].lines}
  BY <1>1 DEF ListenIInv
<1>3. \A x \in Songs : file'[x].slips \in {0, file'[x].lines}
  BY <1>1, <1>2 DEF ListenIInv
<1>4. listens'[s].at # "hearing" /\ \A x \in Songs \ {s} : listens'[x] = listens[x]
  BY <1>1 DEF Listen!Quiet, ListenIInv
<1>5. ears = s /\ ears' = "nobody"
  BY DEF Listen!Heard, Listen!At, Listen!Nobody, ListenIInv
<1>6. \A x \in Songs : listens'[x].at = "hearing" <=> ears' = x
  BY <1>4, <1>5 DEF ListenIInv
<1>7. file' = [x \in Songs |-> file'[x]] /\ listens' = [x \in Songs |-> listens'[x]]
  BY <1>1 DEF ListenIInv
<1>8. \A x \in Songs : "at" \in DOMAIN listens'[x]
  BY <1>1, <1>4 DEF Listen!Quiet, ListenIInv
<1> QED
  BY <1>3, <1>6, <1>7, <1>8 DEF ListenIInv

LEMMA ForgetKeeps ==
    ASSUME ListenIInv, Listen!Restart \/ \E s \in Songs : Listen!Expire(s)
    PROVE  ListenIInv'
<1>1. CASE Listen!Restart
  <2>1. \A x \in Songs : file'[x].slips \in {0, file'[x].lines}
    BY <1>1 DEF Listen!Restart, Listen!NoFile, ListenIInv
  <2>2. file' = [x \in Songs |-> file'[x]]
    BY <1>1 DEF Listen!Restart, ListenIInv
  <2>3. listens' = [x \in Songs |-> Listen!Quiet] /\ ears' = "nobody"
    BY <1>1 DEF Listen!Restart, Listen!Nobody
  <2>4. /\ listens' = [x \in Songs |-> listens'[x]]
        /\ \A x \in Songs : "at" \in DOMAIN listens'[x] /\ listens'[x].at # "hearing"
    BY <2>3 DEF Listen!Quiet
  <2> QED
    BY <2>1, <2>2, <2>3, <2>4 DEF ListenIInv
<1>2. ASSUME NEW s \in Songs, Listen!Expire(s)
      PROVE  ListenIInv'
  <2>1. /\ file' = [file EXCEPT ![s] = [file[s] EXCEPT !.kind = "old"]]
        /\ UNCHANGED <<listens, ears>>
    BY <1>2 DEF Listen!Expire
  <2>2. file' = [x \in Songs |-> file'[x]]
    BY <2>1 DEF ListenIInv
  <2>3. \A x \in Songs : file'[x].slips = file[x].slips /\ file'[x].lines = file[x].lines
    BY <2>1 DEF ListenIInv
  <2> QED
    BY <2>1, <2>2, <2>3 DEF ListenIInv
<1> QED
  BY <1>1, <1>2

\* The types of the lyrics files and of the tasks; a piece is heard only if it is there.
LyricsFile ==
    [kind : {"none", "old", "miss", "plain", "lines", "torn"}, lines : Nat, slips : Nat, done : BOOLEAN]
HearingTask == [at : {"none", "started", "cutting", "waiting", "hearing"}, lines : Nat, upto : Nat]

ListenTypes ==
    /\ file \in [Songs -> LyricsFile] /\ listens \in [Songs -> HearingTask]
    /\ \A s \in Songs : listens[s].upto <= Pieces[s]
    /\ \A s \in Songs : listens[s].at \in {"waiting", "hearing"} => listens[s].upto < Pieces[s]
    /\ ears \in Songs \cup {"nobody"} /\ deaf \subseteq Songs /\ wholes \subseteq Songs

LEMMA ListenTypesStart == Listen!LyricsAssumption /\ Listen!Init => ListenTypes
BY DEF Listen!LyricsAssumption, Listen!Init, Listen!NoFile, Listen!Quiet, Listen!Nobody, ListenTypes,
       LyricsFile, HearingTask

\* One task goes on and one file is written.
LEMMA ListenTypesGoOn ==
    ASSUME Listen!LyricsAssumption, ListenTypes, NEW s \in Songs, NEW f \in LyricsFile,
           NEW l \in HearingTask, l.upto <= Pieces[s],
           l.at \in {"waiting", "hearing"} => l.upto < Pieces[s],
           file' = [file EXCEPT ![s] = f], listens' = [listens EXCEPT ![s] = l],
           ears' \in Songs \cup {"nobody"}, deaf' \subseteq Songs, wholes' \subseteq Songs
    PROVE  ListenTypes'
<1>1. file' \in [Songs -> LyricsFile] /\ listens' \in [Songs -> HearingTask]
  BY DEF ListenTypes
<1>2. listens'[s] = l /\ \A x \in Songs \ {s} : listens'[x] = listens[x]
  BY DEF ListenTypes
<1> QED
  BY <1>1, <1>2 DEF ListenTypes

LEMMA ListenTypesKept ==
    Listen!LyricsAssumption /\ ListenTypes /\ [Listen!Next]_Listen!vars => ListenTypes'
<1> SUFFICES ASSUME Listen!LyricsAssumption, ListenTypes, [Listen!Next]_Listen!vars PROVE ListenTypes'
  OBVIOUS
<1>1. CASE UNCHANGED Listen!vars
  BY <1>1 DEF Listen!vars, ListenTypes
<1>2. CASE Listen!Restart
  <2>1. [Listen!NoFile EXCEPT !.kind = "torn"] \in LyricsFile /\ Listen!Quiet \in HearingTask
        /\ Listen!Quiet.upto = 0 /\ Listen!Quiet.at = "none"
    BY DEF Listen!NoFile, Listen!Quiet, LyricsFile, HearingTask
  <2>2. file' \in [Songs -> LyricsFile]
    BY <1>2, <2>1 DEF Listen!Restart, ListenTypes
  <2>3. listens' = [s \in Songs |-> Listen!Quiet] /\ ears' = "nobody" /\ deaf' = {} /\ wholes' = wholes
    BY <1>2 DEF Listen!Restart, Listen!Nobody
  <2>4. \A s \in Songs : Pieces[s] \in Nat
    BY DEF Listen!LyricsAssumption
  <2> QED
    BY <2>1, <2>2, <2>3, <2>4 DEF ListenTypes
<1>3. ASSUME NEW s \in Songs,
             \/ Listen!Ask(s) \/ Listen!Find(s) \/ Listen!FindFails(s) \/ Listen!Begin(s) \/ Listen!Cut(s)
             \/ Listen!Hear(s) \/ Listen!Heard(s) \/ Listen!ListenFails(s) \/ Listen!Forgiven(s)
             \/ Listen!Expire(s)
      PROVE  ListenTypes'
  <2> DEFINE f == file[s]
             l == listens[s]
             Others == ears' \in Songs \cup {"nobody"} /\ deaf' \subseteq Songs /\ wholes' \subseteq Songs
             Goes(h, k) == /\ h \in LyricsFile /\ k \in HearingTask /\ k.upto <= Pieces[s]
                           /\ k.at \in {"waiting", "hearing"} => k.upto < Pieces[s]
                           /\ file' = [file EXCEPT ![s] = h] /\ listens' = [listens EXCEPT ![s] = k]
  <2>1. /\ f \in LyricsFile /\ l \in HearingTask /\ l.upto <= Pieces[s] /\ Pieces[s] \in Nat
        /\ l.at \in {"waiting", "hearing"} => l.upto < Pieces[s]
        /\ file = [file EXCEPT ![s] = f] /\ listens = [listens EXCEPT ![s] = l]
    BY DEF Listen!LyricsAssumption, ListenTypes
  <2>2. /\ l = [at |-> l.at, lines |-> l.lines, upto |-> l.upto] /\ l.lines \in Nat /\ l.upto \in Nat
        /\ f = [kind |-> f.kind, lines |-> f.lines, slips |-> f.slips, done |-> f.done]
        /\ f.lines \in Nat /\ f.slips \in Nat /\ f.done \in BOOLEAN
    BY <2>1 DEF LyricsFile, HearingTask
  <2>3. Others
    BY <1>3 DEF Listen!Ask, Listen!Find, Listen!FindFails, Listen!Begin, Listen!Cut, Listen!Hear, Listen!Heard,
                Listen!ListenFails, Listen!Forgiven, Listen!Expire, Listen!Nobody, ListenTypes
  <2>4. [l EXCEPT !.at = "started"] \in HearingTask /\ [l EXCEPT !.at = "started"].upto = l.upto
        /\ [l EXCEPT !.at = "started"].at = "started"
    BY <2>2 DEF HearingTask
  <2>5. ASSUME NEW h \in LyricsFile, file' = [file EXCEPT ![s] = h], Listen!StartListening(s, h)
        PROVE  \E k : Goes(h, k)
    <3>1. listens' = [listens EXCEPT ![s] = [l EXCEPT !.at = "started"]] \/ listens' = listens
      BY <2>5 DEF Listen!StartListening
    <3>2. Goes(h, l) \/ Goes(h, [l EXCEPT !.at = "started"])
      BY <2>1, <2>4, <2>5, <3>1
    <3> QED
      BY <3>2
  <2>6. \E h, k : Goes(h, k)
    <3>1. CASE Listen!Ask(s)
      BY <2>1, <2>5, <3>1 DEF Listen!Ask
    <3>2. CASE Listen!Find(s)
      <4>1. \A h \in Listen!Answers : h \in LyricsFile
        <5>1. Listen!NoFile = [kind |-> "none", lines |-> 0, slips |-> 0, done |-> FALSE]
          BY DEF Listen!NoFile
        <5>2. \A n \in 1..MaxVersion : Listen!Found(n) \in LyricsFile
          <6> SUFFICES ASSUME NEW n \in 1..MaxVersion PROVE Listen!Found(n) \in LyricsFile
            OBVIOUS
          <6>1. n \in Nat
            BY DEF Listen!LyricsAssumption
          <6>2. Listen!Found(n) = [kind |-> "lines", lines |-> n, slips |-> 0, done |-> FALSE]
            BY <5>1 DEF Listen!Found
          <6> QED
            BY <6>1, <6>2 DEF LyricsFile
        <5>3. /\ [Listen!NoFile EXCEPT !.kind = "miss"] \in LyricsFile
              /\ [Listen!NoFile EXCEPT !.kind = "plain"] \in LyricsFile
          BY <5>1 DEF LyricsFile
        <5> QED
          BY <5>2, <5>3 DEF Listen!Answers
      <4> QED
        BY <2>5, <3>2, <4>1 DEF Listen!Find
    <3>3. CASE Listen!FindFails(s) \/ Listen!Forgiven(s)
      BY <2>1, <3>3 DEF Listen!FindFails, Listen!Forgiven
    <3>4. CASE Listen!Begin(s)
      <4>1. Goes(f, [at |-> "cutting", lines |-> f.lines, upto |-> 0])
        BY <2>1, <2>2, <3>4 DEF Listen!Begin, HearingTask
      <4> QED
        BY <4>1
    <3>5. CASE Listen!Cut(s) \/ Listen!ListenFails(s)
      <4>1. Listen!Quiet \in HearingTask /\ Listen!Quiet.upto = 0 /\ Listen!Quiet.at = "none"
        BY DEF Listen!Quiet, HearingTask
      <4>2. /\ [l EXCEPT !.at = "waiting"] \in HearingTask /\ [l EXCEPT !.at = "waiting"].upto = l.upto
        BY <2>2 DEF HearingTask
      <4>3. \/ file' = file /\ listens' = [listens EXCEPT ![s] = Listen!Quiet]
            \/ /\ l.upto # Pieces[s] /\ file' = file
               /\ listens' = [listens EXCEPT ![s] = [l EXCEPT !.at = "waiting"]]
        BY <3>5 DEF Listen!Cut, Listen!ListenFails, Listen!Over
      <4>4. Goes(f, Listen!Quiet) \/ Goes(f, [l EXCEPT !.at = "waiting"])
        BY <2>1, <2>2, <4>1, <4>2, <4>3
      <4> QED
        BY <4>4
    <3>6. CASE Listen!Hear(s)
      <4>1. /\ [l EXCEPT !.at = "hearing"] \in HearingTask /\ [l EXCEPT !.at = "hearing"].upto = l.upto
        BY <2>2 DEF HearingTask
      <4>2. Goes(f, [l EXCEPT !.at = "hearing"])
        BY <2>1, <2>2, <3>6, <4>1 DEF Listen!Hear, Listen!At
      <4> QED
        BY <4>2
    <3>7. CASE Listen!Heard(s)
      <4>1. PICK matched \in BOOLEAN, onTime \in BOOLEAN :
               LET upto == l.upto + 1
                   done == Listen!IsLast(s, upto) \/ (matched /\ onTime)
               IN /\ file' = [file EXCEPT ![s] = [kind |-> "lines", lines |-> l.lines,
                                slips |-> IF matched THEN l.lines ELSE 0, done |-> done]]
                  /\ listens' = [listens EXCEPT ![s] =
                       IF done THEN Listen!Quiet ELSE [at |-> "cutting", lines |-> @.lines, upto |-> upto]]
        BY <3>7 DEF Listen!Heard, Listen!Saved
      <4> DEFINE upto == l.upto + 1
                 done == Listen!IsLast(s, upto) \/ (matched /\ onTime)
                 h == [kind |-> "lines", lines |-> l.lines, slips |-> IF matched THEN l.lines ELSE 0,
                       done |-> done]
                 k == IF done THEN Listen!Quiet ELSE [at |-> "cutting", lines |-> l.lines, upto |-> upto]
      <4>2. l.upto < Pieces[s]
        BY <2>1, <3>7 DEF Listen!Heard, Listen!At
      <4>3. done \in BOOLEAN
        BY DEF Listen!IsLast
      <4>4. h \in LyricsFile
        BY <2>2, <4>3 DEF LyricsFile
      <4>5. k \in HearingTask /\ k.upto <= Pieces[s] /\ k.at \in {"none", "cutting"}
        BY <2>1, <2>2, <4>2 DEF Listen!Quiet, HearingTask
      <4>6. file' = [file EXCEPT ![s] = h] /\ listens' = [listens EXCEPT ![s] = k]
        BY <4>1
      <4> HIDE DEF h, k, done, upto
      <4> QED
        BY <4>4, <4>5, <4>6
    <3>8. CASE Listen!Expire(s)
      <4>1. [f EXCEPT !.kind = "old"] \in LyricsFile
        BY <2>2 DEF LyricsFile
      <4>2. file' = [file EXCEPT ![s] = [f EXCEPT !.kind = "old"]] /\ listens' = listens
        BY <3>8 DEF Listen!Expire
      <4>3. Goes([f EXCEPT !.kind = "old"], l)
        BY <2>1, <4>1, <4>2
      <4> QED
        BY <4>3
    <3> QED
      BY <1>3, <3>1, <3>2, <3>3, <3>4, <3>5, <3>6, <3>7, <3>8
  <2> HIDE DEF f, l
  <2> QED
    BY <2>3, <2>6, ListenTypesGoOn
<1> QED
  BY <1>1, <1>2, <1>3 DEF Listen!Next

LEMMA ListenStarts == Listen!LyricsAssumption /\ Listen!Init => ListenIInv /\ ListenTypes
<1>1. Listen!LyricsAssumption /\ Listen!Init => ListenIInv
  BY DEF Listen!LyricsAssumption, Listen!Init, Listen!NoFile, Listen!Quiet, Listen!Nobody, ListenIInv
<1> QED
  BY <1>1, ListenTypesStart

LEMMA ListenGoes ==
    ListenIInv /\ ListenTypes /\ [Listen!Next]_Listen!vars => ListenIInv' /\ ListenTypes'
<1>1. ListenIInv /\ UNCHANGED Listen!vars => ListenIInv'
  BY DEF Listen!vars, ListenIInv
<1>2. ListenIInv /\ [Listen!Next]_Listen!vars => ListenIInv'
  BY <1>1, ListenKeeps, FindKeeps, HeardKeeps, ForgetKeeps DEF Listen!Next
<1>3. ListenIInv => Listen!LyricsAssumption
  BY DEF ListenIInv
<1> QED
  BY <1>2, <1>3, ListenTypesKept

\* listen(), as_heard(): the slips of a file are of the very lines beside them, whatever
\* others wrote while it listened, and one piece is heard at a time.
THEOREM SlipsStayWithTheirLines == AllSpec => []SlipsTellTruly
<1>1. AllInit => (part = "listen" => ListenIInv /\ ListenTypes)
  BY PartsAssumption, ListenStarts DEF PartsAssumption, AllInit
<1>2. /\ (part = "listen" => ListenIInv /\ ListenTypes) /\ [AllNext]_AllVars
      => (part = "listen" => ListenIInv /\ ListenTypes)'
  <2> SUFFICES ASSUME part = "listen" => ListenIInv /\ ListenTypes, [AllNext]_AllVars, part' = "listen"
               PROVE  ListenIInv' /\ ListenTypes'
    OBVIOUS
  <2>1. part = "listen" /\ [Listen!Next]_Listen!vars
    BY DEF AllNext, AllVars, MusicVars, ListenVars, TokenVars, Listen!vars
  <2> QED
    BY <2>1, ListenGoes
<1>3. ListenIInv => Listen!SlipsAreOfTheirLines
  BY DEF ListenIInv, Listen!SlipsAreOfTheirLines, Listen!AsHeard, Listen!At
<1>4. ListenIInv /\ ListenTypes => Listen!TypeOK
  <2> SUFFICES ASSUME ListenIInv, ListenTypes, NEW s \in Songs
               PROVE  /\ file[s].kind \in {"none", "old", "miss", "plain", "lines", "torn"}
                      /\ listens[s].at \in {"none", "started", "cutting", "waiting", "hearing"}
                      /\ listens[s].upto \in 0..Pieces[s]
    BY DEF ListenTypes, Listen!TypeOK, Listen!Nobody
  <2>1. file[s] \in LyricsFile /\ listens[s] \in HearingTask /\ listens[s].upto <= Pieces[s]
    BY DEF ListenTypes
  <2>2. Pieces[s] \in Nat
    BY DEF ListenIInv, Listen!LyricsAssumption
  <2> QED
    BY <2>1, <2>2 DEF LyricsFile, HearingTask
<1>5. (part = "listen" => ListenIInv /\ ListenTypes) => SlipsTellTruly
  BY <1>3, <1>4 DEF SlipsTellTruly
<1> QED
  BY <1>1, <1>2, <1>5, PTL DEF AllSpec

-----------------------------------------------------------------------------
(* MusicTokens: for any threads, sources and times *)

Writer == [at : {"forgetting"}, source : Sources, since : Nat, dead : SUBSET DOMAIN answers]

\* A token is kept as it was answered until its time is over; only such tokens are on the
\* lists of what to forget, and a new one has a number that no list has.
TokenIInv ==
    /\ Token!MusicTokensAssumption /\ now \in Nat
    /\ \E n \in Nat : DOMAIN answers = 1..n
    /\ writers \in [Threads -> {Token!Waiting} \cup Writer]
    /\ \A t \in DOMAIN answers : answers[t].expires \in Nat
    /\ \A t \in DOMAIN tokens : t \in DOMAIN answers /\ tokens[t] = answers[t]
    /\ \A t \in DOMAIN answers \ DOMAIN tokens : answers[t].expires < now
    /\ \A w \in Threads : writers[w].at = "forgetting" =>
          \A t \in writers[w].dead : answers[t].expires < now

LEMMA ListKeeps ==
    ASSUME TokenIInv, NEW w \in Threads, NEW s \in Sources, Token!List(w, s)
    PROVE  TokenIInv'
<1> DEFINE dead == {t \in DOMAIN tokens : Token!Expired(t)}
           entry == [at |-> "forgetting", source |-> s, since |-> now, dead |-> dead]
<1>1. /\ UNCHANGED <<now, tokens, answers>>
      /\ writers' = [writers EXCEPT ![w] = entry]
  BY DEF Token!List
<1>2. \A t \in dead : t \in DOMAIN answers /\ answers[t].expires < now
  BY DEF Token!Expired, TokenIInv
<1>3. entry \in Writer
  BY <1>2 DEF Writer, TokenIInv
<1>4. entry.dead = dead
  OBVIOUS
<1> HIDE DEF entry, dead
<1>5. writers' \in [Threads -> {Token!Waiting} \cup Writer]
  BY <1>1, <1>3 DEF TokenIInv
<1>6. ASSUME NEW x \in Threads, writers'[x].at = "forgetting", NEW t \in writers'[x].dead
      PROVE  answers[t].expires < now
  BY <1>1, <1>2, <1>4, <1>6 DEF TokenIInv
<1> QED
  BY <1>1, <1>5, <1>6 DEF TokenIInv, Writer

LEMMA ForgetTokenKeeps ==
    ASSUME TokenIInv, NEW w \in Threads, Token!Forget(w)
    PROVE  TokenIInv'
<1>1. /\ writers[w].at = "forgetting" /\ UNCHANGED <<now, answers>>
      /\ writers[w] \in Writer
  BY DEF Token!Forget, Token!Waiting, TokenIInv
<1>2. PICK t \in writers[w].dead :
          IF t \in DOMAIN tokens
          THEN /\ tokens' = [u \in DOMAIN tokens \ {t} |-> tokens[u]]
               /\ writers' = [writers EXCEPT ![w].dead = @ \ {t}]
          ELSE writers' = [writers EXCEPT ![w] = Token!Waiting] /\ UNCHANGED tokens
  BY DEF Token!Forget
<1>3. answers[t].expires < now
  BY <1>1 DEF TokenIInv
<1>4. CASE t \in DOMAIN tokens
  <2>1. /\ tokens' = [u \in DOMAIN tokens \ {t} |-> tokens[u]]
        /\ writers' = [writers EXCEPT ![w].dead = @ \ {t}]
    BY <1>2, <1>4
  <2>2. /\ \A u \in DOMAIN tokens' : u \in DOMAIN tokens /\ tokens'[u] = tokens[u]
        /\ \A u \in DOMAIN tokens : u = t \/ u \in DOMAIN tokens'
    BY <2>1
  <2>3. /\ writers'[w] = [writers[w] EXCEPT !.dead = @ \ {t}]
        /\ \A x \in Threads \ {w} : writers'[x] = writers[x]
        /\ writers' = [x \in Threads |-> writers'[x]]
    BY <2>1 DEF TokenIInv
  <2>4. /\ writers'[w] \in Writer /\ writers'[w].at = "forgetting"
        /\ writers'[w].dead \subseteq writers[w].dead
    BY <1>1, <2>3 DEF Writer
  <2>5. writers' \in [Threads -> {Token!Waiting} \cup Writer]
    BY <2>3, <2>4 DEF TokenIInv
  <2>6. \A x \in Threads : writers'[x].at = "forgetting" =>
            \A u \in writers'[x].dead : answers[u].expires < now
    BY <1>1, <2>3, <2>4 DEF TokenIInv
  <2> QED
    BY <1>1, <1>3, <2>2, <2>5, <2>6 DEF TokenIInv, Writer
<1>5. CASE t \notin DOMAIN tokens
  <2>1. writers' = [writers EXCEPT ![w] = Token!Waiting] /\ UNCHANGED tokens
    BY <1>2, <1>5
  <2>2. writers' \in [Threads -> {Token!Waiting} \cup Writer]
    BY <2>1 DEF TokenIInv
  <2>3. /\ writers'[w].at = "idle"
        /\ \A x \in Threads \ {w} : writers'[x] = writers[x]
    BY <2>1 DEF Token!Waiting, TokenIInv
  <2> QED
    BY <1>1, <2>1, <2>2, <2>3 DEF TokenIInv, Writer
<1> QED
  BY <1>4, <1>5

LEMMA TokenCardinality == \A S : Token!Cardinality(S) = Cardinality(S)
BY Zenon DEF Token!Cardinality, Cardinality

\* remember() adds a token that nobody has yet, with its whole time before it.
LEMMA AddKeeps ==
    ASSUME TokenIInv, NEW w \in Threads, Token!Add(w)
    PROVE  TokenIInv'
<1>1. PICK n \in Nat : DOMAIN answers = 1..n
  BY DEF TokenIInv
<1>2. Cardinality(DOMAIN answers) = n
  <2>1. Cardinality(1..n) = IF 1 > n THEN 0 ELSE n - 1 + 1
    BY FS_Interval
  <2> QED
    BY <1>1, <2>1
<1> DEFINE new == n + 1
           entry == [source |-> writers[w].source, expires |-> writers[w].since + Lifetime]
<1>3. /\ tokens' = Token!With(tokens, new, entry) /\ answers' = Token!With(answers, new, entry)
      /\ writers' = [writers EXCEPT ![w] = Token!Waiting] /\ now' = now
  <2>1. Cardinality(Token!Made) + 1 = new
    BY <1>2 DEF Token!Made
  <2>4. Token!Cardinality(Token!Made) = Cardinality(Token!Made)
    BY TokenCardinality, Zenon
  <2>2. /\ tokens' = Token!With(tokens, Token!Cardinality(Token!Made) + 1, entry)
        /\ answers' = Token!With(answers, Token!Cardinality(Token!Made) + 1, entry)
        /\ writers' = [writers EXCEPT ![w] = Token!Waiting]
    BY Zenon DEF Token!Add
  <2>3. now' = now
    BY DEF Token!Add
  <2> HIDE DEF new, entry
  <2> QED
    BY <2>1, <2>2, <2>3, <2>4
<1>4. entry.expires \in Nat
  <2>1. writers[w].at = "forgetting" /\ Lifetime \in Nat
    BY DEF Token!Add, TokenIInv, Token!MusicTokensAssumption
  <2>2. writers[w].since \in Nat
    BY <2>1 DEF TokenIInv, Token!Waiting, Writer
  <2> QED
    BY <2>1, <2>2
<1>5. new \in Nat /\ new \notin DOMAIN answers /\ new \notin DOMAIN tokens /\ 1..new = 1..n \cup {new}
  BY <1>1 DEF TokenIInv
<1> HIDE DEF new, entry
<1>6. /\ DOMAIN answers' = 1..new
      /\ answers'[new] = entry /\ \A t \in DOMAIN answers : answers'[t] = answers[t]
  BY <1>1, <1>3, <1>5 DEF Token!With
<1>7. /\ DOMAIN tokens' = DOMAIN tokens \cup {new}
      /\ tokens'[new] = entry /\ \A t \in DOMAIN tokens : tokens'[t] = tokens[t]
  BY <1>3, <1>5 DEF Token!With
<1>8. DOMAIN answers' = DOMAIN answers \cup {new}
  BY <1>1, <1>5, <1>6
<1>9. /\ writers'[w] = Token!Waiting /\ \A x \in Threads \ {w} : writers'[x] = writers[x]
      /\ writers' = [x \in Threads |-> writers'[x]]
  BY <1>3 DEF TokenIInv
<1>10. writers' \in [Threads -> {Token!Waiting} \cup Writer']
  <2>1. Writer \subseteq Writer'
    BY <1>8 DEF Writer
  <2> QED
    BY <1>9, <2>1 DEF TokenIInv
<1>11. ASSUME NEW x \in Threads, writers'[x].at = "forgetting", NEW t \in writers'[x].dead
       PROVE  answers'[t].expires < now
  <2>1. x # w /\ writers'[x] = writers[x]
    BY <1>9, <1>11 DEF Token!Waiting
  <2>2. t \in DOMAIN answers /\ answers[t].expires < now
    BY <1>11, <2>1 DEF TokenIInv, Token!Waiting, Writer
  <2> QED
    BY <1>6, <2>2
<1>12. /\ \A t \in DOMAIN answers' : answers'[t].expires \in Nat
       /\ \A t \in DOMAIN tokens' : t \in DOMAIN answers' /\ tokens'[t] = answers'[t]
  BY <1>4, <1>6, <1>7, <1>8 DEF TokenIInv
<1>13. \A t \in DOMAIN answers' \ DOMAIN tokens' : answers'[t].expires < now
  BY <1>6, <1>7, <1>8 DEF TokenIInv
<1>14. \E m \in Nat : DOMAIN answers' = 1..m
  BY <1>5, <1>6
<1>15. Token!Waiting' = Token!Waiting /\ Token!MusicTokensAssumption'
  BY DEF Token!Waiting, TokenIInv, Token!MusicTokensAssumption
<1>16. now' = now /\ now \in Nat
  BY <1>3 DEF TokenIInv
<1> QED
  BY <1>10, <1>11, <1>12, <1>13, <1>14, <1>15, <1>16 DEF TokenIInv

\* A failed listing, the clock, and what the page does with a token.
LEMMA OtherTokenStepsKeep ==
    ASSUME TokenIInv,
           \/ UNCHANGED <<now, tokens, writers, answers>>
           \/ Token!Tick
           \/ \E w \in Threads : Token!ListFails(w)
    PROVE  TokenIInv'
<1>1. CASE UNCHANGED <<now, tokens, writers, answers>>
  BY <1>1 DEF TokenIInv, Writer, Token!Waiting
<1>2. CASE Token!Tick
  <2>1. now \in Nat /\ now' = now + 1 /\ UNCHANGED <<tokens, writers, answers>>
    BY <1>2 DEF Token!Tick, TokenIInv
  <2>2. \A t \in DOMAIN answers : answers[t].expires < now => answers[t].expires < now'
    BY <2>1 DEF TokenIInv
  <2>3. \A w \in Threads : writers[w].at = "forgetting" => writers[w].dead \subseteq DOMAIN answers
    BY DEF TokenIInv, Writer, Token!Waiting
  <2> QED
    BY <2>1, <2>2, <2>3 DEF TokenIInv, Writer, Token!Waiting
<1>3. ASSUME NEW w \in Threads, Token!ListFails(w)
      PROVE  TokenIInv'
  <2>1. /\ writers' = [writers EXCEPT ![w] = Token!Waiting]
        /\ UNCHANGED <<now, tokens, answers>>
    BY <1>3 DEF Token!ListFails
  <2>2. /\ writers' \in [Threads -> {Token!Waiting} \cup Writer]
        /\ \A x \in Threads : writers'[x] = writers[x] \/ writers'[x].at = "idle"
    BY <2>1 DEF TokenIInv, Token!Waiting
  <2> QED
    BY <2>1, <2>2 DEF TokenIInv, Writer
<1> QED
  BY <1>1, <1>2, <1>3

LEMMA TokenStarts == Token!MusicTokensAssumption /\ Token!Init => TokenIInv
<1> SUFFICES ASSUME Token!MusicTokensAssumption, Token!Init PROVE TokenIInv
  OBVIOUS
<1>1. DOMAIN answers = {} /\ DOMAIN tokens = {} /\ DOMAIN answers = 1..0
  BY DEF Token!Init
<1> QED
  BY <1>1 DEF Token!Init, Token!Waiting, TokenIInv

LEMMA TokenGoes == TokenIInv /\ [Token!Next]_Token!vars => TokenIInv'
<1> SUFFICES ASSUME TokenIInv, [Token!Next]_Token!vars PROVE TokenIInv'
  OBVIOUS
<1>1. CASE UNCHANGED Token!vars
  BY <1>1, OtherTokenStepsKeep DEF Token!vars
<1>2. ASSUME NEW t \in DOMAIN tokens,
             Token!Warm(t) \/ Token!Stream(t) \/ Token!Prefetch(t) \/ Token!Levels(t)
      PROVE  TokenIInv'
  BY <1>2, OtherTokenStepsKeep
     DEF Token!Warm, Token!Stream, Token!Prefetch, Token!Levels, Token!Fetched, Token!Writing
<1>3. ASSUME NEW s \in Sources, Token!LookedUp(s) \/ Token!Prune(s) \/ Token!Computed(s)
      PROVE  TokenIInv'
  BY <1>3, OtherTokenStepsKeep DEF Token!LookedUp, Token!Prune, Token!Computed, Token!Writing
<1> QED
  BY <1>1, <1>2, <1>3, ListKeeps, ForgetTokenKeeps, AddKeeps, OtherTokenStepsKeep DEF Token!Next

\* The clock, the tokens ever made, and what they are of.
TokenTypes ==
    /\ now \in 0..MaxNow
    /\ DOMAIN answers \subseteq 1..MaxTokens /\ \A t \in DOMAIN answers : answers[t].source \in Sources
    /\ cached \cup levels \cup tasks \subseteq Sources

LEMMA TokenTypesKept ==
    TokenIInv /\ TokenTypes /\ [Token!Next]_Token!vars => TokenTypes'
<1> SUFFICES ASSUME TokenIInv, TokenTypes, [Token!Next]_Token!vars PROVE TokenTypes'
  OBVIOUS
<1> DEFINE Answered == DOMAIN answers \subseteq 1..MaxTokens /\ \A t \in DOMAIN answers : answers[t].source \in Sources
           Played == cached \cup levels \cup tasks \subseteq Sources
<1>1. MaxNow \in Nat /\ MaxTokens \in Nat
  BY DEF TokenIInv, Token!MusicTokensAssumption
<1>2. \A t \in DOMAIN tokens : tokens[t].source \in Sources
  BY DEF TokenIInv, TokenTypes
<1>3. CASE UNCHANGED Token!vars
  BY <1>3 DEF Token!vars, TokenTypes
<1>4. CASE Token!Tick
  <2>1. now' \in 0..MaxNow
    BY <1>1, <1>4 DEF Token!Tick, TokenTypes
  <2> QED
    BY <1>4, <2>1 DEF Token!Tick, Token!Music, TokenTypes
<1>5. ASSUME NEW w \in Threads,
             Token!Forget(w) \/ Token!ListFails(w) \/ \E s \in Sources : Token!List(w, s)
      PROVE  TokenTypes'
  BY <1>5 DEF Token!Forget, Token!ListFails, Token!List, Token!Music, TokenTypes
<1>6. ASSUME NEW w \in Threads, Token!Add(w)
      PROVE  TokenTypes'
  <2>1. PICK n \in Nat : DOMAIN answers = 1..n
    BY DEF TokenIInv
  <2>2. Token!Cardinality(Token!Made) = n
    <3>1. Cardinality(1..n) = IF 1 > n THEN 0 ELSE n - 1 + 1
      BY FS_Interval
    <3>2. Token!Cardinality(Token!Made) = Cardinality(1..n)
      BY <2>1, TokenCardinality, Zenon DEF Token!Made
    <3> QED
      BY <3>1, <3>2
  <2> DEFINE count == Token!Cardinality(Token!Made)
             entry == [source |-> writers[w].source, expires |-> writers[w].since + Lifetime]
  <2>3. count < MaxTokens /\ answers' = Token!With(answers, count + 1, entry)
    BY <1>6, Zenon DEF Token!Add
  <2>4. count = n
    BY <2>2
  <2>5. writers[w].source \in Sources
    BY <1>6 DEF Token!Add, Token!Waiting, TokenIInv, Writer
  <2>6. entry.source \in Sources
    BY <2>5
  <2> HIDE DEF count, entry
  <2>7. Answered'
    BY <1>1, <2>1, <2>3, <2>4, <2>6 DEF Token!With, TokenTypes
  <2>8. UNCHANGED <<now, cached, levels, tasks>>
    BY <1>6 DEF Token!Add, Token!Music
  <2> QED
    BY <2>7, <2>8 DEF TokenTypes
<1>7. ASSUME NEW t \in DOMAIN tokens,
             Token!Warm(t) \/ Token!Stream(t) \/ Token!Prefetch(t) \/ Token!Levels(t)
      PROVE  TokenTypes'
  <2>1. UNCHANGED <<now, answers>>
    BY <1>7 DEF Token!Warm, Token!Stream, Token!Prefetch, Token!Levels, Token!Fetched, Token!Writing
  <2>2. Played'
    BY <1>2, <1>7 DEF Token!Warm, Token!Stream, Token!Prefetch, Token!Levels, Token!Fetched, TokenTypes
  <2> QED
    BY <2>1, <2>2 DEF TokenTypes
<1>8. ASSUME NEW s \in Sources, Token!LookedUp(s) \/ Token!Prune(s) \/ Token!Computed(s)
      PROVE  TokenTypes'
  BY <1>8 DEF Token!LookedUp, Token!Prune, Token!Computed, Token!Writing, TokenTypes
<1> QED
  BY <1>3, <1>4, <1>5, <1>6, <1>7, <1>8 DEF Token!Next

\* TokenIInv and the types hold always.
THEOREM TokenInvariance == AllSpec => [](part = "token" => TokenIInv /\ TokenTypes)
<1>1. AllInit => (part = "token" => TokenIInv /\ TokenTypes)
  <2>1. Token!MusicTokensAssumption /\ Token!Init => TokenTypes
    BY DEF Token!MusicTokensAssumption, Token!Init, TokenTypes
  <2> QED
    BY <2>1, PartsAssumption, TokenStarts DEF PartsAssumption, AllInit
<1>2. /\ (part = "token" => TokenIInv /\ TokenTypes) /\ [AllNext]_AllVars
      => (part = "token" => TokenIInv /\ TokenTypes)'
  <2> SUFFICES ASSUME part = "token" => TokenIInv /\ TokenTypes, [AllNext]_AllVars, part' = "token"
               PROVE  TokenIInv' /\ TokenTypes'
    OBVIOUS
  <2>1. part = "token" /\ [Token!Next]_Token!vars
    BY DEF AllNext, AllVars, MusicVars, ListenVars, TokenVars, Token!vars
  <2> QED
    BY <2>1, TokenGoes, TokenTypesKept
<1> QED
  BY <1>1, <1>2, PTL DEF AllSpec

\* remember(), /stream: an item that a page has plays until its time is over and no longer,
\* and is what it was answered as.
THEOREM ItemsPlay == AllSpec => []ItemsPlayTheirTime
<1>1. TokenIInv => Token!ItemsPlayTheirTime
  <2> SUFFICES ASSUME TokenIInv, NEW t \in DOMAIN answers
               PROVE  /\ Token!Playable(t) <=> now <= answers[t].expires
                      /\ Token!Playable(t) => tokens[t].source = answers[t].source
    BY DEF Token!ItemsPlayTheirTime, Token!Made
  <2> QED
    BY DEF TokenIInv, Token!Playable, Token!Expired
<1>2. TokenIInv /\ TokenTypes => Token!TypeOK
  BY DEF TokenIInv, TokenTypes, Token!TypeOK, Token!Made
<1>3. (part = "token" => TokenIInv /\ TokenTypes) => ItemsPlayTheirTime
  BY <1>1, <1>2 DEF ItemsPlayTheirTime
<1> QED
  BY <1>3, TokenInvariance, PTL

-----------------------------------------------------------------------------
(* SongSearch *)

\* The constants of the searches are numbers.
LEMMA SearchNumbers ==
    /\ Shortest \in Nat /\ Longest \in Nat /\ MixLength \in Nat
    /\ MaxStations \in Nat /\ MaxEpisodes \in Nat /\ MaxHits \in Nat /\ Episodes \subseteq Nat
    /\ \A v \in Videos : v.length \in Nat
BY PartsAssumption DEF PartsAssumption, Search!SongSearchAssumption

\* The module's selection and least element are those of the library.
LEMMA SearchSelected == \A s, T : Search!Selected(s, T) = Selected(s, T)
BY Zenon DEF Search!Selected, Selected

LEMMA SearchCardinality == \A S : Search!Cardinality(S) = Cardinality(S)
BY Zenon DEF Search!Cardinality, Cardinality

LEMMA SearchMin ==
    ASSUME NEW S \in SUBSET Nat, S # {}
    PROVE  Search!Min(S) \in S
<1>1. \E x \in S : \A y \in S : x <= y
  BY NaturalsHaveALeast
<1> QED
  BY <1>1, Zenon DEF Search!Min

\* A selection of a list is a list of the same things.
LEMMA SelectionIsAList ==
    ASSUME NEW A, NEW s \in Seq(A), NEW T
    PROVE  Search!Selected(s, T) \in Seq(A)
BY SearchSelected, SelectedSelects

\* A first part of a list.
LEMMA FirstPart ==
    ASSUME NEW A, NEW s \in Seq(A), NEW n \in Nat, NEW r, r = Search!First(s, n)
    PROVE  /\ Len(r) \in Nat /\ Len(r) <= Len(s) /\ DOMAIN r = 1..Len(r)
           /\ \A k \in 1..Len(r) : r[k] = s[k]
<1> DEFINE m == IF Len(s) < n THEN Len(s) ELSE n
<1>1. Len(s) \in Nat /\ m \in Nat /\ m <= Len(s)
  OBVIOUS
<1>2. r = SubSeq(s, 1, m)
  BY DEF Search!First
<1> HIDE DEF m
<1>3. Len(r) = m /\ DOMAIN r = 1..m
  BY <1>1, <1>2
<1>4. \A k \in 1..m : r[k] = s[k]
  BY <1>1, <1>2
<1> QED
  BY <1>1, <1>3, <1>4

\* The one that is played first, of any hits.
LEMMA FirstIsChosen ==
    ASSUME NEW hits, NEW all \in Seq(Videos)
    PROVE  /\ all # <<>> => \E x : Search!FirstSong(hits, all) = {x}
           /\ (\E i \in DOMAIN all : Search!IsSong(all[i])) =>
                 \E i \in Search!FirstSong(hits, all) : Search!IsSong(all[i])
<1> DEFINE songs == {i \in DOMAIN all : Search!IsSong(all[i])}
           brief == {i \in DOMAIN all : all[i].length <= 20}
           shortest == CHOOSE i \in brief : \A j \in brief :
                          all[i].length < all[j].length
                          \/ (all[i].length = all[j].length /\ Search!Earlier(i, j, Len(hits)))
<1>1. Search!FirstSong(hits, all) =
          IF songs # {} THEN {Search!Min(songs)}
          ELSE IF brief # {} THEN Search!ShortestOf(all, brief, Len(hits))
          ELSE IF all = <<>> THEN {} ELSE {1}
  BY Zenon DEF Search!FirstSong
<1>0. brief # {} => Search!ShortestOf(all, brief, Len(hits)) = {shortest}
  BY Zenon DEF Search!ShortestOf
<1>2. songs # {} => Search!Min(songs) \in songs
  <2>1. songs \in SUBSET Nat
    OBVIOUS
  <2> HIDE DEF songs
  <2> QED
    BY <2>1, SearchMin
<1>3. all # <<>> => \E x : Search!FirstSong(hits, all) = {x}
  <2> HIDE DEF songs, brief, shortest
  <2> QED
    BY <1>0, <1>1
<1>5. songs # {} => Search!FirstSong(hits, all) = {Search!Min(songs)}
  <2> HIDE DEF songs, brief
  <2> QED
    BY <1>1
<1>4. ASSUME songs # {}
      PROVE  \E i \in Search!FirstSong(hits, all) : Search!IsSong(all[i])
  BY <1>2, <1>4, <1>5
<1> QED
  BY <1>3, <1>4

\* What yt_search() answers.
SongsFirst(a) ==
    /\ (\E v \in Search!Range(Search!Usable(search.hits)) \cup Search!Range(Search!Usable(search.more)) :
           Search!IsSong(v)) => \E i \in a.first : Search!IsSong(a.all[i])
    /\ \A i \in a.rest : Search!IsSong(a.all[i]) /\ i \notin a.first
    /\ a.all # <<>> => Cardinality(a.first) = 1

LEMMA MusicIsRight ==
    ASSUME search.hits \in Seq(Videos), search.more \in Seq(Videos), ~search.long
    PROVE  SongsFirst(Search!Music)
<1>1. PICK hits, more : hits = Search!Usable(search.hits) /\ more = Search!Usable(search.more)
  OBVIOUS
<1>2. hits \in Seq(Videos) /\ more \in Seq(Videos)
  BY <1>1, SelectionIsAList DEF Search!Usable
<1>3. PICK all : all = IF \E i \in DOMAIN hits : Search!IsSong(hits[i]) THEN hits ELSE hits \o more
  OBVIOUS
<1>4. PICK a : a = Search!Music
  OBVIOUS
<1>5. /\ a.all = all /\ a.first = Search!FirstSong(hits, all)
      /\ a.rest = {i \in DOMAIN all \ a.first : Search!IsSong(all[i])}
  BY <1>1, <1>3, <1>4 DEF Search!Music
<1>6. all \in Seq(Videos)
  BY <1>2, <1>3
<1>7. ASSUME NEW v \in Search!Range(hits) \cup Search!Range(more), Search!IsSong(v)
      PROVE  \E i \in DOMAIN all : Search!IsSong(all[i])
  <2>1. CASE \E i \in DOMAIN hits : Search!IsSong(hits[i])
    BY <2>1, <1>3
  <2>2. CASE ~\E i \in DOMAIN hits : Search!IsSong(hits[i])
    <3>1. PICK j \in DOMAIN more : more[j] = v
      BY <1>7, <2>2 DEF Search!Range
    <3>2. all = hits \o more
      BY <1>3, <2>2
    <3>3. Len(hits) + j \in DOMAIN all /\ all[Len(hits) + j] = more[j]
      BY <1>2, <3>1, <3>2
    <3> QED
      BY <1>7, <3>1, <3>3
  <2> QED
    BY <2>1, <2>2
<1>8. all # <<>> => Cardinality(a.first) = 1
  <2> SUFFICES ASSUME all # <<>> PROVE Cardinality(a.first) = 1
    OBVIOUS
  <2>1. PICK x : Search!FirstSong(hits, all) = {x}
    BY <1>6, FirstIsChosen
  <2> QED
    BY <2>1, <1>5, FS_Singleton
<1>9. (\E i \in DOMAIN all : Search!IsSong(all[i])) => \E i \in a.first : Search!IsSong(all[i])
  BY <1>5, <1>6, FirstIsChosen
<1> QED
  BY <1>1, <1>4, <1>5, <1>7, <1>8, <1>9 DEF SongsFirst

\* radio_search(): what is listed once has different names.
LEMMA OnceIsOnce ==
    ASSUME NEW A, NEW found \in Seq(A), NEW r, r = Search!Once(found)
    PROVE  /\ r \in Seq(A)
           /\ \A i, j \in DOMAIN r : i # j => r[i].name # r[j].name
<1> DEFINE n == Len(found)
           first == {i \in DOMAIN found : \A j \in 1..i - 1 : found[j].name # found[i].name}
           ids == [i \in DOMAIN found |-> i]
<1>1. n \in Nat /\ DOMAIN found = 1..n
  OBVIOUS
<1>2. ids \in Seq(1..n) /\ Len(ids) = n /\ \A i \in 1..n : ids[i] = i
  <2>1. ids \in [1..n -> 1..n]
    BY <1>1
  <2>2. \A i \in 1..n : ids[i] = i
    BY <1>1
  <2> HIDE DEF ids
  <2> QED
    BY <1>1, <2>1, <2>2
<1>3. PICK places : places = Selected(ids, first)
  OBVIOUS
<1>4. r = [k \in DOMAIN places |-> found[places[k]]]
  BY <1>3, SearchSelected DEF Search!Once
<1> HIDE DEF n, ids
<1>5. places \in Seq(1..n) /\ \E g : Selects(ids, first, n, places, g)
  <2> HIDE DEF first
  <2> QED
    BY <1>2, <1>3, SelectedSelects
<1>6. PICK g : Selects(ids, first, n, places, g)
  BY <1>5
<1>7. /\ \A k \in DOMAIN places : places[k] \in first /\ places[k] = g[k] /\ places[k] \in 1..n
      /\ \A j, k \in DOMAIN places : j < k => g[j] < g[k]
      /\ DOMAIN places = 1..Len(places) /\ Len(places) \in Nat
  <2> HIDE DEF first
  <2>1. DOMAIN places = 1..Len(places) /\ Len(places) \in Nat
    BY <1>5
  <2> QED
    BY <2>1, <1>2, <1>6 DEF Selects
<1>8. r \in Seq(A)
  <2>1. \A k \in DOMAIN places : found[places[k]] \in A
    BY <1>1, <1>7
  <2> QED
    BY <1>4, <1>7, <2>1
<1>9. DOMAIN r = DOMAIN places /\ \A k \in DOMAIN places : r[k] = found[places[k]]
  BY <1>4
<1>10. ASSUME NEW j \in DOMAIN places, NEW k \in DOMAIN places, j < k
       PROVE  r[j].name # r[k].name
  <2>1. places[j] \in 1..places[k] - 1
    BY <1>1, <1>7, <1>10
  <2>2. found[places[j]].name # found[places[k]].name
    BY <2>1, <1>7
  <2> QED
    BY <2>2, <1>9
<1> QED
  BY <1>7, <1>8, <1>9, <1>10

LEMMA RadioIsRight ==
    ASSUME search.byName \in Seq(Stations), search.byTag \in Seq(Stations)
    PROVE  \A i, j \in DOMAIN Search!Radio.items :
              i # j => Search!Radio.items[i].name # Search!Radio.items[j].name
<1> DEFINE named == Search!Selected(search.byName, {r \in Stations : r.playable})
           tagged == Search!Selected(search.byTag, {r \in Stations : r.playable})
<1>1. PICK found : found = IF named # <<>> THEN named ELSE tagged
  OBVIOUS
<1>2. found \in Seq(Stations)
  BY <1>1, SelectionIsAList
<1>3. PICK once : once = Search!Once(found)
  OBVIOUS
<1>4. PICK items : items = Search!Radio.items
  OBVIOUS
<1>5. items = Search!First(once, MaxStations)
  BY <1>1, <1>3, <1>4 DEF Search!Radio
<1>6. once \in Seq(Stations) /\ \A i, j \in DOMAIN once : i # j => once[i].name # once[j].name
  BY <1>2, <1>3, OnceIsOnce
<1>7. /\ Len(items) \in Nat /\ Len(items) <= Len(once) /\ DOMAIN items = 1..Len(items)
      /\ \A k \in 1..Len(items) : items[k] = once[k]
  BY <1>5, <1>6, FirstPart, SearchNumbers
<1> QED
  BY <1>4, <1>6, <1>7

\* A list of numbers has a largest one.
LEMMA ListsHaveAMost ==
    ASSUME NEW A \in SUBSET Nat, NEW s \in Seq(A), s # <<>>
    PROVE  \E i \in DOMAIN s : \A j \in DOMAIN s : s[i] >= s[j]
<1> DEFINE S == {n \in Nat : n \in 1..Len(s) => \E i \in 1..n : \A j \in 1..n : s[i] >= s[j]}
<1>1. Len(s) \in Nat \ {0} /\ DOMAIN s = 1..Len(s) /\ \A i \in 1..Len(s) : s[i] \in Nat
  <2>1. Len(s) \in Nat \ {0} /\ DOMAIN s = 1..Len(s)
    OBVIOUS
  <2>2. \A i \in 1..Len(s) : s[i] \in A
    BY <2>1
  <2> QED
    BY <2>1, <2>2
<1>2. 0 \in S
  OBVIOUS
<1>3. ASSUME NEW n \in Nat, n \in S
      PROVE  n + 1 \in S
  <2> SUFFICES ASSUME n + 1 \in 1..Len(s)
               PROVE  \E i \in 1..n + 1 : \A j \in 1..n + 1 : s[i] >= s[j]
    OBVIOUS
  <2>1. CASE n = 0
    BY <2>1, <1>1
  <2>2. CASE n # 0
    <3>1. PICK i \in 1..n : \A j \in 1..n : s[i] >= s[j]
      BY <2>2, <1>1, <1>3
    <3>2. CASE s[i] >= s[n + 1]
      <4>1. i \in 1..n + 1 /\ \A j \in 1..n + 1 : s[i] >= s[j]
        BY <3>1, <3>2, <1>1
      <4> QED
        BY <4>1
    <3>3. CASE s[n + 1] >= s[i]
      <4>1. \A j \in 1..n + 1 : s[n + 1] >= s[j]
        BY <3>1, <3>3, <1>1
      <4> QED
        BY <4>1
    <3> QED
      BY <3>2, <3>3, <1>1
  <2> QED
    BY <2>1, <2>2
<1>4. Len(s) \in S
  <2> HIDE DEF S
  <2> QED
    BY <1>1, <1>2, <1>3, FromZeroOn
<1>5. \E i \in 1..Len(s) : \A j \in 1..Len(s) : s[i] >= s[j]
  <2>1. Len(s) \in 1..Len(s)
    BY <1>1
  <2> QED
    BY <2>1, <1>4
<1> QED
  BY <1>1, <1>5

LEMMA PodcastIsRight ==
    ASSUME search.episodes \in Seq(Episodes), search.asked, Search!Podcast.items # <<>>
    PROVE  \A j \in DOMAIN search.episodes :
              search.episodes[j] <= Head(Search!Podcast.items) \/ search.episodes[j] = 0
<1>1. PICK eps : eps = search.episodes
  OBVIOUS
<1> DEFINE best == {i \in DOMAIN eps : \A j \in DOMAIN eps : eps[i] >= eps[j]}
<1>2. PICK least : least = Search!Min(best)
  OBVIOUS
<1>3. PICK from : from = IF best # {} /\ eps[least] > 0 THEN least ELSE 1
  OBVIOUS
<1>4. PICK items : items = Search!Podcast.items
  OBVIOUS
<1>5. PICK tail : tail = SubSeq(eps, from, Len(eps))
  OBVIOUS
<1>6. items = Search!First(tail, MaxEpisodes)
  BY <1>1, <1>2, <1>3, <1>4, <1>5 DEF Search!Podcast
<1>7. Episodes \in SUBSET Nat /\ eps \in Seq(Episodes) /\ DOMAIN eps = 1..Len(eps) /\ Len(eps) \in Nat
  BY <1>1, SearchNumbers
<1>8. SUFFICES ASSUME NEW j \in DOMAIN eps
               PROVE  eps[j] <= Head(items) \/ eps[j] = 0
  BY <1>1, <1>4
<1>9. best # {} /\ least \in best
  <2>1. best \in SUBSET Nat
    BY <1>7
  <2>2. best # {}
    <3>1. eps # <<>>
      BY <1>7, <1>8
    <3>2. \E i \in DOMAIN eps : \A k \in DOMAIN eps : eps[i] >= eps[k]
      BY <1>7, <3>1, ListsHaveAMost
    <3> QED
      BY <3>2
  <2> HIDE DEF best
  <2> QED
    BY <1>2, <2>1, <2>2, SearchMin
<1>10. least \in 1..Len(eps) /\ \A k \in DOMAIN eps : eps[least] >= eps[k] /\ eps[k] \in Nat
  <2>1. \A k \in DOMAIN eps : eps[k] \in Episodes
    BY <1>7
  <2> QED
    BY <2>1, <1>7, <1>9
<1>11. CASE eps[least] > 0
  <2>1. from = least
    BY <1>3, <1>9, <1>11
  <2>2. tail \in Seq(Episodes) /\ Len(tail) >= 1 /\ tail[1] = eps[least]
    BY <1>5, <1>7, <1>10, <2>1
  <2>3. Len(items) \in Nat /\ DOMAIN items = 1..Len(items) /\ \A k \in 1..Len(items) : items[k] = tail[k]
    BY <1>6, <2>2, FirstPart, SearchNumbers
  <2>4. items \in Seq(Episodes) /\ items # <<>>
    <3>1. \A k \in 1..Len(items) : tail[k] \in Episodes
      BY <1>6, <2>2, <2>3, FirstPart, SearchNumbers
    <3>2. items = SubSeq(tail, 1, IF Len(tail) < MaxEpisodes THEN Len(tail) ELSE MaxEpisodes)
      BY <1>6 DEF Search!First
    <3> QED
      BY <1>4, <2>2, <3>2, SearchNumbers
  <2>5. Head(items) = eps[least]
    BY <2>2, <2>3, <2>4
  <2> QED
    BY <2>5, <1>10
<1>12. CASE ~(eps[least] > 0)
  BY <1>8, <1>10, <1>12
<1> QED
  BY <1>11, <1>12

-----------------------------------------------------------------------------
\* A search is of one of the four kinds, with lists of what may be found.
Asked ==
    \/ /\ search.kind = "music" /\ search.hits \in Seq(Videos) /\ search.more \in Seq(Videos)
    \/ search.kind = "mix"
    \/ search.kind = "radio" /\ search.byName \in Seq(Stations) /\ search.byTag \in Seq(Stations)
    \/ search.kind = "podcast" /\ search.episodes \in Seq(Episodes)

\* What is answered is of the kind that was asked for.
Answered == answer.kind \in {"none", search.kind} /\ Search!SearchKeepsItsWord

LEMMA UptoIsLists ==
    ASSUME NEW S
    PROVE  Search!Upto(S) \subseteq Seq(S)
<1> SUFFICES ASSUME NEW n \in 0..MaxHits, NEW s \in [1..n -> S]
             PROVE  s \in Seq(S)
  BY DEF Search!Upto
<1> QED
  BY SearchNumbers

LEMMA SearchStarts ==
    ASSUME Search!Init
    PROVE  Asked /\ Answered
<1>1. Asked
  BY UptoIsLists DEF Search!Init, Asked
<1>2. answer.kind = "none"
  BY DEF Search!Init, Search!NoAnswer
<1> QED
  BY <1>1, <1>2 DEF Answered, Search!SearchKeepsItsWord

LEMMA SearchGoes ==
    ASSUME Asked, Answered, [Search!Next]_Search!vars
    PROVE  Asked' /\ Answered'
<1>1. CASE UNCHANGED Search!vars
  <2>1. search' = search /\ answer' = answer
    BY <1>1 DEF Search!vars
  <2>2. Asked'
    BY <2>1 DEF Asked
  <2>3. Answered'
    BY <2>1, Zenon DEF Answered, Search!SearchKeepsItsWord
  <2> QED
    BY <2>2, <2>3
<1>2. CASE Search!Answer
  <2>1. search' = search /\ answer' = CASE search.kind = "music" -> Search!Music
            [] search.kind = "radio" -> Search!Radio [] OTHER -> Search!Podcast
    BY <1>2 DEF Search!Answer
  <2>2. Asked'
    BY <2>1 DEF Asked
  <2>3. Search!Music.kind = "music" /\ Search!Radio.kind = "radio" /\ Search!Podcast.kind = "podcast"
    BY Zenon DEF Search!Music, Search!Radio, Search!Podcast
  <2>4. search.kind \in {"music", "radio", "podcast"}
    BY <1>2 DEF Search!Answer, Asked
  <2>5. CASE search.kind = "music"
    <3>1. search.hits \in Seq(Videos) /\ search.more \in Seq(Videos) /\ answer' = Search!Music
      BY <2>1, <2>5 DEF Asked
    <3>2. ~search.long => SongsFirst(answer)'
      <4> SUFFICES ASSUME ~search.long PROVE SongsFirst(answer)'
        OBVIOUS
      <4>1. SongsFirst(Search!Music)
        BY <3>1, MusicIsRight
      <4>2. (SongsFirst(answer))' = SongsFirst(Search!Music)
        BY <2>1, <3>1, Zenon DEF SongsFirst
      <4> QED
        BY <4>1, <4>2
    <3>3. answer'.kind = "music" /\ search'.long = search.long
      BY <2>1, <2>3, <3>1
    <3> QED
      BY <2>1, <2>2, <2>5, <3>2, <3>3, SearchCardinality, Zenon DEF Answered, SongsFirst, Search!SearchKeepsItsWord
  <2>6. CASE search.kind = "radio"
    <3>1. \A i, j \in DOMAIN answer'.items : i # j => answer'.items[i].name # answer'.items[j].name
      BY <2>1, <2>6, RadioIsRight DEF Asked
    <3>2. answer'.kind = "radio" /\ search'.kind = "radio"
      BY <2>1, <2>3, <2>6
    <3> QED
      BY <2>2, <3>1, <3>2 DEF Answered, Search!SearchKeepsItsWord
  <2>7. CASE search.kind = "podcast"
    <3>1. search.asked /\ answer'.items # <<>> =>
             \A j \in DOMAIN search.episodes :
                 search.episodes[j] <= Head(answer'.items) \/ search.episodes[j] = 0
      BY <2>1, <2>7, PodcastIsRight DEF Asked
    <3>2. answer'.kind = "podcast" /\ search'.kind = "podcast"
      BY <2>1, <2>3, <2>7
    <3> QED
      BY <2>1, <2>2, <3>1, <3>2 DEF Answered, Search!SearchKeepsItsWord
  <2> QED
    BY <2>4, <2>5, <2>6, <2>7
<1>3. CASE Search!More
  <2>1. search' = search /\ answer'.kind = "mix" /\ search.kind = "mix"
    BY <1>3 DEF Search!More, Search!Mix
  <2>2. Asked'
    BY <2>1 DEF Asked
  <2>3. Answered'
    BY <2>1 DEF Answered, Search!SearchKeepsItsWord
  <2> QED
    BY <2>2, <2>3
<1> QED
  BY <1>1, <1>2, <1>3 DEF Search!Next

\* Of every search: what was asked is known and what is answered is right.
THEOREM SearchInvariance == AllSpec => [](part = "search" => Asked /\ Answered)
<1>1. AllInit => (part = "search" => Asked /\ Answered)
  BY SearchStarts DEF AllInit
<1>2. (part = "search" => Asked /\ Answered) /\ [AllNext]_AllVars => (part = "search" => Asked /\ Answered)'
  <2> SUFFICES ASSUME part = "search" => Asked /\ Answered, [AllNext]_AllVars, part' = "search"
               PROVE  Asked' /\ Answered'
    OBVIOUS
  <2>1. part = "search" /\ [Search!Next]_Search!vars
    BY DEF AllNext, AllVars, MusicVars, Search!vars
  <2> QED
    BY <2>1, SearchGoes
<1> QED
  BY <1>1, <1>2, PTL DEF AllSpec

\* yt_search(), radio_search(), podcast_search(): a song is first if one was found and
\* nothing but songs follows, no station is listed twice, and an episode that was asked
\* for is the first.
THEOREM SearchesAreRight == AllSpec => []SearchKeepsItsWord
<1>1. (part = "search" => Asked /\ Answered) => SearchKeepsItsWord
  BY Zenon DEF Answered, SearchKeepsItsWord
<1> QED
  BY <1>1, SearchInvariance, PTL

\* What the music service hears and finds belongs to what it was asked about.
THEOREM MusicIsTrue == AllSpec => []MusicKeepsItsWord
BY SlipsStayWithTheirLines, ItemsPlay, SearchesAreRight, PTL DEF MusicKeepsItsWord
===============================================================================
