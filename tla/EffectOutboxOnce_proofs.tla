----------------------- MODULE EffectOutboxOnce_proofs -----------------------
(***************************************************************************)
(* Proofs about EffectOutbox, continued: a message is typed at most once,  *)
(* a key is given back untyped, final answers agree; and so the outbox     *)
(* implements OnceOnly.                                                    *)
(***************************************************************************)
EXTENDS EffectOutboxRefines, EffectOutbox_proofs

-----------------------------------------------------------------------------
(* Who works on which row.                                                 *)

(* The rows a goroutine has still to run, and the one it holds. *)
InPlay(u) == thread[u].todo \cup ({thread[u].cur} \ {0})

IsMessage(i) == outbox[i].receipt # None

(* A message that waits for u, as its snapshot of the table said; a request *)
(* has but the one it recorded.                                            *)
Waits(u, i) ==
  /\ outbox[i].state = "pending" \/ (outbox[i].state = "started" /\ i \in thread[u].begun)
  /\ u \in Caller => /\ outbox[i].state = "pending"
                     /\ thread[u].pc = "next" /\ thread[u].todo = {i}

(* How far the message that u holds is. *)
Has(u) ==
  LET i == thread[u].cur IN
  /\ thread[u].pc = "holds" => outbox[i].state = "pending"
  /\ thread[u].pc = "started" => outbox[i].state = "started" /\ typed[i] = 0
  /\ thread[u].pc = "ended" =>
       /\ outbox[i].state = "started"
       /\ thread[u].res = "refused" => typed[i] = 0
       /\ thread[u].res = "typed" => typed[i] = 1

Works(u) ==
  /\ thread[u].pc \in {"idle", "reserved", "refusing", "orphaned"} => InPlay(u) = {}
  /\ thread[u].pc = "next" => thread[u].cur = 0
  /\ u \in Handle /\ thread[u].pc # "idle" => At(u) = u
  /\ thread[u].cur \notin thread[u].todo
  /\ thread[u].cur # 0 => thread[u].cur \in held[At(u)]
  /\ \A i \in InPlay(u) : outbox[i].owner = At(u)
  /\ \A i \in thread[u].todo : IsMessage(i) => Waits(u, i)
  /\ thread[u].cur # 0 /\ IsMessage(thread[u].cur) => Has(u)

(* No row is held twice, and no message is even waited for twice. *)
Apart ==
  \A u, v \in Thread, i \in RowId :
    /\ thread[u].cur = i /\ thread[v].cur = i => u = v
    /\ IsMessage(i) /\ i \in InPlay(u) /\ i \in InPlay(v) => u = v

RowFits(i) ==
  /\ i > lastId => typed[i] = 0
  /\ IsMessage(i) => outbox[i].kind = Message /\ typed[i] <= 1
  /\ IsMessage(i) /\ outbox[i].state = "pending" => typed[i] = 0

Play ==
  /\ \A u \in Thread : Works(u)
  /\ Apart
  /\ \A i \in RowId : RowFits(i)

(* Constants apart. *)
LEMMA Consts ==
  /\ MaxRows \in Nat /\ Handle \cap Caller = {}
  /\ None \notin Handle /\ None \notin Key /\ None \notin Digest
  /\ Message \in Kind /\ Message \notin Idempotent
BY OutboxAssumption DEF OutboxAssumption

LEMMA RowRange == ASSUME TypeOK PROVE lastId \in Nat /\ 1 .. lastId \subseteq RowId /\ 0 \notin RowId
BY Consts DEF TypeOK, RowId

(* A row somebody has in play was recorded. *)
LEMMA PlayedRows ==
  ASSUME TypeOK, ThreadsRefer, NEW u \in Thread, Works(u)
  PROVE  InPlay(u) \subseteq 1 .. lastId /\ InPlay(u) \subseteq RowId
<1>1. thread[u] \in Goroutine /\ Refers(u)
  BY DEF TypeOK, ThreadsRefer
<1>2. thread[u].cur # 0 => thread[u].pc \in {"holds", "started", "ended", "releasing"}
  BY <1>1 DEF Works, InPlay, Goroutine
<1>3. InPlay(u) \subseteq 1 .. lastId
  BY <1>1, <1>2 DEF Refers, InPlay
<1> QED
  BY <1>3, RowRange

(* A goroutine that kept its record goes on if its rows stayed its own. *)
LEMMA WorksKept ==
  ASSUME NEW u \in Thread, Works(u), thread'[u] = thread[u],
         \A i \in InPlay(u) :
           /\ outbox'[i].owner = outbox[i].owner /\ outbox'[i].receipt = outbox[i].receipt
           /\ IsMessage(i) => outbox'[i].state = outbox[i].state /\ typed'[i] = typed[i],
         thread[u].cur # 0 => thread[u].cur \in held'[At(u)]
  PROVE  Works(u)'
<1>1. InPlay(u)' = InPlay(u) /\ At(u)' = At(u)
  BY DEF InPlay, At
<1>2. \A i \in InPlay(u) : IsMessage(i)' <=> IsMessage(i)
  BY DEF IsMessage
<1>3. \A i \in thread[u].todo : i \in InPlay(u)
  BY DEF InPlay
<1>4. \A i \in thread[u].todo : IsMessage(i) => Waits(u, i)'
  BY <1>3 DEF Works, Waits
<1>5. thread[u].cur # 0 => thread[u].cur \in InPlay(u)
  BY DEF InPlay
<1>6. thread[u].cur # 0 /\ IsMessage(thread[u].cur) => Has(u)'
  BY <1>5 DEF Works, Has
<1> QED
  BY <1>1, <1>2, <1>3, <1>4, <1>5, <1>6 DEF Works

Rests(u) ==
  /\ thread[u].pc \in {"idle", "reserved", "refusing", "orphaned"}
  /\ thread[u].todo = {} /\ thread[u].cur = 0
  /\ u \in Handle => thread[u].pc = "idle"

LEMMA RestsWork == ASSUME NEW u, Rests(u)' PROVE Works(u)' /\ InPlay(u)' = {}
BY DEF Rests, Works, InPlay

(* Goroutine t makes a step: the others go on, and share nothing with it.  *)
LEMMA PlayStep ==
  ASSUME TypeOK, ThreadsRefer, Play, RowsKept, NEW t \in Thread,
         \A u \in Thread \ {t} : thread'[u] = thread[u],
         Works(t)',
         \A u \in Thread \ {t}, i \in RowId : i \in InPlay(u) =>
           /\ outbox'[i].owner = outbox[i].owner
           /\ IsMessage(i) => /\ outbox'[i].state = outbox[i].state /\ typed'[i] = typed[i]
                              /\ i \notin InPlay(t)'
           /\ thread[u].cur = i => i \in held'[At(u)] /\ thread'[t].cur # i,
         \A i \in RowId : RowFits(i)'
  PROVE  Play'
<1>1. \A u \in Thread : Works(u) /\ InPlay(u) \subseteq 1 .. lastId /\ InPlay(u) \subseteq RowId
  BY PlayedRows DEF Play
<1>2. \A i \in 1 .. lastId : outbox'[i].receipt = outbox[i].receipt /\ (IsMessage(i)' <=> IsMessage(i))
  BY DEF RowsKept, IsMessage
<1>3. \A u \in Thread \ {t} : thread[u].cur # 0 => thread[u].cur \in InPlay(u)
  BY DEF InPlay
<1>4. ASSUME NEW u \in Thread \ {t} PROVE Works(u)'
  BY <1>1, <1>2, <1>3, WorksKept
<1>5. \A u \in Thread \ {t} : InPlay(u)' = InPlay(u)
  BY DEF InPlay
<1>6. Apart'
  <2> SUFFICES ASSUME NEW u \in Thread, NEW v \in Thread, NEW i \in RowId, u # v
               PROVE  /\ ~(thread'[u].cur = i /\ thread'[v].cur = i)
                      /\ ~(IsMessage(i)' /\ i \in InPlay(u)' /\ i \in InPlay(v)')
    BY DEF Apart
  <2>1. CASE u # t /\ v # t
    <3>1. ~(thread'[u].cur = i /\ thread'[v].cur = i)
      BY <2>1 DEF Play, Apart
    <3>2. ASSUME IsMessage(i)', i \in InPlay(u)', i \in InPlay(v)' PROVE FALSE
      BY <1>1, <1>2, <1>5, <2>1, <3>2 DEF Play, Apart
    <3> QED
      BY <3>1, <3>2
  <2>2. ASSUME NEW w \in Thread \ {t} 
        PROVE  /\ ~(thread'[w].cur = i /\ thread'[t].cur = i)
               /\ ~(IsMessage(i)' /\ i \in InPlay(w)' /\ i \in InPlay(t)')
    <3>1. thread[w].cur = i => i \in InPlay(w)
      BY RowRange DEF InPlay
    <3>2. i \in InPlay(w) => (IsMessage(i)' <=> IsMessage(i))
      BY <1>1, <1>2
    <3> QED
      BY <1>5, <2>2, <3>1, <3>2
  <2> QED
    BY <2>1, <2>2
<1> QED
  BY <1>4, <1>6 DEF Play

(* Goroutines come to rest, or nothing about them changes. *)
LEMMA PlayQuiet ==
  ASSUME TypeOK, ThreadsRefer, Play, UNCHANGED <<outbox, typed, lastId>>,
         \A u \in Thread :
           \/ Rests(u)'
           \/ thread'[u] = thread[u] /\ (thread[u].cur # 0 => thread[u].cur \in held'[At(u)])
  PROVE  Play'
<1>1. \A u \in Thread : Works(u)'
  BY RestsWork, WorksKept DEF Play
<1>2. \A u \in Thread : InPlay(u)' \subseteq InPlay(u)
  BY RestsWork DEF InPlay
<1>3. \A u \in Thread : thread'[u].cur \in {0, thread[u].cur}
  BY DEF Rests
<1>4. Apart'
  BY <1>2, <1>3, RowRange DEF Play, Apart, IsMessage
<1>5. \A i \in RowId : RowFits(i)'
  BY DEF Play, RowFits, IsMessage
<1> QED
  BY <1>1, <1>4, <1>5 DEF Play

(* Goroutine t runs row i, or the store stays as it is.                    *)
LEMMA PlayRun ==
  ASSUME TypeOK, ThreadsRefer, Play, RowsKept, NEW t \in Thread, NEW i \in RowId,
         i \in InPlay(t) \/ UNCHANGED <<outbox, typed>>, lastId' = lastId,
         \A j \in RowId \ {i} : outbox'[j] = outbox[j] /\ typed'[j] = typed[j],
         outbox'[i].owner = outbox[i].owner,
         \A u \in Thread \ {t} : thread'[u] = thread[u],
         \A h \in Handle : \A j \in RowId : j \in held[h] /\ j \notin held'[h] => h = At(t) /\ j = thread[t].cur,
         InPlay(t)' \subseteq InPlay(t),
         thread'[t].cur \in {0, thread[t].cur} \/ thread'[t].cur \notin held[At(t)],
         Works(t)', RowFits(i)', ThreadsLive
  PROVE  Play'
<1>1. \A u \in Thread : Works(u) /\ InPlay(u) \subseteq RowId
  BY PlayedRows DEF Play
<1>2. \A j \in RowId : RowFits(j)'
  BY DEF Play, RowFits, IsMessage
<1>3. ASSUME NEW u \in Thread \ {t}, NEW j \in RowId, j \in InPlay(u)
      PROVE  /\ outbox'[j].owner = outbox[j].owner
             /\ IsMessage(j) => /\ outbox'[j].state = outbox[j].state /\ typed'[j] = typed[j]
                                /\ j \notin InPlay(t)'
             /\ thread[u].cur = j => j \in held'[At(u)] /\ thread'[t].cur # j
  <2>1. outbox'[j].owner = outbox[j].owner
    OBVIOUS
  <2>2. ASSUME IsMessage(j)
        PROVE  outbox'[j].state = outbox[j].state /\ typed'[j] = typed[j] /\ j \notin InPlay(t)'
    BY <1>3, <2>2 DEF Play, Apart
  <2>3. ASSUME thread[u].cur = j PROVE j \in held'[At(u)] /\ thread'[t].cur # j
    <3>1. thread[t].cur # j
      BY <2>3 DEF Play, Apart
    <3>2. j \in held[At(u)] /\ outbox[j].owner = At(u) /\ thread[u].pc # "idle"
      BY <1>1, <1>3, <2>3, RowRange DEF Works
    <3>3. At(u) \in Handle
      BY <3>2 DEF ThreadsLive
    <3>4. j \in held'[At(u)]
      BY <3>1, <3>2, <3>3
    <3>5. thread'[t].cur # j
      <4>1. SUFFICES ASSUME thread'[t].cur = j PROVE FALSE
        OBVIOUS
      <4>2. j \in InPlay(t)' /\ j # 0
        BY <4>1, RowRange DEF InPlay
      <4>3. outbox[j].owner = At(t)
        BY <1>1, <4>2 DEF Works
      <4> QED
        BY <3>1, <3>2, <4>1, <4>2, <4>3
    <3> QED
      BY <3>4, <3>5
  <2> QED
    BY <2>1, <2>2, <2>3
<1> QED
  BY <1>2, <1>3, PlayStep

(* What is left in hand when a row is dropped, or let go of, or kept.      *)
LEMMA DropWorks ==
  ASSUME TypeOK, ThreadsRefer, Play, RowsKept, NEW t \in Thread, NEW i \in RowId,
         TurnsTo(t, i), Drop(t, i), held' = held,
         \A j \in RowId \ {i} : outbox'[j] = outbox[j]
  PROVE  /\ Works(t)' /\ InPlay(t)' \subseteq InPlay(t) /\ thread'[t].cur = 0
         /\ i \in InPlay(t)
         /\ \A u \in Thread \ {t} : thread'[u] = thread[u]
<1>1. Works(t) /\ InPlay(t) \subseteq RowId /\ thread[t] \in Goroutine
  BY PlayedRows DEF Play, TypeOK
<1>2. thread[t].pc = "next" /\ i \in thread[t].todo /\ thread[t].cur = 0
  BY <1>1 DEF TurnsTo, IsFirst, Works
<1>3. thread' = [thread EXCEPT ![t] = [thread[t] EXCEPT !.todo = @ \ {i}]]
  BY DEF Drop
<1>4. /\ thread'[t].pc = "next" /\ thread'[t].cur = 0 /\ thread'[t].todo = thread[t].todo \ {i}
      /\ thread'[t].at = thread[t].at /\ thread'[t].begun = thread[t].begun
      /\ \A u \in Thread \ {t} : thread'[u] = thread[u]
  BY <1>1, <1>2, <1>3 DEF TypeOK, Goroutine
<1>5. InPlay(t)' = thread[t].todo \ {i} /\ InPlay(t) = thread[t].todo
  BY <1>2, <1>4 DEF InPlay
<1>6. \A j \in thread[t].todo \ {i} : j \in RowId /\ outbox'[j] = outbox[j]
  BY <1>1, <1>5
<1>7. \A j \in thread[t].todo \ {i} : IsMessage(j)' => Waits(t, j)'
  BY <1>1, <1>2, <1>4, <1>6 DEF Works, Waits, IsMessage
<1>8. \A j \in thread[t].todo \ {i} : outbox'[j].owner = thread'[t].at
  BY <1>1, <1>4, <1>5, <1>6 DEF Works, At
<1> QED
  BY <1>1, <1>2, <1>4, <1>5, <1>7, <1>8 DEF Works, At

LEMMA UnholdWorks ==
  ASSUME TypeOK, ThreadsRefer, Play, RowsKept, NEW t \in Thread, ThreadsLive,
         thread[t].pc \in {"holds", "started", "ended", "releasing"}, Unhold(t),
         \A j \in RowId \ {thread[t].cur} : outbox'[j] = outbox[j]
  PROVE  /\ Works(t)' /\ InPlay(t)' \subseteq InPlay(t) /\ thread'[t].cur = 0
         /\ \A u \in Thread \ {t} : thread'[u] = thread[u]
         /\ \A h \in Handle : \A j \in RowId :
              j \in held[h] /\ j \notin held'[h] => h = At(t) /\ j = thread[t].cur
<1>1. Works(t) /\ InPlay(t) \subseteq RowId /\ thread[t] \in Goroutine
  BY PlayedRows DEF Play, TypeOK
<1>2. thread' = [thread EXCEPT ![t] = [thread[t] EXCEPT !.pc = "next", !.cur = 0, !.res = "none"]]
  BY DEF Unhold
<1>3. /\ thread'[t].pc = "next" /\ thread'[t].cur = 0 /\ thread'[t].todo = thread[t].todo
      /\ thread'[t].at = thread[t].at /\ thread'[t].begun = thread[t].begun
      /\ \A u \in Thread \ {t} : thread'[u] = thread[u]
  BY <1>1, <1>2 DEF TypeOK, Goroutine
<1>4. InPlay(t)' = thread[t].todo /\ thread[t].todo \subseteq InPlay(t)
  BY <1>3 DEF InPlay
<1>5. \A j \in thread[t].todo : j \in RowId /\ outbox'[j] = outbox[j]
  BY <1>1, <1>4 DEF Works
<1>6. \A j \in thread[t].todo : IsMessage(j)' => Waits(t, j)'
  BY <1>1, <1>3, <1>5 DEF Works, Waits, IsMessage
<1>7. \A j \in thread[t].todo : outbox'[j].owner = thread'[t].at
  BY <1>1, <1>3, <1>4, <1>5 DEF Works, At
<1>8. \A h \in Handle : \A j \in RowId :
        j \in held[h] /\ j \notin held'[h] => h = At(t) /\ j = thread[t].cur
  BY DEF Unhold, TypeOK
<1>9. 0 \notin thread[t].todo
  BY <1>1, <1>4, RowRange
<1> QED
  BY <1>1, <1>3, <1>4, <1>6, <1>7, <1>8, <1>9 DEF Works, At

GoesOn(t) ==
  /\ thread'[t].pc \in {"started", "ended", "releasing"}
  /\ thread'[t].cur = thread[t].cur /\ thread'[t].todo = thread[t].todo
  /\ thread'[t].at = thread[t].at /\ thread'[t].begun = thread[t].begun
  /\ \A u \in Thread \ {t} : thread'[u] = thread[u]

LEMMA StaysWorks ==
  ASSUME TypeOK, ThreadsRefer, Play, RowsKept, NEW t \in Thread,
         thread[t].pc \in {"holds", "started", "ended"}, GoesOn(t), held' = held,
         outbox'[thread[t].cur].owner = outbox[thread[t].cur].owner,
         \A j \in RowId \ {thread[t].cur} : outbox'[j] = outbox[j],
         IsMessage(thread[t].cur) => Has(t)'
  PROVE  /\ Works(t)' /\ InPlay(t)' \subseteq InPlay(t) /\ thread'[t].cur = thread[t].cur
         /\ thread[t].cur \in InPlay(t) /\ thread[t].cur \in RowId
         /\ \A u \in Thread \ {t} : thread'[u] = thread[u]
<1>1. Works(t) /\ InPlay(t) \subseteq RowId /\ thread[t] \in Goroutine /\ InPlay(t) \subseteq 1 .. lastId
  BY PlayedRows DEF Play, TypeOK
<1>2. thread[t].cur \in InPlay(t) /\ thread[t].cur \in RowId /\ thread[t].cur # 0
  BY <1>1, RowRange DEF ThreadsRefer, Refers, InPlay
<1>3. /\ thread'[t].pc \in {"started", "ended", "releasing"}
      /\ thread'[t].cur = thread[t].cur /\ thread'[t].todo = thread[t].todo
      /\ thread'[t].at = thread[t].at /\ thread'[t].begun = thread[t].begun
      /\ \A u \in Thread \ {t} : thread'[u] = thread[u]
  BY DEF GoesOn
<1>4. InPlay(t)' = InPlay(t) /\ thread[t].todo \subseteq InPlay(t)
  BY <1>3 DEF InPlay
<1>5. \A j \in InPlay(t) : outbox'[j].owner = outbox[j].owner
  BY <1>1
<1>6. \A j \in thread[t].todo : j \in RowId /\ outbox'[j] = outbox[j]
  BY <1>1, <1>4 DEF Works
<1>7. \A j \in thread[t].todo : IsMessage(j)' => Waits(t, j)'
  BY <1>1, <1>3, <1>6 DEF Works, Waits, IsMessage
<1>8. IsMessage(thread[t].cur)' <=> IsMessage(thread[t].cur)
  BY <1>1, <1>2, <1>3 DEF RowsKept, IsMessage
<1> QED
  BY <1>1, <1>2, <1>3, <1>4, <1>5, <1>7, <1>8 DEF Works, At

(* A row that was closed, or not touched, is as well off as before. *)
LEMMA ClosedFits ==
  ASSUME TypeOK, Play, RowsKept, NEW i \in RowId, lastId' = lastId, typed' = typed,
         outbox' = outbox \/ \E s : outbox' = [outbox EXCEPT ![i].state = s] /\ s # "pending"
  PROVE  /\ RowFits(i)' /\ outbox'[i].owner = outbox[i].owner
         /\ \A j \in RowId \ {i} : outbox'[j] = outbox[j]
<1>1. outbox[i] \in Row /\ RowFits(i)
  BY DEF TypeOK, Play
<1>2. CASE outbox' = outbox
  BY <1>1, <1>2 DEF RowFits, IsMessage
<1>3. ASSUME NEW s, s # "pending", outbox' = [outbox EXCEPT ![i].state = s]
      PROVE  /\ RowFits(i)' /\ outbox'[i].owner = outbox[i].owner
             /\ \A j \in RowId \ {i} : outbox'[j] = outbox[j]
  <2>1. outbox'[i] = [outbox[i] EXCEPT !.state = s]
    BY <1>3 DEF TypeOK
  <2>2. /\ outbox'[i].state = s /\ outbox'[i].owner = outbox[i].owner
        /\ outbox'[i].receipt = outbox[i].receipt /\ outbox'[i].kind = outbox[i].kind
    BY <1>1, <2>1 DEF Row
  <2>3. \A j \in RowId \ {i} : outbox'[j] = outbox[j]
    BY <1>3 DEF TypeOK
  <2> QED
    BY <1>1, <1>3, <2>2, <2>3 DEF RowFits, IsMessage
<1> QED
  BY <1>2, <1>3

LEMMA PlayRuns ==
  ASSUME TypeOK, ThreadsLive, ThreadsRefer, Play, RowsKept, NEW t \in Thread, Run(t)
  PROVE  Play'
<1> PICK i : i = thread[t].cur
  OBVIOUS
<1>0. Works(t) /\ thread[t] \in Goroutine /\ InPlay(t) \subseteq RowId /\ Refers(t)
  BY PlayedRows DEF Play, TypeOK, ThreadsRefer
<1>w. \A u \in Thread : thread[u].cur # 0 => thread[u].cur \in held[At(u)]
  BY DEF Play, Works
<1>1. CASE Return(t)
  <2>1. Rests(t)'
    BY <1>1 DEF Return, Leave, Rests, TypeOK, Idle
  <2>2. \A u \in Thread \ {t} : thread'[u] = thread[u]
    BY <1>1 DEF Return, Leave, TypeOK
  <2> QED
    BY <1>1, <1>w, <2>1, <2>2, PlayQuiet DEF Return
<1>2. ASSUME NEW j \in RowId, SettleUnknown(t, j) PROVE Play'
  <2>1. TurnsTo(t, j) /\ Drop(t, j) /\ UNCHANGED <<held, typed, lastId>>
    BY <1>2 DEF SettleUnknown
  <2>2. outbox' = outbox \/ \E s : outbox' = [outbox EXCEPT ![j].state = s] /\ s # "pending"
    BY <1>2 DEF SettleUnknown, FinishEffect
  <2>3. /\ RowFits(j)' /\ outbox'[j].owner = outbox[j].owner
        /\ \A l \in RowId \ {j} : outbox'[l] = outbox[l]
    BY <2>1, <2>2, ClosedFits
  <2>4. /\ Works(t)' /\ InPlay(t)' \subseteq InPlay(t) /\ thread'[t].cur = 0 /\ j \in InPlay(t)
        /\ \A u \in Thread \ {t} : thread'[u] = thread[u]
    BY <2>1, <2>3, DropWorks
  <2> QED
    BY <2>1, <2>3, <2>4, PlayRun
<1>3. ASSUME NEW j \in RowId, HoldRefused(t, j) PROVE Play'
  <2>1. TurnsTo(t, j) /\ Drop(t, j) /\ UNCHANGED <<held, typed, lastId, outbox>>
    BY <1>3 DEF HoldRefused
  <2>2. RowFits(j)'
    BY <2>1, ClosedFits
  <2>3. /\ Works(t)' /\ InPlay(t)' \subseteq InPlay(t) /\ thread'[t].cur = 0 /\ j \in InPlay(t)
        /\ \A u \in Thread \ {t} : thread'[u] = thread[u]
    BY <2>1, DropWorks
  <2> QED
    BY <2>1, <2>2, <2>3, PlayRun
<1>4. ASSUME NEW j \in RowId, Hold(t, j) PROVE Play'
  <2>1. /\ thread[t].pc = "next" /\ thread[t].cur = 0 /\ j \in thread[t].todo /\ j # 0
        /\ j \notin held[At(t)] /\ ~MustNotRepeat(t, j) /\ At(t) \in Handle
        /\ UNCHANGED <<outbox, typed, lastId>>
    BY <1>0, <1>4, RowRange DEF Hold, TurnsTo, IsFirst, Works, ThreadsLive
  <2>2. thread' = [thread EXCEPT ![t] = [thread[t] EXCEPT !.pc = "holds", !.cur = j, !.todo = @ \ {j}]]
    BY <1>4 DEF Hold
  <2>3. /\ thread'[t].pc = "holds" /\ thread'[t].cur = j /\ thread'[t].todo = thread[t].todo \ {j}
        /\ thread'[t].at = thread[t].at /\ thread'[t].begun = thread[t].begun
        /\ \A u \in Thread \ {t} : thread'[u] = thread[u]
    BY <1>0, <2>2 DEF TypeOK, Goroutine
  <2>4. held' = [held EXCEPT ![At(t)] = @ \cup {j}]
    BY <1>4 DEF Hold
  <2>5. j \in held'[At(t)] /\ \A h \in Handle : held[h] \subseteq held'[h]
    BY <2>1, <2>4 DEF TypeOK
  <2>6. InPlay(t)' = thread[t].todo /\ InPlay(t) = thread[t].todo
    BY <2>1, <2>3 DEF InPlay
  <2>7. IsMessage(j) => outbox[j].state = "pending"
    BY <1>0, <2>1, Consts DEF Works, Waits, MustNotRepeat, Play, RowFits
  <2>8. \A l \in thread[t].todo \ {j} : IsMessage(l) => Waits(t, l)'
    BY <1>0, <2>1, <2>3 DEF Works, Waits
  <2>9. Works(t)'
    <3>1. IsMessage(j) => Has(t)'
      BY <2>1, <2>3, <2>7 DEF Has
    <3>2. \A l \in thread[t].todo : outbox'[l].owner = thread'[t].at
      BY <1>0, <2>1, <2>3, <2>6 DEF Works, At
    <3>3. t \in Handle => thread'[t].at = t
      BY <1>0, <2>1, <2>3 DEF Works, At
    <3> QED
      BY <2>1, <2>3, <2>5, <2>6, <2>8, <3>1, <3>2, <3>3 DEF Works, At, IsMessage
  <2>10. RowFits(j)'
    BY <2>1, ClosedFits
  <2> QED
    BY <2>1, <2>3, <2>5, <2>6, <2>9, <2>10, PlayRun
<1>5. CASE StartFails(t) \/ FinishFails(t) \/ ReleaseAfter(t)
  <2>1. /\ thread[t].pc \in {"holds", "ended", "releasing"} /\ Unhold(t)
        /\ UNCHANGED <<outbox, typed, lastId>>
    BY <1>5 DEF StartFails, FinishFails, ReleaseAfter
  <2>2. i \in RowId
    BY <1>0, <2>1, RowRange DEF Refers
  <2>3. RowFits(i)'
    BY <2>1, <2>2, ClosedFits
  <2> QED
    BY <2>1, <2>2, <2>3, UnholdWorks, PlayRun
<1>6. CASE StartEffect(t)
  <2>1. /\ thread[t].pc = "holds" /\ outbox' = [outbox EXCEPT ![i].state = "started"]
        /\ UNCHANGED <<held, typed, lastId>>
        /\ thread' = [thread EXCEPT ![t] = [thread[t] EXCEPT !.pc = "started"]]
    BY <1>6 DEF StartEffect, Goto
  <2>2. i \in RowId /\ i # 0 /\ outbox[i] \in Row
    BY <1>0, <2>1, RowRange DEF Refers, TypeOK
  <2>s. \E st : outbox' = [outbox EXCEPT ![i].state = st] /\ st # "pending"
    <3> DEFINE st == "started"
    <3>1. outbox' = [outbox EXCEPT ![i].state = st] /\ st # "pending"
      BY <2>1
    <3> HIDE DEF st
    <3> QED
      BY <3>1
  <2>3. RowFits(i)' /\ outbox'[i].owner = outbox[i].owner /\ \A j \in RowId \ {i} : outbox'[j] = outbox[j]
    BY <2>1, <2>2, <2>s, ClosedFits
  <2>4. GoesOn(t) /\ thread'[t].pc = "started"
    BY <1>0, <2>1 DEF GoesOn, TypeOK, Goroutine
  <2>5. IsMessage(i) => typed[i] = 0
    BY <1>0, <2>1, <2>2 DEF Works, Has, Play, RowFits
  <2>6. thread'[t].pc = "started" /\ thread'[t].cur = i /\ outbox'[i].state = "started"
    BY <2>1, <2>2, <2>4 DEF GoesOn, Row, TypeOK
  <2>7. IsMessage(i) => Has(t)'
    BY <2>1, <2>5, <2>6 DEF Has
  <2>9. /\ Works(t)' /\ InPlay(t)' \subseteq InPlay(t) /\ thread'[t].cur = i /\ i \in InPlay(t)
        /\ \A u \in Thread \ {t} : thread'[u] = thread[u]
    BY <2>1, <2>3, <2>4, <2>7, StaysWorks
  <2> QED
    BY <2>1, <2>2, <2>3, <2>9, PlayRun
<1>7. CASE Attempt(t)
  <2>1. thread[t].pc = "started" /\ UNCHANGED <<held, outbox, lastId>>
    BY <1>7 DEF Attempt
  <2>2. i \in RowId /\ i \in 1 .. lastId /\ i # 0
    BY <1>0, <2>1, RowRange DEF Refers
  <2>3. IsMessage(i) => outbox[i].kind \notin Idempotent /\ outbox[i].state = "started" /\ typed[i] = 0
    BY <1>0, <2>1, <2>2, Consts DEF Works, Has, Play, RowFits
  <2>4. PICK res \in {"typed", "refused", "error"} :
          /\ Took(t, res)
          /\ \/ typed' = typed /\ (res = "typed" => outbox[i].kind \in Idempotent)
             \/ typed' = [typed EXCEPT ![i] = @ + 1] /\ res # "refused"
    BY <1>7 DEF Attempt, Cur
  <2>5. thread' = [thread EXCEPT ![t] = [thread[t] EXCEPT !.pc = "ended", !.res = res]]
    BY <2>4 DEF Took
  <2>6. GoesOn(t) /\ thread'[t].pc = "ended" /\ thread'[t].res = res /\ thread'[t].cur = i
    BY <1>0, <2>5 DEF GoesOn, TypeOK, Goroutine
  <2>7. \A j \in RowId \ {i} : typed'[j] = typed[j]
    BY <2>4 DEF TypeOK
  <2>8. IsMessage(i) => typed'[i] \in {0, 1} /\ (res = "refused" => typed'[i] = 0) /\ (res = "typed" => typed'[i] = 1)
    BY <2>2, <2>3, <2>4 DEF TypeOK
  <2>9. IsMessage(i) => Has(t)'
    BY <2>1, <2>3, <2>6, <2>8 DEF Has
  <2>10. RowFits(i)'
    BY <2>1, <2>2, <2>3, <2>8, RowRange DEF Play, RowFits, IsMessage
  <2>11. /\ Works(t)' /\ InPlay(t)' \subseteq InPlay(t) /\ thread'[t].cur = i /\ i \in InPlay(t)
         /\ \A u \in Thread \ {t} : thread'[u] = thread[u]
    BY <2>1, <2>6, <2>9, StaysWorks
  <2> QED
    BY <2>1, <2>2, <2>7, <2>10, <2>11, PlayRun
<1>8. CASE Finish(t)
  <2>1. /\ thread[t].pc = "ended" /\ UNCHANGED <<typed, lastId>>
        /\ outbox' = [outbox EXCEPT ![i].state = EndState(thread[t].res)]
        /\ EndState(thread[t].res) # "pending"
    BY <1>8 DEF Finish, FinishEffect, EndState
  <2>2. i \in RowId /\ i # 0
    BY <1>0, <2>1, RowRange DEF Refers
  <2>3. RowFits(i)' /\ outbox'[i].owner = outbox[i].owner /\ \A j \in RowId \ {i} : outbox'[j] = outbox[j]
    BY <2>1, <2>2, ClosedFits
  <2>4. i \in InPlay(t)
    BY <2>2 DEF InPlay
  <2>5. CASE Unhold(t)
    <3> QED
      BY <2>1, <2>2, <2>3, <2>4, <2>5, UnholdWorks, PlayRun
  <2>6. CASE Goto(t, "releasing") /\ held' = held
    <3>1. GoesOn(t) /\ thread'[t].pc = "releasing"
      BY <1>0, <2>6 DEF Goto, GoesOn, TypeOK, Goroutine
    <3>4. Has(t)'
      BY <3>1 DEF Has
    <3>6. /\ Works(t)' /\ InPlay(t)' \subseteq InPlay(t) /\ thread'[t].cur = i
          /\ \A u \in Thread \ {t} : thread'[u] = thread[u]
      BY <2>1, <2>3, <2>6, <3>1, <3>4, StaysWorks
    <3> QED
      BY <2>1, <2>2, <2>3, <2>4, <2>6, <3>6, PlayRun
  <2> QED
    BY <1>8, <2>5, <2>6 DEF Finish
<1> QED
  BY <1>1, <1>2, <1>3, <1>4, <1>5, <1>6, <1>7, <1>8 DEF Run

(* New rows are in play with the caller that recorded them, and nobody else. *)
LEMMA PlayRecorded ==
  ASSUME TypeOK, ThreadsRefer, FreshRows, Play, RowsKept, NEW c \in Caller, NEW h, NEW ids \in SUBSET RowId,
         \A j \in ids : j > lastId,
         thread'[c].pc = "next", thread'[c].cur = 0, thread'[c].todo = ids, thread'[c].at = h,
         \A u \in Thread \ {c} : thread'[u] = thread[u],
         held' = held, typed' = typed,
         \A j \in RowId \ ids : outbox'[j] = outbox[j],
         \A j \in ids : /\ outbox'[j].owner = h /\ outbox'[j].state = "pending"
                        /\ outbox'[j].receipt # None => outbox'[j].kind = Message /\ ids = {j}
  PROVE  Play'
<1>0. c \in Thread /\ c \notin Handle
  BY Consts DEF Thread
<1>1. InPlay(c)' = ids
  BY RowRange DEF InPlay
<1>2. Works(c)'
  <2>1. \A j \in ids : IsMessage(j)' => Waits(c, j)'
    BY DEF IsMessage, Waits
  <2> QED
    BY <1>0, <1>1, <2>1, RowRange DEF Works, At
<1>3. ASSUME NEW j \in RowId PROVE RowFits(j)'
  <2>1. lastId' >= lastId /\ lastId' \in Nat
    BY RowRange, Consts DEF RowsKept
  <2>2. CASE j \in ids
    <3>1. typed'[j] = 0
      BY <2>2 DEF Play, RowFits
    <3> QED
      BY <2>2, <3>1 DEF RowFits, IsMessage
  <2>3. CASE j \notin ids
    BY <2>1, <2>3, RowRange DEF Play, RowFits, IsMessage, RowId
  <2> QED
    BY <2>2, <2>3
<1>4. ASSUME NEW u \in Thread \ {c}, NEW j \in RowId, j \in InPlay(u)
      PROVE  /\ outbox'[j] = outbox[j] /\ j \notin InPlay(c)'
             /\ thread[u].cur = j => j \in held'[At(u)] /\ thread'[c].cur # j
  <2>1. j \in 1 .. lastId /\ j # 0 /\ Works(u)
    BY <1>4, PlayedRows, RowRange DEF Play
  <2>2. j \notin ids
    BY <2>1, RowRange
  <2> QED
    BY <1>1, <2>1, <2>2 DEF Works
<1> QED
  BY <1>0, <1>2, <1>3, <1>4, PlayStep

(* The beat takes up rows that nobody has in play. *)
LEMMA PlayTaken ==
  ASSUME TypeOK, ThreadsRefer, Play, RowsKept, NEW h \in Handle, NEW S \in SUBSET RowId,
         \A i \in S : OpenRow(i) /\ outbox'[i].owner = h,
         thread' = [thread EXCEPT ![h] =
                     [Idle EXCEPT !.pc = "next", !.at = h, !.todo = S,
                                  !.begun = {i \in S : outbox[i].state = "started"}]],
         \A i \in RowId : /\ outbox'[i].state = outbox[i].state /\ outbox'[i].kind = outbox[i].kind
                          /\ outbox'[i].receipt = outbox[i].receipt,
         \A u \in Thread \ {h}, i \in RowId : i \in InPlay(u) =>
           outbox'[i].owner = outbox[i].owner /\ (IsMessage(i) => i \notin S),
         UNCHANGED <<typed, held, lastId>>
  PROVE  Play'
<1>0. h \in Thread /\ h \notin Caller
  BY Consts DEF Thread
<1>1. /\ thread'[h].pc = "next" /\ thread'[h].cur = 0 /\ thread'[h].todo = S /\ thread'[h].at = h
      /\ thread'[h].begun = {i \in S : outbox[i].state = "started"}
      /\ \A u \in Thread \ {h} : thread'[u] = thread[u]
  BY <1>0 DEF TypeOK, Idle
<1>2. InPlay(h)' = S
  BY <1>1, RowRange DEF InPlay
<1>3. \A i \in S : Waits(h, i)'
  BY <1>0, <1>1 DEF Waits, OpenRow, Open
<1>4. Works(h)'
  BY <1>0, <1>1, <1>2, <1>3, RowRange DEF Works, At
<1>5. \A i \in RowId : RowFits(i)'
  BY DEF Play, RowFits, IsMessage
<1>6. ASSUME NEW u \in Thread \ {h}, NEW i \in RowId, i \in InPlay(u), thread[u].cur = i
      PROVE  i \in held'[At(u)] /\ thread'[h].cur # i
  BY <1>1, <1>6, RowRange DEF Play, Works
<1>7. ASSUME NEW u \in Thread \ {h}, NEW i \in RowId, i \in InPlay(u)
      PROVE  /\ outbox'[i].owner = outbox[i].owner
             /\ IsMessage(i) => /\ outbox'[i].state = outbox[i].state /\ typed'[i] = typed[i]
                                /\ i \notin InPlay(h)'
             /\ thread[u].cur = i => i \in held'[At(u)] /\ thread'[h].cur # i
  BY <1>2, <1>6, <1>7
<1> QED
  BY <1>0, <1>1, <1>4, <1>5, <1>7, PlayStep

LEMMA PlayBeat ==
  ASSUME TypeOK, ThreadsLive, ThreadsRefer, Play, RowsKept, NEW h \in Handle, Beat(h)
  PROVE  Play'
<1>0. \A i \in RowId : outbox[i] \in Row
  BY DEF TypeOK
<1>1. \A u \in Thread : \A i \in InPlay(u) : outbox[i].owner = At(u) /\ At(u) \in Handle /\ life[At(u)] = "up"
  BY DEF Play, Works, ThreadsLive
<1>2. CASE AdoptEffects(h)
  <2> DEFINE S == Adoptable(h)
  <2>1. /\ \A i \in RowId : outbox'[i] = IF i \in S THEN [outbox[i] EXCEPT !.owner = h] ELSE outbox[i]
        /\ thread' = [thread EXCEPT ![h] =
                       [Idle EXCEPT !.pc = "next", !.at = h, !.todo = S,
                                    !.begun = {i \in S : outbox[i].state = "started"}]]
        /\ UNCHANGED <<typed, held, lastId>>
    BY <1>2 DEF AdoptEffects
  <2>2. S \in SUBSET RowId /\ \A i \in S : OpenRow(i) /\ life[outbox[i].owner] = "gone"
    BY DEF Adoptable, OwnerGone
  <2>3. \A u \in Thread \ {h}, i \in RowId : i \in InPlay(u) => i \notin S
    BY <1>1, <2>2
  <2> HIDE DEF S
  <2>4. \A i \in RowId : /\ outbox'[i].state = outbox[i].state /\ outbox'[i].kind = outbox[i].kind
                         /\ outbox'[i].receipt = outbox[i].receipt
                         /\ outbox'[i].owner = IF i \in S THEN h ELSE outbox[i].owner
    BY <1>0, <2>1 DEF Row
  <2> QED
    BY <2>1, <2>2, <2>3, <2>4, PlayTaken
<1>3. ASSUME NEW oldest \in RowId, ReadUnattended(h, oldest) PROVE Play'
  <2> DEFINE S == {i \in Unattended(h) : i <= oldest}
  <2>1. /\ thread' = [thread EXCEPT ![h] =
                       [Idle EXCEPT !.pc = "next", !.at = h, !.todo = S,
                                    !.begun = {i \in S : outbox[i].state = "started"}]]
        /\ UNCHANGED <<typed, held, lastId, outbox>> /\ thread[h].pc = "idle"
    BY <1>3 DEF ReadUnattended
  <2>2. /\ S \in SUBSET RowId
        /\ \A i \in S : OpenRow(i) /\ outbox[i].owner = h /\ i \notin held[h] /\ OldEnough(i)
    BY DEF Unattended
  <2> HIDE DEF S
  <2>3. ASSUME NEW u \in Thread \ {h}, NEW i \in RowId, i \in InPlay(u), IsMessage(i), i \in S
        PROVE  FALSE
    <3>1. Works(u) /\ At(u) = h /\ thread[u].pc # "idle"
      BY <1>1, <2>2, <2>3 DEF Play, Works
    <3>2. u \in Caller
      BY <3>1 DEF Works, Thread
    <3>3. thread[u].cur # i
      BY <2>2, <2>3, <3>1, RowRange DEF Works
    <3>4. i \in thread[u].todo
      BY <2>3, <3>3 DEF InPlay
    <3>5. outbox[i].state = "pending" /\ thread[u].pc = "next" /\ thread[u].todo = {i}
      BY <2>3, <3>1, <3>2, <3>4 DEF Works, Waits
    <3>6. IsFirst(i, thread[u].todo)
      BY <3>5, RowRange DEF IsFirst, RowId
    <3> QED
      BY <2>2, <2>3, <3>2, <3>5, <3>6 DEF OldEnough
  <2> QED
    BY <2>1, <2>2, <2>3, PlayTaken
<1> QED
  BY <1>2, <1>3 DEF Beat

LEMMA PlayStepped ==
  ASSUME TypeOK, ThreadsLive, ThreadsRefer, FreshRows, Play, [Next]_vars
  PROVE  Play'
<1>0. RowsKept
  BY RowsStep
<1>w. \A u \in Thread : /\ thread[u] \in Goroutine /\ Works(u)
                        /\ thread[u].cur # 0 => thread[u].cur \in held[At(u)]
  BY DEF Play, Works, TypeOK
<1>a. ASSUME UNCHANGED <<outbox, typed, lastId, held>>, \A u \in Thread : Rests(u)' \/ thread'[u] = thread[u]
      PROVE  Play'
  BY <1>a, <1>w, PlayQuiet
<1>1. ASSUME NEW c \in Caller, Claim(c) PROVE Play'
  <2>1. UNCHANGED <<outbox, typed, lastId, held>>
    BY <1>1 DEF Claim, ClaimNew, ClaimReplay, ClaimExpires, ClaimOrphaned
  <2>2. \A u \in Thread \ {c} : thread'[u] = thread[u]
    BY <1>1 DEF Claim, ClaimNew, ClaimReplay, ClaimExpires, ClaimOrphaned, TypeOK
  <2>3. Rests(c)' \/ thread'[c] = thread[c]
    <3>1. ASSUME NEW pc \in {"reserved", "orphaned"}, NEW h, NEW k, NEW d,
                 thread' = [thread EXCEPT ![c] = [Idle EXCEPT !.pc = pc, !.at = h, !.key = k, !.digest = d]]
          PROVE  Rests(c)'
      BY <3>1, Consts DEF TypeOK, Rests, Idle, Thread
    <3>2. PICK h \in Handle, k \in Key, d \in Digest :
            \/ ClaimNew(c, h, k, d) \/ ClaimReplay(c, h, k, d)
            \/ ClaimExpires(c, h, k, d) \/ ClaimOrphaned(c, h, k, d)
      BY <1>1 DEF Claim
    <3>3. CASE ClaimNew(c, h, k, d)
      BY <3>1, <3>3 DEF ClaimNew
    <3>4. CASE ClaimOrphaned(c, h, k, d)
      BY <3>1, <3>4 DEF ClaimOrphaned
    <3> QED
      BY <3>2, <3>3, <3>4 DEF ClaimReplay, ClaimExpires
  <2> QED
    BY <1>a, <2>1, <2>2, <2>3
<1>2. ASSUME NEW c \in Caller, Decide(c) PROVE Play'
  <2>c. c \in Thread /\ c \notin Handle
    BY Consts DEF Thread
  <2>1. CASE RecordMessage(c)
    <3> PICK n : n = lastId + 1
      OBVIOUS
    <3>1. /\ n \in RowId /\ n > lastId /\ thread[c].pc = "reserved"
          /\ outbox' = [outbox EXCEPT ![n] =
                         [state |-> "pending", kind |-> Message, owner |-> At(c),
                          receipt |-> thread[c].key, digest |-> thread[c].digest]]
          /\ thread' = [thread EXCEPT ![c] = [thread[c] EXCEPT !.pc = "next", !.todo = {n}]]
          /\ held' = held /\ typed' = typed
      <4>1. n <= MaxRows /\ n \in Nat /\ n > lastId /\ n >= 1
        BY <2>1, RowRange DEF RecordMessage
      <4>2. n \in RowId
        BY <4>1, Consts DEF RowId
      <4>3. /\ thread[c].pc = "reserved" /\ UNCHANGED <<held, typed>>
            /\ thread' = [thread EXCEPT ![c] = [thread[c] EXCEPT !.pc = "next", !.todo = {n}]]
        BY <2>1 DEF RecordMessage
      <4>4. outbox' = [outbox EXCEPT ![n] =
                         [state |-> "pending", kind |-> Message, owner |-> At(c),
                          receipt |-> thread[c].key, digest |-> thread[c].digest]]
        BY <2>1 DEF RecordMessage
      <4> QED
        BY <4>1, <4>2, <4>3, <4>4
    <3>2. /\ \A j \in RowId \ {n} : outbox'[j] = outbox[j]
          /\ outbox'[n].owner = At(c) /\ outbox'[n].state = "pending" /\ outbox'[n].kind = Message
      BY <3>1 DEF TypeOK
    <3>3. /\ thread'[c].pc = "next" /\ thread'[c].todo = {n} /\ thread'[c].at = At(c)
          /\ thread'[c].cur = thread[c].cur
          /\ \A u \in Thread \ {c} : thread'[u] = thread[u]
      BY <1>w, <2>c, <3>1 DEF TypeOK, Goroutine, At
    <3>4. thread[c].cur = 0
      BY <1>w, <2>c, <3>1 DEF Works, InPlay
    <3> DEFINE ids == {n}
    <3>5. ids \in SUBSET RowId /\ thread'[c].todo = ids /\ \A j \in ids : j = n
      BY <3>1, <3>3
    <3>6. \A j \in RowId \ ids : outbox'[j] = outbox[j]
      BY <3>2
    <3>7. \A j \in ids : ids = {j}
      OBVIOUS
    <3> HIDE DEF ids
    <3> QED
      BY <1>0, <3>1, <3>2, <3>3, <3>4, <3>5, <3>6, <3>7, PlayRecorded
  <2>2. CASE Refuse(c)
    <3>1. /\ thread[c].pc = "reserved" /\ UNCHANGED <<outbox, typed, lastId, held>>
          /\ thread' = [thread EXCEPT ![c] = [thread[c] EXCEPT !.pc = "refusing"]]
      BY <2>2 DEF Refuse, Goto
    <3>2. /\ thread'[c].pc = "refusing" /\ thread'[c].todo = thread[c].todo /\ thread'[c].cur = thread[c].cur
          /\ \A u \in Thread \ {c} : thread'[u] = thread[u]
      BY <1>w, <2>c, <3>1 DEF TypeOK, Goroutine
    <3>3. thread[c].todo = {} /\ thread[c].cur = 0
      BY <1>w, <2>c, <3>1 DEF Works, InPlay
    <3> QED
      BY <1>a, <2>c, <3>1, <3>2, <3>3 DEF Rests
  <2>3. CASE Leave(c) /\ UNCHANGED <<outbox, typed, lastId, held>>
    BY <1>a, <2>3, <2>c DEF Leave, TypeOK, Rests, Idle
  <2> QED
    BY <1>2, <2>1, <2>2, <2>3 DEF Decide, CompleteOrphan, CompleteOrphanFails, GiveBack, GiveBackFails
<1>3. ASSUME NEW c \in Caller, Batch(c) PROVE Play'
  <2> PICK h \in Handle, kind \in Kind, n \in BatchSizes : RecordBatch(c, h, kind, n)
    BY <1>3 DEF Batch
  <2> DEFINE ids == (lastId + 1) .. (lastId + n)
  <2>1. /\ lastId + n <= MaxRows /\ n \in Nat
        /\ outbox' = [j \in RowId |->
                       IF j \in ids
                       THEN [state |-> "pending", kind |-> kind, owner |-> h, receipt |-> None, digest |-> None]
                       ELSE outbox[j]]
        /\ thread' = [thread EXCEPT ![c] = [Idle EXCEPT !.pc = "next", !.at = h, !.todo = ids]]
        /\ held' = held /\ typed' = typed
    BY OutboxAssumption DEF OutboxAssumption, RecordBatch
  <2>2. ids \in SUBSET RowId /\ \A j \in ids : j > lastId
    BY <2>1, RowRange, Consts DEF RowId
  <2> HIDE DEF ids
  <2>3. /\ \A j \in RowId \ ids : outbox'[j] = outbox[j]
        /\ \A j \in ids : outbox'[j].owner = h /\ outbox'[j].state = "pending" /\ outbox'[j].receipt = None
    BY <2>1, <2>2
  <2>4. /\ thread'[c].pc = "next" /\ thread'[c].cur = 0 /\ thread'[c].todo = ids /\ thread'[c].at = h
        /\ \A u \in Thread \ {c} : thread'[u] = thread[u]
    BY <2>1 DEF TypeOK, Idle, Thread
  <2> QED
    BY <1>0, <2>1, <2>2, <2>3, <2>4, PlayRecorded
<1>4. ASSUME NEW t \in Thread, Run(t) PROVE Play'
  BY <1>0, <1>4, PlayRuns
<1>5. ASSUME NEW h \in Handle, Beat(h) PROVE Play'
  BY <1>0, <1>5, PlayBeat
<1>6. ASSUME NEW h \in Handle, Crash(h) PROVE Play'
  <2>1. \A u \in Thread : thread'[u] = IF thread[u].at = h THEN Idle ELSE thread[u]
    BY <1>6 DEF Crash
  <2>2. \A g \in Handle \ {h} : held'[g] = held[g]
    BY <1>6 DEF Crash, TypeOK
  <2>3. ASSUME NEW u \in Thread, thread[u].at # h, thread[u].cur # 0
        PROVE  thread[u].cur \in held'[At(u)]
    <3>1. At(u) \in Handle \ {h}
      BY <1>w, <2>3 DEF Works, InPlay, ThreadsLive, At
    <3> QED
      BY <1>w, <2>2, <2>3, <3>1
  <2>4. UNCHANGED <<outbox, typed, lastId>>
    BY <1>6 DEF Crash
  <2>5. ASSUME NEW u \in Thread, thread[u].at = h PROVE Rests(u)'
    BY <2>1, <2>5 DEF Rests, Idle
  <2> QED
    BY <2>1, <2>3, <2>4, <2>5, PlayQuiet
<1>7. ASSUME NEW h \in Handle, ExpireReceipts(h) \/ Boot(h) \/ PidFreed(h) PROVE Play'
  BY <1>7, <1>a DEF ExpireReceipts, Boot, PidFreed
<1>8. ASSUME NEW k \in Key, WindowPasses(k) PROVE Play'
  BY <1>8, <1>a DEF WindowPasses
<1>9. CASE UNCHANGED vars
  BY <1>9, <1>a DEF vars
<1> QED
  BY <1>1, <1>2, <1>3, <1>4, <1>5, <1>6, <1>7, <1>8, <1>9 DEF Next

-----------------------------------------------------------------------------
(* What was typed under a key.                                             *)

Untyped(k) == \A i \in RowsOf(k) : typed[i] = 0

MayGiveBack(u, k) == thread[u].pc \in {"reserved", "refusing", "releasing"} /\ ReservedKey(u) = k

(* Nothing was, as long as the key may still be given back or recorded; and *)
(* an effect that is owed is the first that may be.                        *)
KeyFits(k) ==
  /\ receipts[k].state = "none" => Untyped(k)
  /\ \A u \in Thread : MayGiveBack(u, k) => Untyped(k)
  /\ \A i, j \in RowsOf(k) : OpenRow(i) /\ i # j => typed[j] = 0
  /\ \A i, j \in RowsOf(k) : typed[i] > 0 /\ typed[j] > 0 => i = j

Keys == \A k \in Key : KeyFits(k)

(* Nothing is typed, no row is opened for a key, and no key is given back  *)
(* but one with nothing typed under it.                                    *)
LEMMA KeysQuiet ==
  ASSUME Keys,
         \A i \in RowId : /\ outbox'[i].receipt = outbox[i].receipt /\ typed'[i] = typed[i]
                          /\ outbox[i].receipt \in Key /\ OpenRow(i)' => OpenRow(i),
         \A k \in Key : receipts'[k].state = "none" => receipts[k].state = "none" \/ Untyped(k),
         \A u \in Thread, k \in Key : MayGiveBack(u, k)' => MayGiveBack(u, k) \/ Untyped(k)
  PROVE  Keys'
<1> SUFFICES ASSUME NEW k \in Key PROVE KeyFits(k)'
  BY DEF Keys
<1>1. KeyFits(k)
  BY DEF Keys
<1>2. RowsOf(k)' = RowsOf(k)
  BY DEF RowsOf
<1>3. Untyped(k)' <=> Untyped(k)
  BY <1>2 DEF Untyped, RowsOf
<1>4. \A i \in RowsOf(k) : typed'[i] = typed[i] /\ (OpenRow(i)' => OpenRow(i))
  BY DEF RowsOf
<1>5. (\A i, j \in RowsOf(k) : OpenRow(i) /\ i # j => typed[j] = 0)'
  BY <1>1, <1>2, <1>4 DEF KeyFits
<1>6. (\A i, j \in RowsOf(k) : typed[i] > 0 /\ typed[j] > 0 => i = j)'
  BY <1>1, <1>2, <1>4 DEF KeyFits
<1>7. receipts'[k].state = "none" => Untyped(k)
  BY <1>1 DEF KeyFits
<1>8. \A u \in Thread : MayGiveBack(u, k)' => Untyped(k)
  BY <1>1 DEF KeyFits
<1> QED
  BY <1>3, <1>5, <1>6, <1>7, <1>8 DEF KeyFits

(* Who keeps its record may give back what it could; who has no reservation *)
(* may give nothing back.                                                  *)
LEMMA SameGivesBack ==
  ASSUME TypeOK, RowsKept, ThreadsRefer, NEW u \in Thread, NEW k \in Key,
         thread'[u] = thread[u] \/ thread'[u].pc \notin {"reserved", "refusing", "releasing"}
  PROVE  MayGiveBack(u, k)' => MayGiveBack(u, k)
BY SameThread DEF MayGiveBack

LEMMA KeysUnreserved ==
  ASSUME TypeOK, RowsKept, ThreadsRefer, Keys, NEW t \in Thread,
         \A u \in Thread \ {t} : thread'[u] = thread[u],
         thread'[t] = thread[t] \/ thread'[t].pc \notin {"reserved", "refusing", "releasing"},
         \A i \in RowId : /\ outbox'[i].receipt = outbox[i].receipt /\ typed'[i] = typed[i]
                          /\ outbox[i].receipt \in Key /\ OpenRow(i)' => OpenRow(i),
         \A k \in Key : receipts'[k].state = "none" => receipts[k].state = "none" \/ Untyped(k)
  PROVE  Keys'
BY SameGivesBack, KeysQuiet

LEMMA KeysClaim ==
  ASSUME TypeOK, RowsKept, ThreadsRefer, Keys, NEW c \in Caller, Claim(c)
  PROVE  Keys'
<1> PICK h \in Handle, k \in Key, d \in Digest :
      \/ ClaimNew(c, h, k, d) \/ ClaimReplay(c, h, k, d)
      \/ ClaimExpires(c, h, k, d) \/ ClaimOrphaned(c, h, k, d)
  BY DEF Claim
<1>0. c \in Thread /\ \A l \in Key : receipts[l] \in Receipt
  BY DEF Thread, TypeOK
<1>1. UNCHANGED <<outbox, typed>>
  BY DEF ClaimNew, ClaimReplay, ClaimExpires, ClaimOrphaned
<1>2. \A u \in Thread \ {c} : thread'[u] = thread[u]
  BY DEF ClaimNew, ClaimReplay, ClaimExpires, ClaimOrphaned, TypeOK
<1>3. CASE ClaimNew(c, h, k, d)
  <2>1. Untyped(k)
    BY <1>0, <1>3 DEF ClaimNew, ClaimOutcome, Receipt, Keys, KeyFits
  <2>2. \A l \in Key : receipts'[l].state = "none" => receipts[l].state = "none"
    BY <1>3 DEF ClaimNew, TypeOK
  <2>3. thread'[c].pc = "reserved" /\ thread'[c].key = k
    BY <1>0, <1>3 DEF ClaimNew, TypeOK, Idle
  <2>4. \A l \in Key : MayGiveBack(c, l)' => l = k
    BY <2>3 DEF MayGiveBack, ReservedKey
  <2>5. \A u \in Thread, l \in Key : MayGiveBack(u, l)' => MayGiveBack(u, l) \/ Untyped(l)
    BY <1>2, <2>1, <2>4, SameGivesBack
  <2> QED
    BY <1>1, <2>2, <2>5, KeysQuiet DEF OpenRow
<1>4. CASE ClaimReplay(c, h, k, d)
  BY <1>0, <1>1, <1>2, <1>4, KeysUnreserved DEF ClaimReplay, OpenRow
<1>5. CASE ClaimExpires(c, h, k, d)
  <2>1. receipts' = [receipts EXCEPT ![k] = [receipts[k] EXCEPT !.state = "expired", !.answer = None]]
        /\ thread' = thread
    BY <1>5 DEF ClaimExpires
  <2>2. \A l \in Key : receipts'[l].state = "none" => receipts[l].state = "none"
    BY <1>0, <2>1 DEF TypeOK, Receipt
  <2> QED
    BY <1>0, <1>1, <2>1, <2>2, KeysUnreserved DEF OpenRow
<1>6. CASE ClaimOrphaned(c, h, k, d)
  <2>1. receipts' = [receipts EXCEPT ![k] = [receipts[k] EXCEPT !.owner = h]]
    BY <1>6 DEF ClaimOrphaned
  <2>2. \A l \in Key : receipts'[l].state = "none" => receipts[l].state = "none"
    BY <1>0, <2>1 DEF TypeOK, Receipt
  <2>3. thread'[c].pc = "orphaned"
    BY <1>0, <1>6 DEF ClaimOrphaned, TypeOK, Idle
  <2> QED
    BY <1>0, <1>1, <1>2, <2>2, <2>3, KeysUnreserved DEF OpenRow
<1> QED
  BY <1>3, <1>4, <1>5, <1>6

(* The reserved key gets its row: it owes the only effect there may be.    *)
LEMMA KeysRecorded ==
  ASSUME TypeOK, RowsKept, ThreadsRefer, FreshRows, Core, Play, Keys, NEW c \in Caller, RecordMessage(c)
  PROVE  Keys'
<1> PICK n : n = lastId + 1
  OBVIOUS
<1> PICK k : k = thread[c].key
  OBVIOUS
<1>0. c \in Thread /\ thread[c] \in Goroutine /\ thread[c].pc = "reserved"
  BY DEF RecordMessage, Thread, TypeOK
<1>1. k \in Key /\ ReservedKey(c) = k /\ k # None /\ MayGiveBack(c, k)
  BY <1>0, Consts DEF ThreadsRefer, Refers, ReservedKey, MayGiveBack
<1>2. n \in RowId /\ n > lastId
  <2>1. n <= MaxRows /\ n \in Nat /\ n > lastId /\ n >= 1
    BY RowRange DEF RecordMessage
  <2> QED
    BY <2>1, Consts DEF RowId
<1>3. /\ receipts' = receipts /\ typed' = typed
      /\ outbox' = [outbox EXCEPT ![n] =
                     [state |-> "pending", kind |-> Message, owner |-> At(c),
                      receipt |-> thread[c].key, digest |-> thread[c].digest]]
      /\ thread' = [thread EXCEPT ![c] = [thread[c] EXCEPT !.pc = "next", !.todo = {n}]]
  BY DEF RecordMessage
<1>4. outbox'[n].receipt = k /\ \A j \in RowId \ {n} : outbox'[j] = outbox[j]
  BY <1>2, <1>3 DEF TypeOK
<1>5. typed[n] = 0 /\ outbox[n].receipt = None
  BY <1>2 DEF Play, RowFits, FreshRows, NoRow
<1>6. thread'[c].pc = "next" /\ \A u \in Thread \ {c} : thread'[u] = thread[u]
  BY <1>0, <1>3 DEF TypeOK, Goroutine
<1>7. \A u \in Thread, l \in Key : MayGiveBack(u, l)' => MayGiveBack(u, l) /\ u # c
  BY <1>6, SameGivesBack DEF MayGiveBack
<1>8. \A u \in Thread \ {c} : ~MayGiveBack(u, k)
  BY <1>0, <1>1 DEF MayGiveBack, Core, ReservationsApart
<1>9. ASSUME NEW l \in Key, l # k PROVE KeyFits(l)'
  <2>1. RowsOf(l)' = RowsOf(l) /\ n \notin RowsOf(l)
    BY <1>1, <1>4, <1>5, <1>9, Consts DEF RowsOf
  <2>2. \A i \in RowsOf(l) : OpenRow(i)' <=> OpenRow(i)
    BY <1>4, <2>1 DEF RowsOf, OpenRow
  <2>3. KeyFits(l) /\ (Untyped(l)' <=> Untyped(l))
    BY <1>3, <2>1 DEF Keys, Untyped
  <2> QED
    BY <1>3, <1>7, <2>1, <2>2, <2>3 DEF KeyFits
<1>10. KeyFits(k)'
  <2>1. Untyped(k)
    BY <1>0, <1>1 DEF Keys, KeyFits
  <2>2. \A i \in RowsOf(k)' : typed'[i] = 0
    <3>1. \A i \in RowsOf(k)' : i = n \/ i \in RowsOf(k)
      BY <1>4 DEF RowsOf
    <3> QED
      BY <1>3, <1>5, <2>1, <3>1 DEF Untyped
  <2> QED
    BY <2>2 DEF KeyFits, Untyped
<1> QED
  BY <1>9, <1>10 DEF Keys

LEMMA KeysDecide ==
  ASSUME TypeOK, RowsKept, ThreadsRefer, FreshRows, Core, Play, Keys, NEW c \in Caller, Decide(c)
  PROVE  Keys'
<1>0. c \in Thread /\ thread[c] \in Goroutine
  BY DEF Thread, TypeOK
<1>a. ASSUME Leave(c), UNCHANGED <<outbox, typed>>,
             \A k \in Key : receipts'[k].state = "none" => receipts[k].state = "none" \/ Untyped(k)
      PROVE  Keys'
  <2>1. thread'[c].pc = "idle" /\ \A u \in Thread \ {c} : thread'[u] = thread[u]
    BY <1>0, <1>a DEF Leave, TypeOK, Idle
  <2> QED
    BY <1>0, <1>a, <2>1, KeysUnreserved DEF OpenRow
<1>1. CASE CompleteOrphan(c)
  <2>1. \A k \in Key : receipts'[k].state = "none" => receipts[k].state = "none"
    <3>1. receipts' = [receipts EXCEPT ![thread[c].key] = [receipts[thread[c].key] EXCEPT !.state = "complete", !.answer = "unknown"]]
      BY <1>1 DEF CompleteOrphan, Completed
    <3>2. \A k \in Key : receipts[k] \in Receipt
      BY DEF TypeOK
    <3> QED
      BY <3>1, <3>2 DEF TypeOK, Receipt
  <2> QED
    BY <1>1, <1>a, <2>1 DEF CompleteOrphan
<1>2. CASE CompleteOrphanFails(c) \/ GiveBackFails(c)
  BY <1>2, <1>a DEF CompleteOrphanFails, GiveBackFails
<1>3. CASE GiveBack(c)
  <2>1. thread[c].pc = "refusing" /\ thread[c].key \in Key /\ MayGiveBack(c, thread[c].key)
    BY <1>0, <1>3 DEF GiveBack, ThreadsRefer, Refers, MayGiveBack, ReservedKey
  <2>2. Untyped(thread[c].key)
    BY <1>0, <2>1 DEF Keys, KeyFits
  <2>3. \A k \in Key : receipts'[k].state = "none" => receipts[k].state = "none" \/ Untyped(k)
    BY <1>3, <2>2 DEF GiveBack, Released, TypeOK
  <2> QED
    BY <1>3, <1>a, <2>3 DEF GiveBack
<1>4. CASE Refuse(c)
  <2>1. /\ thread[c].pc = "reserved" /\ UNCHANGED <<outbox, typed, receipts>>
        /\ thread' = [thread EXCEPT ![c] = [thread[c] EXCEPT !.pc = "refusing"]]
    BY <1>4 DEF Refuse, Goto
  <2>2. thread'[c].pc = "refusing" /\ thread'[c].key = thread[c].key
        /\ \A u \in Thread \ {c} : thread'[u] = thread[u]
    BY <1>0, <2>1 DEF TypeOK, Goroutine
  <2>3. \A k \in Key : MayGiveBack(c, k)' => MayGiveBack(c, k)
    BY <2>1, <2>2 DEF MayGiveBack, ReservedKey
  <2>4. \A u \in Thread, k \in Key : MayGiveBack(u, k)' => MayGiveBack(u, k)
    BY <2>2, <2>3, SameGivesBack
  <2> QED
    BY <2>1, <2>4, KeysQuiet DEF OpenRow
<1>5. CASE RecordMessage(c)
  BY <1>5, KeysRecorded
<1> QED
  BY <1>1, <1>2, <1>3, <1>4, <1>5 DEF Decide

LEMMA KeysBatch ==
  ASSUME TypeOK, RowsKept, ThreadsRefer, FreshRows, Keys, NEW c \in Caller, Batch(c)
  PROVE  Keys'
<1> PICK h \in Handle, kind \in Kind, n \in BatchSizes : RecordBatch(c, h, kind, n)
  BY DEF Batch
<1>1. c \in Thread /\ receipts' = receipts /\ typed' = typed
  BY DEF Thread, RecordBatch
<1>2. thread'[c].pc = "next" /\ \A u \in Thread \ {c} : thread'[u] = thread[u]
  BY <1>1 DEF RecordBatch, TypeOK, Idle
<1>3. \A i \in RowId : outbox'[i] = outbox[i] \/ (i > lastId /\ outbox'[i].receipt = None)
  BY RowRange, OutboxAssumption DEF OutboxAssumption, RecordBatch, RowId
<1>4. \A i \in RowId : outbox'[i].receipt = outbox[i].receipt
  BY <1>3 DEF FreshRows, NoRow
<1>5. \A i \in RowId : outbox[i].receipt \in Key => outbox'[i] = outbox[i]
  BY <1>3, <1>4, Consts
<1> QED
  BY <1>1, <1>2, <1>4, <1>5, KeysUnreserved DEF OpenRow

(* The effect of an owed message is the first under its key. *)
LEMMA KeysAttempt ==
  ASSUME TypeOK, RowsKept, ThreadsRefer, Core, Play, Keys, NEW t \in Thread, Attempt(t)
  PROVE  Keys'
<1> PICK i : i = thread[t].cur
  OBVIOUS
<1>0. thread[t] \in Goroutine /\ thread[t].pc = "started" /\ UNCHANGED <<outbox, receipts>>
  BY DEF TypeOK, Attempt
<1>1. i \in 1 .. lastId /\ i \in RowId /\ i # 0 /\ Works(t) /\ outbox[i] \in Row
  BY <1>0, RowRange DEF ThreadsRefer, Refers, Play, TypeOK
<1>2. \A j \in RowId \ {i} : typed'[j] = typed[j]
  BY DEF Attempt, TypeOK
<1>3. thread'[t].pc = "ended" /\ \A u \in Thread \ {t} : thread'[u] = thread[u]
  <2>1. PICK res : thread' = [thread EXCEPT ![t] = [thread[t] EXCEPT !.pc = "ended", !.res = res]]
    BY DEF Attempt, Took
  <2> QED
    BY <1>0, <2>1 DEF TypeOK, Goroutine
<1>4. \A u \in Thread, k \in Key : MayGiveBack(u, k)' => MayGiveBack(u, k)
  BY <1>3, SameGivesBack
<1>5. \A k \in Key : RowsOf(k)' = RowsOf(k)
  BY <1>0 DEF RowsOf
<1>6. ASSUME NEW k \in Key, i \notin RowsOf(k) PROVE KeyFits(k)'
  <2>1. \A j \in RowsOf(k) : typed'[j] = typed[j]
    BY <1>2, <1>6 DEF RowsOf
  <2>2. KeyFits(k) /\ (Untyped(k)' <=> Untyped(k))
    BY <1>5, <2>1 DEF Keys, Untyped
  <2> QED
    BY <1>0, <1>4, <1>5, <2>1, <2>2 DEF KeyFits, OpenRow
<1>7. ASSUME NEW k \in Key, i \in RowsOf(k) PROVE KeyFits(k)'
  <2>1. outbox[i].receipt = k /\ k # None /\ IsMessage(i)
    BY <1>7, Consts DEF RowsOf, IsMessage
  <2>2. OpenRow(i)
    BY <1>0, <1>1, <2>1 DEF Works, Has, OpenRow, Open
  <2>3. receipts[k].state = "pending"
    BY <1>1, <2>1, <2>2 DEF Core, OpenEffectOwnsReceipt
  <2>4. \A u \in Thread : ReservedKey(u) # k
    BY <1>1, <2>1, <2>2 DEF Core, ReservationsHeld
  <2>5. \A u \in Thread : ~MayGiveBack(u, k)'
    BY <1>4, <2>4 DEF MayGiveBack
  <2>6. \A j \in RowsOf(k) : j # i => typed'[j] = 0 /\ ~OpenRow(j)
    <3>1. ASSUME NEW j \in RowsOf(k), j # i PROVE typed'[j] = 0 /\ ~OpenRow(j)
      <4>1. j \in RowId /\ outbox[j].receipt = k
        BY DEF RowsOf
      <4>2. typed[j] = 0
        BY <1>7, <2>2, <3>1 DEF Keys, KeyFits
      <4>3. ~OpenRow(j)
        BY <1>1, <2>1, <2>2, <3>1, <4>1 DEF Core, OneOpenRow
      <4> QED
        BY <1>2, <3>1, <4>1, <4>2, <4>3
    <3> QED
      BY <3>1
  <2>7. \A j \in RowsOf(k)' : j # i => typed'[j] = 0 /\ ~OpenRow(j)'
    BY <1>0, <1>5, <2>6 DEF OpenRow
  <2>8. receipts'[k].state # "none"
    BY <1>0, <2>3
  <2>9. ASSUME NEW j \in RowsOf(k)', NEW l \in RowsOf(k)', typed'[j] > 0, typed'[l] > 0 PROVE j = l
    BY <2>7, <2>9
  <2>10. ASSUME NEW j \in RowsOf(k)', NEW l \in RowsOf(k)', OpenRow(j)', j # l PROVE typed'[l] = 0
    BY <2>7, <2>10
  <2> QED
    BY <2>5, <2>8, <2>9, <2>10 DEF KeyFits
<1> QED
  BY <1>6, <1>7 DEF Keys

(* Finishing a row closes it. *)
LEMMA FinishRows ==
  ASSUME TypeOK, NEW h, NEW i \in RowId, NEW s, s \notin Open, NEW a, FinishEffect(h, i, s, a)
  PROVE  /\ \A j \in RowId : /\ outbox'[j].receipt = outbox[j].receipt
                             /\ outbox'[j].digest = outbox[j].digest
                             /\ OpenRow(j)' => OpenRow(j) /\ j # i
         /\ \A k \in Key : receipts'[k].state = "none" => receipts[k].state = "none"
<1>0. \A j \in RowId : outbox[j] \in Row
  BY DEF TypeOK
<1>1. outbox' = [outbox EXCEPT ![i] = [outbox[i] EXCEPT !.state = s]]
  BY DEF FinishEffect
<1>2. \A j \in RowId : /\ outbox'[j].receipt = outbox[j].receipt
                       /\ outbox'[j].digest = outbox[j].digest
                       /\ outbox'[j].state = IF j = i THEN s ELSE outbox[j].state
  BY <1>0, <1>1 DEF TypeOK, Row
<1>3. \A k \in Key : receipts[k] \in Receipt
  BY DEF TypeOK
<1>4. receipts' = receipts \/
      receipts' = [receipts EXCEPT ![outbox[i].receipt] =
                    [receipts[outbox[i].receipt] EXCEPT !.state = "complete", !.answer = a]]
  BY DEF FinishEffect, Completed
<1>5. ASSUME NEW k \in Key PROVE receipts'[k].state = "none" => receipts[k].state = "none"
  <2>1. receipts'[k] = receipts[k] \/ receipts'[k] = [receipts[k] EXCEPT !.state = "complete", !.answer = a]
    BY <1>4 DEF TypeOK
  <2> QED
    BY <1>3, <2>1 DEF Receipt
<1> QED
  BY <1>2, <1>5 DEF OpenRow

LEMMA KeysRun ==
  ASSUME TypeOK, RowsKept, ThreadsRefer, Core, Play, Keys, NEW t \in Thread, Run(t)
  PROVE  Keys'
<1>0. thread[t] \in Goroutine /\ Works(t)
  BY DEF TypeOK, Play
<1>a. ASSUME Unreserved(t), UNCHANGED <<outbox, typed, receipts>> PROVE Keys'
  BY <1>a, KeysUnreserved DEF Unreserved, OpenRow
<1>c. ASSUME NEW i \in RowId, Drop(t, i), thread[t].pc = "next" PROVE Unreserved(t)
  <2>1. thread' = [thread EXCEPT ![t] = [thread[t] EXCEPT !.todo = @ \ {i}]]
    BY <1>c DEF Drop
  <2>2. thread'[t].pc = "next"
    BY <1>0, <1>c, <2>1 DEF Goroutine, TypeOK
  <2> QED
    BY <2>1, <2>2 DEF Unreserved, TypeOK
<1>1. CASE Return(t)
  BY <1>1, <1>a, LeaveUnreserved DEF Return
<1>2. ASSUME NEW i \in RowId, SettleUnknown(t, i) PROVE Keys'
  <2>1. Unreserved(t) /\ typed' = typed
    BY <1>2, <1>c DEF SettleUnknown, TurnsTo
  <2>2. CASE FinishEffect(At(t), i, "unknown", "unknown")
    BY <2>1, <2>2, FinishRows, KeysUnreserved DEF Unreserved, Open
  <2> QED
    BY <1>2, <1>a, <2>1, <2>2 DEF SettleUnknown
<1>3. ASSUME NEW i \in RowId, Hold(t, i) PROVE Keys'
  <2>1. thread' = [thread EXCEPT ![t] = [thread[t] EXCEPT !.pc = "holds", !.cur = i, !.todo = @ \ {i}]]
        /\ UNCHANGED <<receipts, outbox, typed>>
    BY <1>3 DEF Hold
  <2>2. thread'[t].pc = "holds"
    BY <1>0, <2>1 DEF Goroutine, TypeOK
  <2> QED
    BY <1>a, <2>1, <2>2 DEF Unreserved, TypeOK
<1>4. ASSUME NEW i \in RowId, HoldRefused(t, i) PROVE Keys'
  BY <1>4, <1>a, <1>c DEF HoldRefused, TurnsTo
<1>5. CASE StartEffect(t)
  <2>1. /\ thread' = [thread EXCEPT ![t] = [thread[t] EXCEPT !.pc = "started"]]
        /\ receipts' = receipts /\ typed' = typed
        /\ outbox' = [outbox EXCEPT ![thread[t].cur].state = "started"]
        /\ OpenRow(thread[t].cur)
    BY <1>5 DEF StartEffect, Goto
  <2>2. thread'[t].pc = "started" /\ \A u \in Thread \ {t} : thread'[u] = thread[u]
    BY <1>0, <2>1 DEF Goroutine, TypeOK
  <2>3. \A i \in RowId : outbox[i] \in Row
    BY DEF TypeOK
  <2>4. \A i \in RowId : outbox'[i].receipt = outbox[i].receipt /\ (OpenRow(i)' => OpenRow(i))
    BY <2>1, <2>3 DEF OpenRow, TypeOK, Row
  <2> QED
    BY <2>1, <2>2, <2>4, KeysUnreserved
<1>6. CASE StartFails(t) \/ FinishFails(t)
  BY <1>6, <1>a, UnholdUnreserved DEF StartFails, FinishFails
<1>7. CASE Attempt(t)
  BY <1>7, KeysAttempt
<1>8. CASE Finish(t)
  <2> PICK i : i = thread[t].cur
    OBVIOUS
  <2>1. /\ thread[t].pc = "ended" /\ typed' = typed
        /\ FinishEffect(At(t), i, EndState(thread[t].res), EndAnswer(t))
        /\ EndState(thread[t].res) \notin Open
    BY <1>8 DEF Finish, EndState, Open
  <2>2. i \in RowId /\ i # 0
    BY <1>0, <2>1, RowRange DEF ThreadsRefer, Refers
  <2>3. /\ \A j \in RowId : outbox'[j].receipt = outbox[j].receipt /\ (OpenRow(j)' => OpenRow(j))
        /\ \A k \in Key : receipts'[k].state = "none" => receipts[k].state = "none"
    BY <2>1, <2>2, FinishRows
  <2>4. CASE thread[t].res = "refused" /\ Cur(t).receipt # None
    <3>1. /\ thread' = [thread EXCEPT ![t] = [thread[t] EXCEPT !.pc = "releasing"]]
      BY <1>8, <2>4 DEF Finish, Goto
    <3>2. thread'[t].pc = "releasing" /\ thread'[t].cur = i /\ \A u \in Thread \ {t} : thread'[u] = thread[u]
      BY <1>0, <3>1 DEF Goroutine, TypeOK
    <3>3. ReservedKey(t)' = outbox[i].receipt
      BY <2>2, <2>3, <3>2 DEF ReservedKey, Cur
    <3>4. IsMessage(i) /\ typed[i] = 0 /\ OpenRow(i)
      BY <1>0, <2>1, <2>2, <2>4 DEF IsMessage, Cur, Works, Has, OpenRow, Open
    <3>5. \A k \in Key : ReservedKey(t)' = k => Untyped(k)
      <4>1. ASSUME NEW k \in Key, k = outbox[i].receipt PROVE Untyped(k)
        <5>1. i \in RowsOf(k)
          BY <2>2, <4>1 DEF RowsOf
        <5> QED
          BY <3>4, <5>1 DEF Keys, KeyFits, Untyped
      <4> QED
        BY <3>3, <4>1
    <3>6. \A u \in Thread, k \in Key : MayGiveBack(u, k)' => MayGiveBack(u, k) \/ Untyped(k)
      BY <3>2, <3>5, SameGivesBack DEF MayGiveBack
    <3> QED
      BY <2>1, <2>3, <3>6, KeysQuiet
  <2>5. CASE Unhold(t)
    <3>1. Unreserved(t)
      BY <2>5, UnholdUnreserved
    <3> QED
      BY <2>1, <2>3, <3>1, KeysUnreserved DEF Unreserved
  <2> QED
    BY <1>8, <2>4, <2>5 DEF Finish
<1>9. CASE ReleaseAfter(t)
  <2>1. thread[t].pc = "releasing" /\ UNCHANGED <<outbox, typed>> /\ Unreserved(t)
    BY <1>9, UnholdUnreserved DEF ReleaseAfter
  <2> PICK k : k = Cur(t).receipt
    OBVIOUS
  <2>2. k \in Key /\ MayGiveBack(t, k)
    BY <2>1 DEF ThreadsRefer, Refers, ReservedKey, MayGiveBack
  <2>3. Untyped(k)
    BY <2>2 DEF Keys, KeyFits
  <2>4. \A l \in Key : receipts'[l].state = "none" => receipts[l].state = "none" \/ Untyped(l)
    BY <1>9, <2>3 DEF ReleaseAfter, Released, TypeOK
  <2> QED
    BY <2>1, <2>4, KeysUnreserved DEF Unreserved, OpenRow
<1> QED
  BY <1>1, <1>2, <1>3, <1>4, <1>5, <1>6, <1>7, <1>8, <1>9 DEF Run

LEMMA KeysBeat ==
  ASSUME TypeOK, RowsKept, ThreadsRefer, Keys, NEW h \in Handle, Beat(h)
  PROVE  Keys'
<1>0. h \in Thread
  BY DEF Thread
<1>1. CASE AdoptEffects(h)
  <2>1. thread'[h].pc = "next" /\ \A u \in Thread \ {h} : thread'[u] = thread[u]
    BY <1>0, <1>1 DEF AdoptEffects, TypeOK, Idle
  <2>2. \A i \in RowId : outbox[i] \in Row
    BY DEF TypeOK
  <2>3. \A i \in RowId : outbox'[i] \in {outbox[i], [outbox[i] EXCEPT !.owner = h]}
    BY <1>1 DEF AdoptEffects
  <2>4. \A i \in RowId : outbox'[i].receipt = outbox[i].receipt /\ (OpenRow(i)' => OpenRow(i))
    BY <2>2, <2>3 DEF OpenRow, Row
  <2>5. \A k \in Key : receipts[k] \in Receipt /\ receipts'[k] \in {receipts[k], [receipts[k] EXCEPT !.owner = h]}
    BY <1>1 DEF AdoptEffects, TypeOK
  <2>6. \A k \in Key : receipts'[k].state = receipts[k].state
    BY <2>5 DEF Receipt
  <2>7. typed' = typed
    BY <1>1 DEF AdoptEffects
  <2> QED
    BY <1>0, <2>1, <2>4, <2>6, <2>7, KeysUnreserved
<1>2. ASSUME NEW i \in RowId, ReadUnattended(h, i) PROVE Keys'
  <2>1. thread'[h].pc = "next" /\ \A u \in Thread \ {h} : thread'[u] = thread[u]
    BY <1>0, <1>2 DEF ReadUnattended, TypeOK, Idle
  <2>2. UNCHANGED <<outbox, typed, receipts>>
    BY <1>2 DEF ReadUnattended
  <2> QED
    BY <1>0, <2>1, <2>2, KeysUnreserved DEF OpenRow
<1> QED
  BY <1>1, <1>2 DEF Beat

LEMMA KeysStepped ==
  ASSUME TypeOK, ThreadsRefer, FreshRows, Core, Play, Keys, [Next]_vars
  PROVE  Keys'
<1>0. RowsKept
  BY RowsStep
<1>a. ASSUME UNCHANGED <<outbox, typed>>, \A u \in Thread : thread'[u] \in {thread[u], Idle},
             \A k \in Key : receipts'[k].state = "none" => receipts[k].state = "none"
      PROVE  Keys'
  <2>1. \A u \in Thread : thread'[u] = thread[u] \/ thread'[u].pc \notin {"reserved", "refusing", "releasing"}
    BY <1>a DEF Idle
  <2>2. \A u \in Thread, k \in Key : MayGiveBack(u, k)' => MayGiveBack(u, k)
    BY <1>0, <2>1, SameGivesBack
  <2> QED
    BY <1>a, <2>2, KeysQuiet DEF OpenRow
<1>1. ASSUME NEW c \in Caller, Claim(c) PROVE Keys'
  BY <1>0, <1>1, KeysClaim
<1>2. ASSUME NEW c \in Caller, Decide(c) PROVE Keys'
  BY <1>0, <1>2, KeysDecide
<1>3. ASSUME NEW c \in Caller, Batch(c) PROVE Keys'
  BY <1>0, <1>3, KeysBatch
<1>4. ASSUME NEW t \in Thread, Run(t) PROVE Keys'
  BY <1>0, <1>4, KeysRun
<1>5. ASSUME NEW h \in Handle, Beat(h) PROVE Keys'
  BY <1>0, <1>5, KeysBeat
<1>6. ASSUME NEW h \in Handle, ExpireReceipts(h) PROVE Keys'
  <2>1. \A k \in Key : receipts[k] \in Receipt /\
          receipts'[k] \in {receipts[k], [receipts[k] EXCEPT !.state = "expired", !.answer = None]}
    BY <1>6 DEF ExpireReceipts, TypeOK
  <2>2. \A k \in Key : receipts'[k].state = "none" => receipts[k].state = "none"
    BY <2>1 DEF Receipt
  <2> QED
    BY <1>6, <1>a, <2>2 DEF ExpireReceipts
<1>7. ASSUME NEW h \in Handle, Boot(h) \/ PidFreed(h) \/ Crash(h) PROVE Keys'
  BY <1>7, <1>a DEF Boot, PidFreed, Crash
<1>8. ASSUME NEW k \in Key, WindowPasses(k) PROVE Keys'
  BY <1>8, <1>a DEF WindowPasses
<1>9. CASE UNCHANGED vars
  BY <1>9, <1>a DEF vars
<1> QED
  BY <1>1, <1>2, <1>3, <1>4, <1>5, <1>6, <1>7, <1>8, <1>9 DEF Next

-----------------------------------------------------------------------------
(* What was answered under a key.                                          *)

(* A line of this request was typed under the key. *)
TypedFor(k, d) == \E i \in RowsOf(k) : outbox[i].digest = d /\ typed[i] = 1

AnswerFits(k) ==
  LET r == receipts[k] IN
  /\ r.state \in {"none", "pending"} => told[k] = {}
  /\ r.state = "none" <=> r.digest = None
  /\ r.state = "complete" =>
       /\ told[k] \subseteq {<<r.digest, r.answer>>}
       /\ r.answer = "delivered" => TypedFor(k, r.digest)
  /\ \A x, y \in told[k] : x = y
  /\ \A x \in told[k] : x[2] = "delivered" => TypedFor(k, x[1])

Answers == \A k \in Key : AnswerFits(k)

(* The one who must file that nobody knows asks for what was reserved. *)
OrphansFit ==
  \A u \in Thread : thread[u].pc = "orphaned" => receipts[thread[u].key].digest = thread[u].digest

(* What a step does to the receipt of a key, and to what was told under it: *)
(* nothing that is answered, or it is given back, taken, filed or replayed. *)
Still(k) ==
  /\ told'[k] = told[k] /\ receipts'[k].digest = receipts[k].digest
  /\ \/ receipts'[k].state = receipts[k].state /\ receipts'[k].answer = receipts[k].answer
     \/ receipts[k].state = "complete" /\ receipts'[k].state = "expired"

Freed(k) ==
  /\ receipts[k].state = "pending" /\ receipts'[k] = NoReceipt
  /\ told'[k] = told[k] /\ Untyped(k)

Taken(k) ==
  /\ receipts[k].state = "none" /\ receipts'[k].state = "pending" /\ receipts'[k].digest \in Digest
  /\ told'[k] = told[k]

Files(k, a) ==
  /\ receipts[k].state = "pending" /\ receipts'[k].state = "complete"
  /\ receipts'[k].digest = receipts[k].digest /\ receipts'[k].answer = a
  /\ a = "delivered" => TypedFor(k, receipts[k].digest)
  /\ told'[k] \subseteq told[k] \cup {<<receipts[k].digest, a>>}

Replays(k) ==
  /\ receipts[k].state = "complete" /\ receipts'[k] = receipts[k]
  /\ told'[k] = told[k] \cup {<<receipts[k].digest, receipts[k].answer>>}

Moves ==
  \/ \A k \in Key : Still(k)
  \/ /\ typed' = typed
     /\ \E k \in Key : /\ Freed(k) \/ Taken(k) \/ Replays(k) \/ \E a \in Answer : Files(k, a)
                       /\ \A l \in Key \ {k} : Still(l)

LEMMA SameStill == ASSUME NEW k \in Key, receipts'[k] = receipts[k], told'[k] = told[k] PROVE Still(k)
BY DEF Still

LEMMA MovesClaim == ASSUME TypeOK, NEW c \in Caller, Claim(c) PROVE Moves
<1> PICK h \in Handle, k \in Key, d \in Digest :
      \/ ClaimNew(c, h, k, d) \/ ClaimReplay(c, h, k, d)
      \/ ClaimExpires(c, h, k, d) \/ ClaimOrphaned(c, h, k, d)
  BY DEF Claim
<1>0. receipts[k] \in Receipt
  BY DEF TypeOK
<1>1. typed' = typed
  BY DEF ClaimNew, ClaimReplay, ClaimExpires, ClaimOrphaned
<1>2. \A l \in Key \ {k} : Still(l)
  BY SameStill DEF ClaimNew, ClaimReplay, ClaimExpires, ClaimOrphaned, TypeOK
<1>3. CASE ClaimNew(c, h, k, d)
  <2>1. receipts[k].state = "none"
    BY <1>0, <1>3 DEF ClaimNew, ClaimOutcome, Receipt
  <2>2. receipts'[k].state = "pending" /\ receipts'[k].digest = d /\ told' = told
    BY <1>3 DEF ClaimNew, TypeOK
  <2> QED
    BY <1>1, <1>2, <2>1, <2>2 DEF Moves, Taken
<1>4. CASE ClaimReplay(c, h, k, d)
  <2>1. receipts[k].state = "complete" /\ receipts[k].digest = d
    BY <1>0, <1>4 DEF ClaimReplay, ClaimOutcome, Receipt
  <2>2. receipts' = receipts /\ told'[k] = told[k] \cup {<<d, receipts[k].answer>>}
    BY <1>4 DEF ClaimReplay, TypeOK
  <2> QED
    BY <1>1, <1>2, <2>1, <2>2 DEF Moves, Replays
<1>5. CASE ClaimExpires(c, h, k, d)
  <2>1. receipts[k].state = "complete"
    BY <1>0, <1>5 DEF ClaimExpires, ClaimOutcome, Receipt
  <2>2. receipts'[k] = [receipts[k] EXCEPT !.state = "expired", !.answer = None] /\ told' = told
    <3>1. receipts' = [receipts EXCEPT ![k] = [receipts[k] EXCEPT !.state = "expired", !.answer = None]]
      BY <1>5 DEF ClaimExpires
    <3> QED
      BY <1>5, <3>1 DEF ClaimExpires, TypeOK
  <2>3. Still(k)
    BY <1>0, <2>1, <2>2 DEF Still, Receipt
  <2> QED
    BY <1>2, <2>3 DEF Moves
<1>6. CASE ClaimOrphaned(c, h, k, d)
  <2>1. receipts'[k] = [receipts[k] EXCEPT !.owner = h] /\ told' = told
    <3>1. receipts' = [receipts EXCEPT ![k] = [receipts[k] EXCEPT !.owner = h]]
      BY <1>6 DEF ClaimOrphaned
    <3> QED
      BY <1>6, <3>1 DEF ClaimOrphaned, TypeOK
  <2>2. Still(k)
    BY <1>0, <2>1 DEF Still, Receipt
  <2> QED
    BY <1>2, <2>2 DEF Moves
<1> QED
  BY <1>3, <1>4, <1>5, <1>6

(* Giving back a key that nothing was typed under, or that is not held. *)
LEMMA MovesReleased ==
  ASSUME TypeOK, NEW h, NEW k \in Key, Untyped(k), receipts' = Released(h, k), UNCHANGED <<told, typed>>
  PROVE  Moves
<1>1. CASE receipts' = receipts
  BY <1>1, SameStill DEF Moves
<1>2. CASE Completable(h, k) /\ receipts' = [receipts EXCEPT ![k] = NoReceipt]
  <2>1. Freed(k)
    BY <1>2 DEF Freed, Completable, TypeOK
  <2>2. \A l \in Key \ {k} : Still(l)
    BY <1>2, SameStill DEF TypeOK
  <2> QED
    BY <2>1, <2>2 DEF Moves
<1> QED
  BY <1>1, <1>2 DEF Released

LEMMA CompletedFields ==
  ASSUME TypeOK, NEW k \in Key, NEW a, NEW c, c = Completed(k, a)
  PROVE  c.state = "complete" /\ c.digest = receipts[k].digest /\ c.answer = a
<1> PICK r : r = receipts[k]
  OBVIOUS
<1> PICK b : b = [r EXCEPT !.state = "complete"]
  OBVIOUS
<1>1. r \in Receipt /\ c = [b EXCEPT !.answer = a]
  BY DEF TypeOK, Completed
<1>2. b.state = "complete" /\ b.digest = r.digest
      /\ b = [state |-> "complete", digest |-> r.digest, owner |-> r.owner, answer |-> r.answer]
  BY <1>1 DEF Receipt
<1> QED
  BY <1>1, <1>2

(* An answer is filed for a pending receipt. *)
LEMMA MovesFiled ==
  ASSUME TypeOK, NEW k \in Key, NEW a \in Answer, receipts[k].state = "pending",
         receipts' = [receipts EXCEPT ![k] = Completed(k, a)], typed' = typed,
         a = "delivered" => TypedFor(k, receipts[k].digest),
         told' = told \/ told' = [told EXCEPT ![k] = @ \cup {<<receipts[k].digest, a>>}]
  PROVE  Moves
<1>0. receipts[k] \in Receipt
  BY DEF TypeOK
<1>1. receipts'[k] = Completed(k, a)
  BY DEF TypeOK
<1>2. told'[k] \subseteq told[k] \cup {<<receipts[k].digest, a>>}
  BY DEF TypeOK
<1>a. receipts'[k].state = "complete" /\ receipts'[k].digest = receipts[k].digest /\ receipts'[k].answer = a
  BY <1>1, CompletedFields
<1>3. Files(k, a)
  BY <1>a, <1>2 DEF Files
<1>4. \A l \in Key \ {k} : Still(l)
  BY SameStill DEF TypeOK
<1> QED
  BY <1>3, <1>4 DEF Moves

LEMMA MovesDecide ==
  ASSUME TypeOK, ThreadsRefer, Core, Keys, OrphansFit, NEW c \in Caller, Decide(c)
  PROVE  Moves
<1>0. c \in Thread
  BY DEF Thread
<1>1. CASE CompleteOrphan(c)
  <2> PICK k : k = thread[c].key
    OBVIOUS
  <2>1. /\ thread[c].pc = "orphaned" /\ Completable(At(c), k) /\ typed' = typed
        /\ receipts' = [receipts EXCEPT ![k] = Completed(k, "unknown")]
        /\ told' = [told EXCEPT ![k] = @ \cup {<<thread[c].digest, "unknown">>}]
    BY <1>1 DEF CompleteOrphan
  <2>2. k \in Key /\ receipts[k].digest = thread[c].digest /\ receipts[k].state = "pending"
    BY <1>0, <2>1 DEF ThreadsRefer, Refers, OrphansFit, Completable
  <2> QED
    BY <2>1, <2>2, MovesFiled DEF Answer
<1>2. CASE GiveBack(c)
  <2>1. thread[c].pc = "refusing" /\ thread[c].key \in Key /\ MayGiveBack(c, thread[c].key)
    BY <1>0, <1>2 DEF GiveBack, ThreadsRefer, Refers, MayGiveBack, ReservedKey
  <2>2. Untyped(thread[c].key)
    BY <1>0, <2>1 DEF Keys, KeyFits
  <2> QED
    BY <1>2, <2>1, <2>2, MovesReleased DEF GiveBack
<1>3. CASE UNCHANGED <<receipts, told>>
  BY <1>3, SameStill DEF Moves
<1> QED
  BY <1>1, <1>2, <1>3 DEF Decide, CompleteOrphanFails, Refuse, GiveBackFails, RecordMessage

(* A message that is finished files its answer, if any, for the request it *)
(* was recorded for.                                                       *)
LEMMA MovesFinished ==
  ASSUME TypeOK, Core, NEW h, NEW i \in RowId, NEW s, NEW a \in Answer, FinishEffect(h, i, s, a), typed' = typed,
         a = "delivered" => typed[i] = 1,
         \/ told' = told
         \/ IsMessage(i) /\ a # None /\ told' = [told EXCEPT ![outbox[i].receipt] = @ \cup {<<outbox[i].digest, a>>}]
  PROVE  Moves
<1>0. outbox[i] \in Row /\ OpenRow(i)
  BY DEF TypeOK, FinishEffect, Finishable, OpenRow, Open
<1>1. CASE ~IsMessage(i) \/ a = None
  BY <1>1, SameStill DEF FinishEffect, IsMessage, Moves
<1>2. CASE IsMessage(i) /\ a # None
  <2> PICK k : k = outbox[i].receipt
    OBVIOUS
  <2>1. k \in Key /\ k # None
    BY <1>0, <1>2 DEF IsMessage, Row
  <2>2. receipts[k].state = "pending" /\ receipts[k].digest = outbox[i].digest
    BY <1>0, <2>1 DEF Core, OpenEffectOwnsReceipt
  <2>3. a = "delivered" => TypedFor(k, receipts[k].digest)
    BY <2>2 DEF TypedFor, RowsOf
  <2>4. receipts' = [receipts EXCEPT ![k] = Completed(k, a)]
    BY <1>2, <2>1 DEF FinishEffect
  <2> QED
    BY <2>1, <2>2, <2>3, <2>4, MovesFiled
<1> QED
  BY <1>1, <1>2

LEMMA MovesRun ==
  ASSUME TypeOK, ThreadsRefer, Core, Play, Keys, NEW t \in Thread, Run(t)
  PROVE  Moves
<1>0. Works(t) /\ \A k \in Key : receipts[k] \in Receipt
  BY DEF Play, TypeOK
<1>a. ASSUME UNCHANGED <<receipts, told>> PROVE Moves
  BY <1>a, SameStill DEF Moves
<1>1. ASSUME NEW i \in RowId, SettleUnknown(t, i) PROVE Moves
  <2>1. CASE FinishEffect(At(t), i, "unknown", "unknown")
    <3>1. UNCHANGED <<told, typed>>
      BY <1>1 DEF SettleUnknown
    <3> QED
      BY <2>1, <3>1, MovesFinished DEF Answer
  <2> QED
    BY <1>1, <1>a, <2>1 DEF SettleUnknown
<1>2. CASE Finish(t)
  <2> PICK i : i = thread[t].cur
    OBVIOUS
  <2> PICK a : a = EndAnswer(t)
    OBVIOUS
  <2>1. /\ thread[t].pc = "ended" /\ typed' = typed /\ Tell(t, a)
        /\ FinishEffect(At(t), i, EndState(thread[t].res), a)
    BY <1>2 DEF Finish
  <2>2. i \in RowId /\ i # 0
    BY <1>0, <2>1, RowRange DEF ThreadsRefer, Refers
  <2>m. a # None => IsMessage(i)
    BY DEF EndAnswer, Cur, IsMessage
  <2>c. Cur(t) = outbox[i]
    BY DEF Cur
  <2>3. \/ told' = told
        \/ IsMessage(i) /\ a # None /\ told' = [told EXCEPT ![outbox[i].receipt] = @ \cup {<<outbox[i].digest, a>>}]
    BY <2>1, <2>c, <2>m, Zenon DEF Tell
  <2>4. CASE a = None
    BY <1>a, <2>1, <2>3, <2>4 DEF FinishEffect
  <2>5. CASE a # None
    <3>1. IsMessage(i) /\ a \in Answer /\ (a = "delivered" => thread[t].res = "typed")
      BY <2>5 DEF EndAnswer, Cur, IsMessage, Answer
    <3>2. a = "delivered" => typed[i] = 1
      BY <1>0, <2>1, <2>2, <3>1 DEF Works, Has
    <3> QED
      BY <2>1, <2>2, <2>3, <3>1, <3>2, MovesFinished
  <2> QED
    BY <2>4, <2>5
<1>3. CASE ReleaseAfter(t)
  <2>1. thread[t].pc = "releasing" /\ UNCHANGED <<told, typed>>
    BY <1>3 DEF ReleaseAfter
  <2> PICK k : k = Cur(t).receipt
    OBVIOUS
  <2>2. k \in Key /\ MayGiveBack(t, k)
    BY <2>1 DEF ThreadsRefer, Refers, ReservedKey, MayGiveBack
  <2>3. Untyped(k)
    BY <2>2 DEF Keys, KeyFits
  <2> QED
    BY <1>3, <1>a, <2>1, <2>2, <2>3, MovesReleased DEF ReleaseAfter
<1> QED
  BY <1>1, <1>2, <1>3, <1>a DEF Run, Return, Hold, HoldRefused, StartEffect, StartFails, Attempt, FinishFails

LEMMA MovesStep ==
  ASSUME TypeOK, ThreadsRefer, Core, Play, Keys, OrphansFit, [Next]_vars
  PROVE  Moves
<1>0. \A k \in Key : receipts[k] \in Receipt
  BY DEF TypeOK
<1>a. ASSUME UNCHANGED <<receipts, told>> PROVE Moves
  BY <1>a, SameStill DEF Moves
<1>1. ASSUME NEW c \in Caller, Claim(c) PROVE Moves
  BY <1>1, MovesClaim
<1>2. ASSUME NEW c \in Caller, Decide(c) PROVE Moves
  BY <1>2, MovesDecide
<1>3. ASSUME NEW c \in Caller, Batch(c) PROVE Moves
  BY <1>3, <1>a DEF Batch, RecordBatch
<1>4. ASSUME NEW t \in Thread, Run(t) PROVE Moves
  BY <1>4, MovesRun
<1>5. ASSUME NEW h \in Handle, AdoptEffects(h) PROVE Moves
  <2>1. told' = told /\ \A k \in Key : receipts'[k] \in {receipts[k], [receipts[k] EXCEPT !.owner = h]}
    BY <1>5 DEF AdoptEffects, TypeOK
  <2>2. \A k \in Key : Still(k)
    BY <1>0, <2>1 DEF Still, Receipt
  <2> QED
    BY <2>2 DEF Moves
<1>6. ASSUME NEW h \in Handle, ExpireReceipts(h) PROVE Moves
  <2> DEFINE S == {k \in aged : receipts[k].state = "complete"}
  <2>1. told' = told /\ \A k \in Key :
          receipts'[k] = IF k \in S THEN [receipts[k] EXCEPT !.state = "expired", !.answer = None] ELSE receipts[k]
    BY <1>6 DEF ExpireReceipts
  <2>2. ASSUME NEW k \in Key PROVE Still(k)
    <3>1. CASE k \notin S
      <4> HIDE DEF S
      <4> QED
        BY <2>1, <3>1 DEF Still
    <3>2. CASE k \in S
      <4>1. receipts[k].state = "complete"
        BY <3>2
      <4> HIDE DEF S
      <4> QED
        BY <1>0, <2>1, <3>2, <4>1 DEF Still, Receipt
    <3> QED
      BY <3>1, <3>2
  <2> QED
    BY <2>2 DEF Moves
<1>7. ASSUME NEW h \in Handle, (\E i \in RowId : ReadUnattended(h, i)) \/ Boot(h) \/ PidFreed(h) \/ Crash(h) PROVE Moves
  BY <1>7, <1>a DEF ReadUnattended, Boot, PidFreed, Crash
<1>8. ASSUME NEW k \in Key, WindowPasses(k) PROVE Moves
  BY <1>8, <1>a DEF WindowPasses
<1>9. CASE UNCHANGED vars
  BY <1>9, <1>a DEF vars
<1> QED
  BY <1>1, <1>2, <1>3, <1>4, <1>5, <1>6, <1>7, <1>8, <1>9 DEF Next, Beat

(* Only by its claim does a goroutine become the one who files that nobody *)
(* knows.                                                                  *)
LEMMA OrphanThreads ==
  ASSUME TypeOK, [Next]_vars, NEW u \in Thread, thread'[u].pc = "orphaned"
  PROVE  \/ thread'[u] = thread[u]
         \/ thread'[u].key \in Key /\ receipts'[thread'[u].key].digest = thread'[u].digest
<1>0. \A t \in Thread : thread[t] \in Goroutine
  BY DEF TypeOK
<1>a. ASSUME NEW t, NEW g, thread' = [thread EXCEPT ![t] = g], g.pc # "orphaned" PROVE thread'[u] = thread[u]
  BY <1>a DEF TypeOK
<1>1. ASSUME NEW c \in Caller, Claim(c)
      PROVE  \/ thread'[u] = thread[u]
             \/ thread'[u].key \in Key /\ receipts'[thread'[u].key].digest = thread'[u].digest
  <2> PICK h \in Handle, k \in Key, d \in Digest :
        \/ ClaimNew(c, h, k, d) \/ ClaimReplay(c, h, k, d)
        \/ ClaimExpires(c, h, k, d) \/ ClaimOrphaned(c, h, k, d)
    BY <1>1 DEF Claim
  <2>1. CASE ClaimNew(c, h, k, d)
    <3>1. thread' = [thread EXCEPT ![c] = [Idle EXCEPT !.pc = "reserved", !.at = h, !.key = k, !.digest = d]]
      BY <2>1 DEF ClaimNew
    <3>2. [Idle EXCEPT !.pc = "reserved", !.at = h, !.key = k, !.digest = d].pc # "orphaned"
      BY DEF Idle
    <3> QED
      BY <1>a, <3>1, <3>2
  <2>2. CASE ClaimOrphaned(c, h, k, d)
    <3>1. receipts[k] \in Receipt /\ receipts[k].digest = d
      BY <2>2 DEF ClaimOrphaned, ClaimOutcome, TypeOK, Receipt
    <3>2. receipts'[k] = [receipts[k] EXCEPT !.owner = h]
      <4>1. receipts' = [receipts EXCEPT ![k] = [receipts[k] EXCEPT !.owner = h]]
        BY <2>2 DEF ClaimOrphaned
      <4> QED
        BY <4>1 DEF TypeOK
    <3>3. receipts'[k].digest = d
      BY <3>1, <3>2 DEF Receipt
    <3>4. u = c => thread'[u].key = k /\ thread'[u].digest = d
      BY <2>2 DEF ClaimOrphaned, TypeOK, Idle
    <3>5. u # c => thread'[u] = thread[u]
      BY <2>2 DEF ClaimOrphaned, TypeOK
    <3> QED
      BY <3>3, <3>4, <3>5
  <2> QED
    BY <2>1, <2>2 DEF ClaimReplay, ClaimExpires
<1>2. ASSUME NEW c \in Caller, Decide(c) \/ Batch(c) PROVE thread'[u] = thread[u]
  <2>1. CASE Leave(c)
    BY <1>a, <2>1 DEF Leave, Idle
  <2>2. ASSUME thread[c].pc = "reserved", Goto(c, "refusing") PROVE thread'[u] = thread[u]
    <3>1. thread' = [thread EXCEPT ![c] = [thread[c] EXCEPT !.pc = "refusing"]]
      BY <2>2 DEF Goto
    <3>2. c \in Thread => [thread[c] EXCEPT !.pc = "refusing"].pc # "orphaned"
      BY <1>0 DEF Goroutine
    <3> QED
      BY <1>a, <3>1, <3>2 DEF Thread
  <2>3. CASE RecordMessage(c)
    <3>1. thread' = [thread EXCEPT ![c] = [thread[c] EXCEPT !.pc = "next", !.todo = {lastId + 1}]]
      BY <2>3 DEF RecordMessage
    <3>2. c \in Thread => [thread[c] EXCEPT !.pc = "next", !.todo = {lastId + 1}].pc # "orphaned"
      BY <1>0 DEF Goroutine
    <3> QED
      BY <1>a, <3>1, <3>2 DEF Thread
  <2>4. CASE Batch(c)
    BY <1>a, <2>4 DEF Batch, RecordBatch, Idle, TypeOK
  <2> QED
    BY <1>2, <2>1, <2>2, <2>3, <2>4 DEF Decide, CompleteOrphan, CompleteOrphanFails, Refuse, GiveBack, GiveBackFails
<1>3. ASSUME NEW t \in Thread, Run(t) PROVE thread'[u] = thread[u]
  <2>1. CASE Leave(t)
    BY <1>a, <2>1 DEF Leave, Idle
  <2>2. CASE Unhold(t)
    BY <2>2, UnholdUnreserved DEF Unreserved
  <2>3. ASSUME NEW i \in RowId, thread[t].pc = "next", Drop(t, i) PROVE thread'[u] = thread[u]
    <3>1. thread' = [thread EXCEPT ![t] = [thread[t] EXCEPT !.todo = @ \ {i}]]
      BY <2>3 DEF Drop
    <3>2. [thread[t] EXCEPT !.todo = @ \ {i}].pc # "orphaned"
      BY <1>0, <2>3 DEF Goroutine
    <3> QED
      BY <1>a, <3>1, <3>2
  <2>4. ASSUME NEW i \in RowId, Hold(t, i) PROVE thread'[u] = thread[u]
    <3>1. thread' = [thread EXCEPT ![t] = [thread[t] EXCEPT !.pc = "holds", !.cur = i, !.todo = @ \ {i}]]
      BY <2>4 DEF Hold
    <3>2. [thread[t] EXCEPT !.pc = "holds", !.cur = i, !.todo = @ \ {i}].pc # "orphaned"
      BY <1>0 DEF Goroutine
    <3> QED
      BY <1>a, <3>1, <3>2
  <2>5. ASSUME NEW pc \in {"started", "releasing"}, Goto(t, pc) PROVE thread'[u] = thread[u]
    <3>1. thread' = [thread EXCEPT ![t] = [thread[t] EXCEPT !.pc = pc]]
      BY <2>5 DEF Goto
    <3>2. [thread[t] EXCEPT !.pc = pc].pc # "orphaned"
      BY <1>0 DEF Goroutine
    <3> QED
      BY <1>a, <3>1, <3>2
  <2>6. ASSUME NEW res, Took(t, res) PROVE thread'[u] = thread[u]
    <3>1. thread' = [thread EXCEPT ![t] = [thread[t] EXCEPT !.pc = "ended", !.res = res]]
      BY <2>6 DEF Took
    <3>2. [thread[t] EXCEPT !.pc = "ended", !.res = res].pc # "orphaned"
      BY <1>0 DEF Goroutine
    <3> QED
      BY <1>a, <3>1, <3>2
  <2> QED
    BY <1>3, <2>1, <2>2, <2>3, <2>4, <2>5, <2>6
       DEF Run, Return, SettleUnknown, HoldRefused, TurnsTo, StartEffect, StartFails, Attempt,
           Finish, FinishFails, ReleaseAfter
<1>4. ASSUME NEW h \in Handle, Beat(h) PROVE thread'[u] = thread[u]
  BY <1>4 DEF Beat, AdoptEffects, ReadUnattended, TypeOK, Idle
<1>5. ASSUME NEW h \in Handle, Crash(h) PROVE thread'[u] = thread[u]
  BY <1>5 DEF Crash, Idle
<1>6. ASSUME NEW h \in Handle, ExpireReceipts(h) \/ Boot(h) \/ PidFreed(h) PROVE thread'[u] = thread[u]
  BY <1>6 DEF ExpireReceipts, Boot, PidFreed
<1>7. ASSUME NEW k \in Key, WindowPasses(k) PROVE thread'[u] = thread[u]
  BY <1>7 DEF WindowPasses
<1>8. CASE UNCHANGED vars
  BY <1>8 DEF vars
<1> QED
  BY <1>1, <1>2, <1>3, <1>4, <1>5, <1>6, <1>7, <1>8 DEF Next

(* A pending receipt keeps its digest, whoever answers it. *)
LEMMA OrphansStep ==
  ASSUME TypeOK, ThreadsRefer, Core, Core', Moves, OrphansFit, [Next]_vars
  PROVE  OrphansFit'
<1> SUFFICES ASSUME NEW u \in Thread, thread'[u].pc = "orphaned", thread'[u] = thread[u]
             PROVE  receipts'[thread[u].key].digest = thread[u].digest
  BY OrphanThreads DEF OrphansFit
<1> PICK k : k = thread[u].key
  OBVIOUS
<1>1. k \in Key /\ k # None /\ ReservedKey(u) = k /\ ReservedKey(u)' = k
  BY Consts DEF ThreadsRefer, Refers, ReservedKey
<1>2. receipts[k].state = "pending" /\ receipts'[k].state = "pending"
  BY <1>1 DEF Core, ReservationsHeld
<1>3. receipts'[k].digest = receipts[k].digest
  BY <1>1, <1>2 DEF Moves, Still, Freed, Taken, Replays, Files, NoReceipt
<1> QED
  BY <1>3 DEF OrphansFit

(* Only an attempt at an effect changes what was typed. *)
LEMMA OnlyAttemptsType ==
  ASSUME [Next]_vars
  PROVE  typed' = typed \/ \E t \in Thread : Attempt(t)
<1>3. ASSUME NEW c \in Caller, Claim(c) \/ Decide(c) \/ Batch(c) PROVE typed' = typed
  <2>1. CASE Claim(c)
    BY <2>1 DEF Claim, ClaimNew, ClaimReplay, ClaimExpires, ClaimOrphaned
  <2>2. CASE Decide(c)
    BY <2>2 DEF Decide, CompleteOrphan, CompleteOrphanFails, Refuse, GiveBack, GiveBackFails, RecordMessage
  <2>3. CASE Batch(c)
    BY <2>3 DEF Batch, RecordBatch
  <2> QED
    BY <1>3, <2>1, <2>2, <2>3
<1>4. ASSUME NEW t \in Thread, Run(t), ~Attempt(t) PROVE typed' = typed
  BY <1>4 DEF Run, Return, SettleUnknown, Hold, HoldRefused, StartEffect, StartFails, Finish, FinishFails, ReleaseAfter
<1>5. ASSUME NEW h \in Handle, Beat(h) \/ ExpireReceipts(h) \/ Boot(h) \/ Crash(h) \/ PidFreed(h) PROVE typed' = typed
  BY <1>5 DEF Beat, AdoptEffects, ReadUnattended, ExpireReceipts, Boot, Crash, PidFreed
<1>6. ASSUME NEW k \in Key, WindowPasses(k) PROVE typed' = typed
  BY <1>6 DEF WindowPasses
<1> QED
  BY <1>3, <1>4, <1>5, <1>6 DEF Next, vars

(* What was typed stays typed, once, under its key and for its request. *)
LEMMA TypedGrows ==
  ASSUME TypeOK, [Next]_vars
  PROVE  \A i \in RowId : typed'[i] \in Nat /\ typed[i] \in Nat /\ typed'[i] >= typed[i]
<1>0. \A i \in RowId : typed[i] \in Nat
  BY DEF TypeOK
<1>1. CASE typed' = typed
  BY <1>0, <1>1
<1>2. ASSUME NEW t \in Thread, Attempt(t) PROVE \A i \in RowId : typed'[i] \in {typed[i], typed[i] + 1}
  BY <1>2 DEF Attempt, TypeOK
<1> QED
  BY <1>0, <1>1, <1>2, OnlyAttemptsType

LEMMA TypedForStays ==
  ASSUME TypeOK, RowsKept, Play, Play', [Next]_vars, NEW k \in Key, NEW d, TypedFor(k, d)
  PROVE  TypedFor(k, d)'
<1> PICK i \in RowsOf(k) : outbox[i].digest = d /\ typed[i] = 1
  BY DEF TypedFor
<1>1. i \in RowId /\ outbox[i].receipt = k
  BY DEF RowsOf
<1>2. i \in 1 .. lastId
  BY <1>1, RowRange DEF Play, RowFits, RowId
<1>3. outbox'[i].receipt = k /\ outbox'[i].digest = d
  BY <1>1, <1>2 DEF RowsKept
<1>4. IsMessage(i)' /\ RowFits(i)'
  BY <1>1, <1>3, Consts DEF IsMessage, Play
<1>5. typed'[i] = 1
  BY <1>1, <1>4, TypedGrows DEF RowFits
<1>6. i \in RowsOf(k)'
  BY <1>1, <1>3 DEF RowsOf
<1> QED
  BY <1>3, <1>5, <1>6 DEF TypedFor

LEMMA AnswersStep ==
  ASSUME TypeOK, RowsKept, Play, Play', Moves, Answers, [Next]_vars
  PROVE  Answers'
<1> SUFFICES ASSUME NEW k \in Key PROVE AnswerFits(k)'
  BY DEF Answers
<1>0. AnswerFits(k) /\ receipts[k] \in Receipt
  BY DEF Answers, TypeOK
<1>1. \A d : TypedFor(k, d) => TypedFor(k, d)'
  BY TypedForStays
<1>2. CASE Still(k)
  BY <1>0, <1>1, <1>2 DEF Still, AnswerFits
<1>3. CASE Freed(k)
  BY <1>0, <1>3 DEF Freed, AnswerFits, NoReceipt
<1>4. CASE Taken(k)
  BY <1>0, <1>4, Consts DEF Taken, AnswerFits
<1>5. CASE Replays(k)
  BY <1>0, <1>1, <1>5 DEF Replays, AnswerFits
<1>6. ASSUME NEW a \in Answer, Files(k, a) PROVE AnswerFits(k)'
  BY <1>0, <1>1, <1>6 DEF Files, AnswerFits
<1> QED
  BY <1>2, <1>3, <1>4, <1>5, <1>6 DEF Moves

-----------------------------------------------------------------------------
(* The invariant, and what the design promises.                            *)

OnceInv == IInv /\ Play /\ Keys /\ Answers /\ OrphansFit

LEMMA InitOnceInv == Init => OnceInv
<1> SUFFICES ASSUME Init PROVE OnceInv
  OBVIOUS
<1>1. IInv
  BY InitIInv
<1>2. /\ \A u \in Thread : thread[u] = Idle
      /\ \A i \in RowId : outbox[i] = NoRow /\ typed[i] = 0
      /\ \A k \in Key : receipts[k] = NoReceipt /\ told[k] = {}
  BY DEF Init
<1>3. /\ Idle.pc = "idle" /\ Idle.todo = {} /\ Idle.cur = 0
      /\ NoRow.receipt = None
      /\ NoReceipt.state = "none" /\ NoReceipt.digest = None
  BY DEF Idle, NoRow, NoReceipt
<1>4. \A u \in Thread : InPlay(u) = {}
  BY <1>2, <1>3 DEF InPlay
<1>5. Play
  <2>1. \A u \in Thread : Works(u)
    BY <1>2, <1>3, <1>4 DEF Works
  <2>2. Apart
    BY <1>2, <1>3, <1>4, RowRange, <1>1 DEF Apart, IInv
  <2>3. \A i \in RowId : RowFits(i)
    BY <1>2, <1>3 DEF RowFits, IsMessage
  <2> QED
    BY <2>1, <2>2, <2>3 DEF Play
<1>6. Keys
  BY <1>2, <1>3, Consts DEF Keys, KeyFits, Untyped, RowsOf
<1>7. Answers
  BY <1>2, <1>3 DEF Answers, AnswerFits
<1>8. OrphansFit
  BY <1>2, <1>3 DEF OrphansFit
<1> QED
  BY <1>1, <1>5, <1>6, <1>7, <1>8 DEF OnceInv

LEMMA NextOnceInv == OnceInv /\ [Next]_vars => OnceInv'
<1> SUFFICES ASSUME OnceInv, [Next]_vars PROVE OnceInv'
  OBVIOUS
<1>1. /\ TypeOK /\ ThreadsLive /\ ThreadsRefer /\ FreshRows /\ Core
      /\ Play /\ Keys /\ Answers /\ OrphansFit
  BY DEF OnceInv, IInv, Core
<1>2. IInv'
  BY NextIInv DEF OnceInv
<1>3. Core' /\ RowsKept
  BY <1>1, CoreStep, RowsStep
<1>4. Play'
  BY <1>1, PlayStepped
<1>5. Keys'
  BY <1>1, KeysStepped
<1>6. Moves
  BY <1>1, MovesStep
<1>7. Answers'
  BY <1>1, <1>3, <1>4, <1>6, AnswersStep
<1>8. OrphansFit'
  BY <1>1, <1>3, <1>6, OrphansStep
<1> QED
  BY <1>2, <1>4, <1>5, <1>7, <1>8 DEF OnceInv

(* Every step of the store, the broker and their crashes keeps it. *)
THEOREM OnceInductive == Spec => []OnceInv
BY InitOnceInv, NextOnceInv, PTL DEF Spec

(* Whatever claims, beats of any number of daemons, crashes, failing       *)
(* writes and resends come together, one Idempotency-Key's message is      *)
(* typed at most once: no two rows of a key are typed, and none twice.     *)
THEOREM TypedOnce == Spec => []MessageTypedOnce
<1>1. OnceInv => MessageTypedOnce
  <2> SUFFICES ASSUME OnceInv, NEW k \in Key, NEW i \in RowId, NEW j \in RowId,
                      {i, j} \subseteq RowsOf(k), typed[i] > 0, typed[j] > 0
               PROVE  i = j /\ typed[i] = 1
    BY DEF MessageTypedOnce
  <2>1. i = j
    BY DEF OnceInv, Keys, KeyFits
  <2>2. outbox[i].receipt = k /\ IsMessage(i)
    BY Consts DEF RowsOf, IsMessage
  <2>3. typed[i] \in 0 .. 2 /\ typed[i] <= 1
    BY <2>2 DEF OnceInv, Play, RowFits, IInv, TypeOK
  <2> QED
    BY <2>1, <2>3
<1> QED
  BY <1>1, OnceInductive, PTL

(* ReleaseReceipt gives a key back for a fresh attempt, after a refusal by *)
(* a check or by the terminal, only if nothing was ever typed under it.    *)
THEOREM GivenBackClean == Spec => []GivenBackUntyped
<1>1. OnceInv => GivenBackUntyped
  BY DEF OnceInv, Keys, KeyFits, Untyped, GivenBackUntyped
<1> QED
  BY <1>1, OnceInductive, PTL

(* The sender, its resends and the receipt agree on one final answer per   *)
(* key and request, whichever of request, beat and next daemon filed it,   *)
(* and "delivered" is told of a typed line only.                           *)
THEOREM AnswersAgree == Spec => []FinalAnswersAgree
<1>1. OnceInv => FinalAnswersAgree
  BY DEF OnceInv, Answers, AnswerFits, TypedFor, FinalAnswersAgree
<1> QED
  BY <1>1, OnceInductive, PTL

-----------------------------------------------------------------------------
(* The outbox implements OnceOnly.                                         *)

(* No answer is filed under a key before its receipt is complete. *)
FiledFits ==
  /\ filed = [k \in Key |-> filed[k]]
  /\ \A k \in Key : receipts[k].state \in {"none", "pending"} => filed[k] = "none"

LEMMA FiledStep ==
  ASSUME Moves, FiledFits, FiledNext
  PROVE  FiledFits'
<1>1. filed' = [k \in Key |-> filed'[k]]
  BY DEF FiledNext
<1>2. ASSUME NEW k \in Key, receipts'[k].state \in {"none", "pending"} PROVE filed'[k] = "none"
  <2>1. receipts[k].state \in {"none", "pending"}
    BY <1>2 DEF Moves, Still, Freed, Taken, Replays, Files
  <2> QED
    BY <1>2, <2>1 DEF FiledNext, FiledFits
<1> QED
  BY <1>1, <1>2 DEF FiledFits

(* Who typed nothing sent nothing. *)
LEMMA SentSame == ASSUME TypeOK, RowsKept, Play, typed' = typed PROVE Sent' = Sent
<1>1. ASSUME NEW i \in RowId, typed[i] > 0 PROVE outbox'[i].receipt = outbox[i].receipt
  BY <1>1, RowRange DEF Play, RowFits, RowsKept, RowId
<1>2. \A k \in Key : (\E i \in RowsOf(k) : typed[i] > 0) <=> (\E i \in RowsOf(k)' : typed'[i] > 0)
  BY <1>1 DEF RowsOf
<1> QED
  BY <1>2 DEF Sent

(* An attempt sends the line of a key that is asked for and unsent, if any. *)
LEMMA SentAttempt ==
  ASSUME TypeOK, ThreadsRefer, Core, Play, Keys, NEW t \in Thread, Attempt(t)
  PROVE  \/ Sent' = Sent
         \/ \E k \in Key : k \notin Sent /\ Sent' = Sent \cup {k} /\ receipts[k].state = "pending"
<1> PICK i : i = thread[t].cur
  OBVIOUS
<1>0. thread[t].pc = "started" /\ UNCHANGED <<outbox, receipts>>
  BY DEF Attempt
<1>1. i \in RowId /\ i # 0 /\ Works(t) /\ outbox[i] \in Row /\ typed[i] \in Nat
  BY <1>0, RowRange DEF ThreadsRefer, Refers, Play, TypeOK
<1>2. \A j \in RowId \ {i} : typed'[j] = typed[j]
  BY DEF Attempt, TypeOK
<1>3. \A k \in Key : RowsOf(k)' = RowsOf(k)
  BY <1>0 DEF RowsOf
<1>4. CASE typed' = typed
  BY <1>3, <1>4 DEF Sent
<1>5. CASE typed' # typed /\ ~IsMessage(i)
  <2>1. \A k \in Key : \A j \in RowsOf(k) : typed'[j] = typed[j]
    BY <1>2, <1>5, Consts DEF RowsOf, IsMessage
  <2> QED
    BY <1>3, <2>1 DEF Sent
<1>6. CASE typed' # typed /\ IsMessage(i)
  <2>1. typed'[i] = typed[i] + 1
    BY <1>1, <1>6 DEF Attempt, TypeOK
  <2> PICK k : k = outbox[i].receipt
    OBVIOUS
  <2>2. k \in Key /\ i \in RowsOf(k) /\ \A l \in Key \ {k} : i \notin RowsOf(l)
    BY <1>1, <1>6 DEF RowsOf, Row, IsMessage
  <2>3. OpenRow(i) /\ typed[i] = 0
    BY <1>0, <1>1, <1>6 DEF Works, Has, OpenRow, Open
  <2>4. \A j \in RowsOf(k) : typed[j] = 0
    BY <2>2, <2>3 DEF Keys, KeyFits
  <2>5. k \notin Sent
    BY <2>4 DEF Sent
  <2>6. receipts[k].state = "pending"
    BY <1>1, <1>6, <2>3 DEF Core, OpenEffectOwnsReceipt, IsMessage
  <2>7. k \in Sent'
    <3>1. i \in RowsOf(k)' /\ typed'[i] > 0
      BY <1>1, <1>3, <2>1, <2>2
    <3> QED
      BY <2>2, <3>1 DEF Sent
  <2>8. \A l \in Key \ {k} : l \in Sent' <=> l \in Sent
    <3>1. \A l \in Key \ {k} : \A j \in RowsOf(l) : typed'[j] = typed[j]
      BY <1>2, <2>2 DEF RowsOf
    <3> QED
      BY <1>3, <3>1 DEF Sent
  <2>9. Sent' \subseteq Key /\ Sent \subseteq Key
    BY DEF Sent
  <2>10. Sent' = Sent \cup {k}
    BY <2>2, <2>7, <2>8, <2>9
  <2> QED
    BY <2>2, <2>5, <2>6, <2>10
<1> QED
  BY <1>4, <1>5, <1>6

LEMMA SentStep ==
  ASSUME TypeOK, RowsKept, ThreadsRefer, Core, Play, Keys, [Next]_vars
  PROVE  \/ typed' = typed /\ Sent' = Sent
         \/ UNCHANGED <<receipts, told>> /\ Sent' = Sent
         \/ /\ UNCHANGED <<receipts, told>>
            /\ \E k \in Key : k \notin Sent /\ Sent' = Sent \cup {k} /\ receipts[k].state = "pending"
<1>1. CASE typed' = typed
  BY <1>1, SentSame
<1>2. ASSUME NEW t \in Thread, Attempt(t)
      PROVE  /\ UNCHANGED <<receipts, told>>
             /\ \/ Sent' = Sent
                \/ \E k \in Key : k \notin Sent /\ Sent' = Sent \cup {k} /\ receipts[k].state = "pending"
  <2>1. UNCHANGED <<receipts, told>>
    BY <1>2 DEF Attempt
  <2> QED
    BY <1>2, <2>1, SentAttempt
<1> QED
  BY <1>1, <1>2, OnlyAttemptsType

(* Every step of the store and its broker is a step of OnceOnly, or none.  *)
LEMMA PromiseStep ==
  ASSUME OnceInv, FiledFits, [Next]_vars, FiledNext
  PROVE  [Promise!Next]_<<Asked, Sent, filed>>
<1>1. /\ TypeOK /\ ThreadsLive /\ ThreadsRefer /\ FreshRows /\ Core
      /\ Play /\ Keys /\ Answers /\ OrphansFit
  BY DEF OnceInv, IInv, Core
<1>2. RowsKept /\ Moves
  BY <1>1, RowsStep, MovesStep
<1>3. /\ \A k \in Key : Asked[k] = receipts[k].digest /\ Asked'[k] = receipts'[k].digest
      /\ Asked = [k \in Key |-> Asked[k]] /\ Asked' = [k \in Key |-> Asked'[k]]
  BY DEF Asked
<1>4. \A k \in Key : receipts[k].state = "none" <=> Asked[k] = None
  BY <1>1, <1>3 DEF Answers, AnswerFits
<1>5. /\ filed = [k \in Key |-> filed[k]] /\ filed' = [k \in Key |-> filed'[k]]
      /\ \A k \in Key : receipts[k].state \in {"none", "pending"} => filed[k] = "none"
  BY DEF FiledFits, FiledNext
<1>6. \A k \in Key : ~(receipts[k].state = "pending" /\ receipts'[k].state = "complete") => filed'[k] = filed[k]
  BY DEF FiledNext
<1>7. ASSUME NEW k \in Key, Still(k) PROVE Asked'[k] = Asked[k] /\ filed'[k] = filed[k]
  BY <1>3, <1>6, <1>7 DEF Still
<1>8. CASE \A k \in Key : Still(k)
  <2>1. Asked' = Asked /\ filed' = filed
    BY <1>3, <1>5, <1>7, <1>8
  <2>2. CASE Sent' = Sent
    BY <2>1, <2>2
  <2>3. ASSUME NEW k \in Key, k \notin Sent, Sent' = Sent \cup {k}, receipts[k].state = "pending"
        PROVE  Promise!Next
    <3>1. Promise!Send(k)
      BY <1>4, <1>5, <2>1, <2>3 DEF Promise!Send
    <3> QED
      BY <3>1 DEF Promise!Next
  <2> QED
    BY <1>1, <1>2, <2>2, <2>3, SentStep
<1>9. ASSUME typed' = typed, NEW k \in Key, \A l \in Key \ {k} : Still(l),
             Freed(k) \/ Taken(k) \/ Replays(k) \/ \E a \in Answer : Files(k, a)
      PROVE  [Promise!Next]_<<Asked, Sent, filed>>
  <2>1. Sent' = Sent
    BY <1>1, <1>2, <1>9, SentSame
  <2>2. \A l \in Key \ {k} : Asked'[l] = Asked[l] /\ filed'[l] = filed[l]
    BY <1>7, <1>9
  <2>3. Asked' = [Asked EXCEPT ![k] = Asked'[k]] /\ filed' = [filed EXCEPT ![k] = filed'[k]]
    BY <1>3, <1>5, <2>2
  <2>4. CASE Freed(k)
    <3>1. Asked'[k] = None /\ Asked[k] # None /\ filed[k] = "none"
      BY <1>3, <1>4, <1>5, <2>4 DEF Freed, NoReceipt
    <3>2. filed' = filed
      BY <1>3, <1>5, <1>6, <2>2, <2>4 DEF Freed, NoReceipt
    <3>3. k \notin Sent
      BY <2>4 DEF Freed, Untyped, Sent
    <3>4. Promise!GiveBack(k)
      BY <2>1, <2>3, <3>1, <3>2, <3>3 DEF Promise!GiveBack
    <3> QED
      BY <3>4 DEF Promise!Next
  <2>5. CASE Taken(k)
    <3>1. Asked'[k] \in Digest /\ Asked[k] = None
      BY <1>3, <1>4, <2>5 DEF Taken
    <3>2. filed' = filed
      BY <1>5, <1>6, <2>2, <2>5 DEF Taken
    <3>3. Promise!Admit(k, Asked'[k])
      BY <2>1, <2>3, <3>1, <3>2 DEF Promise!Admit
    <3> QED
      BY <3>1, <3>3 DEF Promise!Next
  <2>6. CASE Replays(k)
    <3>1. Asked'[k] = Asked[k] /\ filed'[k] = filed[k]
      BY <1>3, <1>6, <2>6 DEF Replays
    <3> QED
      BY <1>3, <1>5, <2>1, <2>2, <3>1
  <2>7. ASSUME NEW a \in Answer, Files(k, a) PROVE Promise!Next
    <3>1. Asked'[k] = Asked[k] /\ Asked[k] # None /\ filed[k] = "none" /\ filed'[k] = a
      BY <1>3, <1>4, <1>5, <2>7 DEF Files, FiledNext
    <3>2. Asked' = Asked
      BY <1>3, <2>2, <3>1
    <3>3. a = "delivered" => k \in Sent
      <4>1. ASSUME NEW d, TypedFor(k, d) PROVE k \in Sent
        BY <4>1 DEF TypedFor, Sent
      <4> QED
        BY <2>7, <4>1 DEF Files
    <3>4. Promise!AnswerWith(k, a)
      BY <2>1, <2>3, <3>1, <3>2, <3>3 DEF Promise!AnswerWith
    <3> QED
      BY <3>4 DEF Promise!Next, Promise!Answers, Answer
  <2> QED
    BY <1>9, <2>4, <2>5, <2>6, <2>7
<1> QED
  BY <1>2, <1>8, <1>9 DEF Moves

(* The store, its receipts and the broker, with their crashes, overlapping *)
(* daemons and failing writes, implement what an Idempotency-Key promises  *)
(* (OnceOnly): its line is sent at most once, and it is either given back  *)
(* unsent or answered once, "delivered" only for a line that was sent.     *)
THEOREM ImplementsOnceOnly == SpecFiled => PromiseKept
<1>1. Init /\ FiledInit => OnceInv /\ FiledFits
  BY InitOnceInv DEF FiledInit, FiledFits
<1>2. OnceInv /\ FiledFits /\ [Next /\ FiledNext]_<<vars, filed>> => (OnceInv /\ FiledFits)'
  <2> SUFFICES ASSUME OnceInv, FiledFits, [Next /\ FiledNext]_<<vars, filed>>
               PROVE  OnceInv' /\ FiledFits'
    OBVIOUS
  <2>1. [Next]_vars
    OBVIOUS
  <2>2. CASE Next /\ FiledNext
    <3>1. Moves
      BY <2>1, MovesStep DEF OnceInv, IInv, Core
    <3> QED
      BY <2>1, <2>2, <3>1, NextOnceInv, FiledStep
  <2>3. CASE UNCHANGED <<vars, filed>>
    <3>1. FiledFits'
      BY <2>3 DEF vars, FiledFits
    <3> QED
      BY <2>1, <3>1, NextOnceInv
  <2> QED
    BY <2>2, <2>3
<1>3. Init /\ FiledInit => Promise!Init
  <2> SUFFICES ASSUME Init, FiledInit PROVE Promise!Init
    OBVIOUS
  <2>1. Asked = [k \in Key |-> None]
    BY DEF Init, Asked, NoReceipt
  <2>2. Sent = {}
    BY DEF Init, Sent, RowsOf
  <2> QED
    BY <2>1, <2>2 DEF Promise!Init, FiledInit
<1>4. OnceInv /\ FiledFits /\ [Next /\ FiledNext]_<<vars, filed>> => [Promise!Next]_<<Asked, Sent, filed>>
  <2> SUFFICES ASSUME OnceInv, FiledFits, [Next /\ FiledNext]_<<vars, filed>>
               PROVE  [Promise!Next]_<<Asked, Sent, filed>>
    OBVIOUS
  <2>1. CASE Next /\ FiledNext
    BY <2>1, PromiseStep
  <2>2. CASE UNCHANGED <<vars, filed>>
    BY <2>2 DEF vars, Asked, Sent, RowsOf
  <2> QED
    BY <2>1, <2>2
<1> QED
  BY <1>1, <1>2, <1>3, <1>4, PTL DEF SpecFiled, PromiseKept, Promise!Spec


-----------------------------------------------------------------------------
(* As long as every write succeeds, whatever cannot find out whether it    *)
(* happened takes place at most once, in a commit of several as well.      *)

(* Row i waits for u, whose snapshot of the table said it was started. *)
Begun(u, i) == i \in thread[u].todo \cap thread[u].begun

(* u is between the start of row i and its end. *)
Busy(u, i) == thread[u].cur = i /\ thread[u].pc \in {"started", "ended"}

Ended(h) == h \in Handle => life[h] \in {"dead", "gone"}

(* How far row i is when u has it in hand. *)
Hand(u, i) ==
  thread[u].cur = i =>
    /\ thread[u].pc = "holds" => outbox[i].state # "started"
    /\ thread[u].pc = "started" => outbox[i].state = "started" /\ typed[i] = 0
    /\ thread[u].pc = "ended" => outbox[i].state = "started"

(* A started row is somebody's at work, or somebody's to close, or its     *)
(* daemon has ended; and a row to be closed is nobody else's.              *)
Single(i) ==
  /\ typed[i] <= 1
  /\ outbox[i].state = "pending" => typed[i] = 0
  /\ \A u \in Thread : Hand(u, i)
  /\ outbox[i].state = "started" =>
       Ended(outbox[i].owner) \/ \E u \in Thread : Busy(u, i) \/ Begun(u, i)
  /\ \A u \in Thread : Begun(u, i) => \A v \in Thread \ {u} : i \notin InPlay(v)

Singly ==
  /\ \A c \in Caller : thread[c].begun = {}
  /\ faults = 0 => \A i \in RowId : outbox[i].kind \notin Idempotent => Single(i)

(* u is to row i what it was before. *)
Alike(u, i) ==
  /\ thread'[u].cur = i <=> thread[u].cur = i
  /\ thread[u].cur = i => thread'[u].pc = thread[u].pc
  /\ i \in thread'[u].todo <=> i \in thread[u].todo
  /\ i \in thread[u].todo => (i \in thread'[u].begun <=> i \in thread[u].begun)

LEMMA AlikeAll ==
  ASSUME NEW u, NEW i \in RowId, Alike(u, i)
  PROVE  /\ Busy(u, i)' <=> Busy(u, i)
         /\ Begun(u, i)' <=> Begun(u, i)
         /\ i \in InPlay(u)' <=> i \in InPlay(u)
<1>1. i # 0
  BY Consts DEF RowId
<1>2. Busy(u, i)' <=> Busy(u, i)
  BY DEF Alike, Busy
<1>3. Begun(u, i)' <=> Begun(u, i)
  BY DEF Alike, Begun
<1>4. i \in InPlay(u)' <=> i \in InPlay(u)
  BY <1>1 DEF Alike, InPlay
<1> QED
  BY <1>2, <1>3, <1>4

LEMMA AlikeSame ==
  ASSUME NEW u, NEW i \in RowId,
         thread'[u] = thread[u] \/ (i \notin InPlay(u) /\ i \notin InPlay(u)')
  PROVE  Alike(u, i)
<1>1. i # 0
  BY Consts DEF RowId
<1> QED
  BY <1>1 DEF Alike, InPlay

(* Goroutine t makes a step; to row i the others are what they were. *)
LEMMA SingleStep ==
  ASSUME NEW i \in RowId, Single(i), NEW t \in Thread,
         \A u \in Thread \ {t} : Alike(u, i),
         typed'[i] <= 1, outbox'[i].state = "pending" => typed'[i] = 0,
         Hand(t, i)',
         \A u \in Thread \ {t} : thread[u].cur = i =>
           outbox'[i].state = outbox[i].state /\ typed'[i] = typed[i],
         outbox'[i].state = "started" =>
           \/ Ended(outbox[i].owner)' \/ Busy(t, i)' \/ Begun(t, i)'
           \/ /\ outbox[i].state = "started" /\ outbox'[i].owner = outbox[i].owner
              /\ life' = life /\ ~Busy(t, i) /\ ~Begun(t, i),
         Begun(t, i)' => \A v \in Thread \ {t} : i \notin InPlay(v),
         i \in InPlay(t)' => \A u \in Thread \ {t} : ~Begun(u, i)
  PROVE  Single(i)'
<1>1. \A u \in Thread \ {t} : /\ Busy(u, i)' <=> Busy(u, i)
                              /\ Begun(u, i)' <=> Begun(u, i)
                              /\ i \in InPlay(u)' <=> i \in InPlay(u)
  BY AlikeAll
<1>2. ASSUME NEW u \in Thread PROVE Hand(u, i)'
  BY DEF Single, Hand, Alike
<1>3. ASSUME outbox'[i].state = "started"
      PROVE  Ended(outbox[i].owner)' \/ \E u \in Thread : Busy(u, i)' \/ Begun(u, i)'
  <2>1. CASE Ended(outbox[i].owner)' \/ Busy(t, i)' \/ Begun(t, i)'
    BY <2>1
  <2>2. CASE /\ outbox[i].state = "started" /\ outbox'[i].owner = outbox[i].owner
             /\ life' = life /\ ~Busy(t, i) /\ ~Begun(t, i)
    <3>1. CASE Ended(outbox[i].owner)
      BY <2>2, <3>1 DEF Ended
    <3>2. CASE \E u \in Thread : Busy(u, i) \/ Begun(u, i)
      BY <1>1, <2>2, <3>2
    <3> QED
      BY <2>2, <3>1, <3>2 DEF Single
  <2> QED
    BY <1>3, <2>1, <2>2
<1>4. ASSUME NEW u \in Thread, Begun(u, i)', NEW v \in Thread \ {u} PROVE i \notin InPlay(v)'
  <2>1. CASE u = t
    BY <1>1, <1>4, <2>1
  <2>2. CASE u # t /\ v = t
    BY <1>1, <1>4, <2>2
  <2>3. CASE u # t /\ v # t
    BY <1>1, <1>4, <2>3 DEF Single
  <2> QED
    BY <2>1, <2>2, <2>3
<1> QED
  BY <1>2, <1>3, <1>4 DEF Single

(* Nobody's part in row i changes, nor does the row. *)
LEMMA SingleStays ==
  ASSUME NEW i \in RowId, Single(i), \A u \in Thread : Alike(u, i),
         outbox'[i] = outbox[i], typed'[i] = typed[i],
         Ended(outbox[i].owner) => Ended(outbox[i].owner)'
  PROVE  Single(i)'
<1>1. \A u \in Thread : /\ Busy(u, i)' <=> Busy(u, i)
                        /\ Begun(u, i)' <=> Begun(u, i)
                        /\ i \in InPlay(u)' <=> i \in InPlay(u)
  BY AlikeAll
<1>2. \A u \in Thread : Hand(u, i)'
  BY DEF Single, Hand, Alike
<1>3. outbox[i].state = "started" =>
        Ended(outbox[i].owner)' \/ \E u \in Thread : Busy(u, i)' \/ Begun(u, i)'
  BY <1>1 DEF Single
<1> QED
  BY <1>1, <1>2, <1>3 DEF Single


(* Only the row at hand is written. *)
LEMMA RunWrites ==
  ASSUME TypeOK, NEW t \in Thread, Run(t), NEW i \in RowId
  PROVE  /\ outbox'[i].kind = outbox[i].kind /\ outbox'[i].owner = outbox[i].owner
         /\ i # thread[t].cur /\ ~TurnsTo(t, i) => outbox'[i] = outbox[i] /\ typed'[i] = typed[i]
         /\ life' = life /\ \A u \in Thread \ {t} : thread'[u] = thread[u]
<1>0. outbox[i] \in Row
  BY DEF TypeOK
<1>a. ASSUME NEW j, NEW s, outbox' = [outbox EXCEPT ![j].state = s]
      PROVE  /\ outbox'[i].kind = outbox[i].kind /\ outbox'[i].owner = outbox[i].owner
             /\ i # j => outbox'[i] = outbox[i]
  <2>1. outbox'[i] = IF i = j THEN [outbox[i] EXCEPT !.state = s] ELSE outbox[i]
    BY <1>a DEF TypeOK
  <2> QED
    BY <1>0, <2>1 DEF Row
<1>b. ASSUME NEW g, thread' = [thread EXCEPT ![t] = g]
      PROVE  \A u \in Thread \ {t} : thread'[u] = thread[u]
  BY <1>b DEF TypeOK
<1>1. CASE Return(t) \/ StartFails(t) \/ FinishFails(t) \/ ReleaseAfter(t)
           \/ \E j \in RowId : HoldRefused(t, j) \/ Hold(t, j)
  BY <1>1, <1>b DEF Return, Leave, StartFails, FinishFails, ReleaseAfter, HoldRefused, Hold, Drop, Unhold
<1>2. ASSUME NEW j \in RowId, SettleUnknown(t, j)
      PROVE  /\ outbox'[i].kind = outbox[i].kind /\ outbox'[i].owner = outbox[i].owner
             /\ i # thread[t].cur /\ ~TurnsTo(t, i) => outbox'[i] = outbox[i] /\ typed'[i] = typed[i]
             /\ life' = life /\ \A u \in Thread \ {t} : thread'[u] = thread[u]
  <2>1. outbox' = outbox \/ outbox' = [outbox EXCEPT ![j].state = "unknown"]
    BY <1>2 DEF SettleUnknown, FinishEffect
  <2>2. TurnsTo(t, j) /\ Drop(t, j) /\ UNCHANGED <<typed, life>>
    BY <1>2 DEF SettleUnknown
  <2> QED
    BY <1>a, <1>b, <2>1, <2>2 DEF Drop
<1>3. CASE StartEffect(t)
  <2>1. /\ outbox' = [outbox EXCEPT ![thread[t].cur].state = "started"]
        /\ Goto(t, "started") /\ UNCHANGED <<typed, life>>
    BY <1>3 DEF StartEffect
  <2> QED
    BY <1>a, <1>b, <2>1 DEF Goto
<1>4. CASE Attempt(t)
  <2>1. outbox' = outbox /\ life' = life /\ \E res : Took(t, res)
    BY <1>4 DEF Attempt
  <2>2. i # thread[t].cur => typed'[i] = typed[i]
    BY <1>4 DEF Attempt, TypeOK
  <2> QED
    BY <1>b, <2>1, <2>2 DEF Took
<1>5. CASE Finish(t)
  <2>1. /\ outbox' = [outbox EXCEPT ![thread[t].cur].state = EndState(thread[t].res)]
        /\ Goto(t, "releasing") \/ Unhold(t) 
        /\ UNCHANGED <<typed, life>>
    BY <1>5 DEF Finish, FinishEffect
  <2> QED
    BY <1>a, <1>b, <2>1 DEF Goto, Unhold
<1> QED
  BY <1>1, <1>2, <1>3, <1>4, <1>5 DEF Run

(* What a step of t leaves of its own record. *)
LEMMA RunMoves ==
  ASSUME TypeOK, ThreadsRefer, Play, NEW t \in Thread, Run(t), NEW i \in RowId,
         i # thread[t].cur, ~TurnsTo(t, i)
  PROVE  Alike(t, i)
<1>0. Works(t) /\ thread[t] \in Goroutine /\ i # 0
  BY Consts DEF Play, TypeOK, RowId
<1>1. CASE Return(t)
  <2>1. InPlay(t) = {} /\ thread'[t] = Idle
    BY <1>0, <1>1 DEF Return, Leave, TypeOK, Works, InPlay
  <2>2. InPlay(t)' = {}
    BY <2>1 DEF InPlay, Idle
  <2> QED
    BY <2>1, <2>2, AlikeSame
<1>2. ASSUME NEW j \in RowId, TurnsTo(t, j), Drop(t, j) PROVE Alike(t, i)
  <2>1. thread'[t] = [thread[t] EXCEPT !.todo = @ \ {j}] /\ i # j
    BY <1>2 DEF Drop, TypeOK
  <2> QED
    BY <1>0, <2>1 DEF Alike, Goroutine
<1>3. ASSUME NEW j \in RowId, Hold(t, j) PROVE Alike(t, i)
  <2>1. /\ thread'[t] = [thread[t] EXCEPT !.pc = "holds", !.cur = j, !.todo = @ \ {j}]
        /\ TurnsTo(t, j) /\ i # j
    BY <1>3 DEF Hold, TypeOK
  <2> QED
    BY <1>0, <2>1 DEF Alike, Goroutine
<1>4. CASE Unhold(t)
  <2>1. thread'[t] = [thread[t] EXCEPT !.pc = "next", !.cur = 0, !.res = "none"]
    BY <1>4 DEF Unhold, TypeOK
  <2> QED
    BY <1>0, <2>1 DEF Alike, Goroutine
<1>5. ASSUME NEW pc, Goto(t, pc) PROVE Alike(t, i)
  <2>1. thread'[t] = [thread[t] EXCEPT !.pc = pc]
    BY <1>5 DEF Goto, TypeOK
  <2> QED
    BY <1>0, <2>1 DEF Alike, Goroutine
<1>6. ASSUME NEW res, Took(t, res) PROVE Alike(t, i)
  <2>1. thread'[t] = [thread[t] EXCEPT !.pc = "ended", !.res = res]
    BY <1>6 DEF Took, TypeOK
  <2> QED
    BY <1>0, <2>1 DEF Alike, Goroutine
<1> QED
  BY <1>1, <1>2, <1>3, <1>4, <1>5, <1>6
     DEF Run, SettleUnknown, HoldRefused, StartEffect, StartFails, Attempt, Finish, FinishFails, ReleaseAfter


(* The row t has in hand is its own handle's, and nobody else holds it or *)
(* waits to close it.                                                      *)
LEMMA InHand ==
  ASSUME TypeOK, ThreadsLive, ThreadsRefer, Play, NEW t \in Thread, NEW i \in RowId, Single(i),
         i \in InPlay(t)
  PROVE  /\ outbox[i].owner = At(t) /\ At(t) \in Handle /\ life[At(t)] = "up"
         /\ \A u \in Thread \ {t} : ~Begun(u, i)
         /\ thread[t].cur = i => /\ i \notin thread[t].todo
                                 /\ \A u \in Thread \ {t} : thread[u].cur # i
         /\ i \in thread[t].todo => thread[t].cur # i
<1>1. Works(t) /\ outbox[i].owner = At(t) /\ thread[t].pc # "idle"
  BY DEF Play, Works
<1>2. \A u \in Thread \ {t} : ~Begun(u, i)
  BY DEF Single
<1>3. thread[t].cur = i => \A u \in Thread \ {t} : thread[u].cur # i
  BY DEF Play, Apart
<1> QED
  BY <1>1, <1>2, <1>3 DEF Works, ThreadsLive

(* Row i, closed or given up by t, is nobody's to start. *)
LEMMA SingleEnded ==
  ASSUME TypeOK, ThreadsLive, ThreadsRefer, Play, NEW t \in Thread, NEW i \in RowId, Single(i),
         i \in InPlay(t), \A u \in Thread \ {t} : thread'[u] = thread[u],
         outbox'[i].state \notin Open, typed'[i] = typed[i],
         \A u \in Thread \ {t} : i # thread[u].cur,
         thread'[t].cur = i => thread'[t].pc = "releasing",
         i \notin thread'[t].todo
  PROVE  Single(i)'
<1>1. \A u \in Thread \ {t} : Alike(u, i) /\ ~Begun(u, i)
  BY AlikeSame, InHand
<1>2. Hand(t, i)' /\ ~Begun(t, i)'
  BY DEF Hand, Begun
<1>3. typed'[i] <= 1 /\ outbox'[i].state # "pending" /\ outbox'[i].state # "started"
  BY DEF Single, Open
<1> QED
  BY <1>1, <1>2, <1>3, SingleStep

(* Row i, which t turns to, is closed unrun, skipped, or held. *)
LEMMA SingleTurned ==
  ASSUME TypeOK, ThreadsLive, ThreadsRefer, Play, OpenEffectOwnsReceipt,
         NEW t \in Thread, NEW i \in RowId, TurnsTo(t, i),
         outbox[i].kind \notin Idempotent, Single(i), faults' = faults,
         SettleUnknown(t, i) \/ Hold(t, i) \/ HoldRefused(t, i)
  PROVE  Single(i)'
<1>0. thread[t] \in Goroutine /\ Works(t) /\ outbox[i] \in Row /\ i # 0 /\ faults \in Nat
  BY Consts, OutboxAssumption DEF TypeOK, Play, RowId, OutboxAssumption
<1>1. thread[t].pc = "next" /\ i \in thread[t].todo /\ thread[t].cur = 0 /\ i \in InPlay(t)
  BY <1>0 DEF TurnsTo, IsFirst, Works, InPlay
<1>2. /\ outbox[i].owner = At(t) /\ At(t) \in Handle /\ life[At(t)] = "up"
      /\ \A u \in Thread \ {t} : ~Begun(u, i)
  BY <1>1, InHand
<1>3. CASE SettleUnknown(t, i)
  <2>1. thread' = [thread EXCEPT ![t] = [thread[t] EXCEPT !.todo = @ \ {i}]] /\ typed' = typed
    BY <1>3 DEF SettleUnknown, Drop
  <2>2. /\ thread'[t].cur = 0 /\ i \notin thread'[t].todo
        /\ \A u \in Thread \ {t} : thread'[u] = thread[u]
    BY <1>0, <1>1, <2>1 DEF TypeOK, Goroutine
  <2>3. Begun(t, i)
    BY <1>1, <1>3 DEF SettleUnknown, MustNotRepeat, Begun
  <2>4. \A u \in Thread \ {t} : i # thread[u].cur
    BY <1>0, <2>3 DEF Single, InPlay
  <2>5. outbox'[i].state \notin Open
    <3>1. CASE FinishEffect(At(t), i, "unknown", "unknown")
      <4>1. outbox'[i] = [outbox[i] EXCEPT !.state = "unknown"]
        BY <3>1 DEF FinishEffect, TypeOK
      <4> QED
        BY <1>0, <4>1 DEF Row, Open
    <3>2. CASE ~Finishable(At(t), i, "unknown", "unknown") /\ outbox' = outbox
      <4>1. OpenRow(i) => Finishable(At(t), i, "unknown", "unknown")
        BY <1>2 DEF OpenEffectOwnsReceipt, Finishable, Completable, OpenRow, Open
      <4> QED
        BY <3>2, <4>1 DEF OpenRow
    <3>3. ~Fault
      BY <1>0 DEF Fault
    <3> QED
      BY <1>3, <3>1, <3>2, <3>3 DEF SettleUnknown
  <2> QED
    BY <1>0, <1>1, <2>1, <2>2, <2>4, <2>5, SingleEnded
<1>4. ASSUME ~MustNotRepeat(t, i) PROVE ~Begun(t, i)
  BY <1>1, <1>4 DEF MustNotRepeat, Begun
<1>5. CASE HoldRefused(t, i)
  <2>1. /\ thread' = [thread EXCEPT ![t] = [thread[t] EXCEPT !.todo = @ \ {i}]]
        /\ UNCHANGED <<typed, outbox, life>> /\ ~MustNotRepeat(t, i)
    BY <1>5 DEF HoldRefused, Drop
  <2>2. /\ thread'[t].cur = 0 /\ i \notin thread'[t].todo
        /\ \A u \in Thread \ {t} : thread'[u] = thread[u]
    BY <1>0, <1>1, <2>1 DEF TypeOK, Goroutine
  <2>3. \A u \in Thread \ {t} : Alike(u, i)
    BY <2>2, AlikeSame
  <2>4. /\ Hand(t, i)' /\ ~Begun(t, i)' /\ i \notin InPlay(t)'
        /\ ~Busy(t, i) /\ ~Begun(t, i)
    BY <1>0, <1>1, <1>4, <2>1, <2>2 DEF Hand, Begun, InPlay, Busy
  <2>5. /\ typed'[i] <= 1
        /\ outbox'[i].state = "pending" => typed'[i] = 0
        /\ outbox'[i].state = outbox[i].state /\ outbox'[i].owner = outbox[i].owner
        /\ typed'[i] = typed[i] /\ life' = life
    BY <2>1 DEF Single
  <2> QED
    BY <2>3, <2>4, <2>5, SingleStep
<1>6. CASE Hold(t, i)
  <2>1. /\ thread' = [thread EXCEPT ![t] = [thread[t] EXCEPT !.pc = "holds", !.cur = i, !.todo = @ \ {i}]]
        /\ UNCHANGED <<typed, outbox, life>> /\ ~MustNotRepeat(t, i) /\ i \notin held[At(t)]
    BY <1>6 DEF Hold
  <2>2. /\ thread'[t].cur = i /\ i \notin thread'[t].todo /\ thread'[t].pc = "holds"
        /\ \A u \in Thread \ {t} : thread'[u] = thread[u]
    BY <1>0, <1>1, <2>1 DEF TypeOK, Goroutine
  <2>3. \A u \in Thread \ {t} : Alike(u, i)
    BY <2>2, AlikeSame
  <2>4. \A u \in Thread : ~Begun(u, i)
    BY <1>2, <1>4, <2>1
  <2>5. ASSUME NEW u \in Thread PROVE ~Busy(u, i)
    <3>1. SUFFICES ASSUME thread[u].cur = i PROVE FALSE
      BY DEF Busy
    <3>2. Works(u) /\ i \in InPlay(u) /\ i \in held[At(u)] /\ outbox[i].owner = At(u)
      BY <1>0, <3>1 DEF Play, Works, InPlay
    <3> QED
      BY <1>2, <2>1, <3>2
  <2>6. outbox[i].state # "started"
    BY <1>2, <2>4, <2>5 DEF Single, Ended
  <2>7. Hand(t, i)' /\ ~Begun(t, i)'
    BY <2>1, <2>2, <2>6 DEF Hand, Begun
  <2>8. /\ typed'[i] <= 1
        /\ outbox'[i].state = "pending" => typed'[i] = 0
        /\ outbox'[i].state = outbox[i].state /\ outbox'[i].owner = outbox[i].owner
        /\ typed'[i] = typed[i] /\ life' = life
    BY <2>1 DEF Single
  <2> QED
    BY <2>3, <2>4, <2>6, <2>7, <2>8, SingleStep
<1> QED
  BY <1>3, <1>5, <1>6


(* Row i, which t has in hand, is started, attempted, ended or let go.     *)
LEMMA SingleWorked ==
  ASSUME TypeOK, ThreadsLive, ThreadsRefer, Play, OpenEffectOwnsReceipt,
         NEW t \in Thread, NEW i \in RowId, thread[t].cur = i,
         outbox[i].kind \notin Idempotent, Single(i), faults' = faults, Run(t)
  PROVE  Single(i)'
<1>0. /\ thread[t] \in Goroutine /\ Works(t) /\ outbox[i] \in Row /\ typed[i] \in 0 .. 2
      /\ i # 0 /\ faults \in Nat
  BY Consts, OutboxAssumption DEF TypeOK, Play, RowId, OutboxAssumption
<1>1. i \in InPlay(t) /\ Cur(t) = outbox[i]
  BY <1>0 DEF InPlay, Cur
<1>2. /\ outbox[i].owner = At(t)
      /\ \A u \in Thread \ {t} : ~Begun(u, i) /\ thread[u].cur # i
      /\ i \notin thread[t].todo
  BY <1>1, InHand
<1>3. \A u \in Thread \ {t} : thread'[u] = thread[u]
  BY RunWrites
<1>4. \A u \in Thread \ {t} : Alike(u, i)
  BY <1>3, AlikeSame
<1>5. ~Fault
  BY <1>0 DEF Fault
<1>6. thread[t].pc \notin {"idle", "next"}
  BY <1>0, <1>1 DEF Works
<1>7. Unhold(t) => thread'[t].cur = 0 /\ thread'[t].todo = thread[t].todo
  <2>1. Unhold(t) => thread'[t] = [thread[t] EXCEPT !.pc = "next", !.cur = 0, !.res = "none"]
    BY DEF Unhold, TypeOK
  <2> QED
    BY <1>0, <2>1 DEF Goroutine
<1>8. ASSUME Unhold(t), outbox'[i].state \notin Open, typed' = typed PROVE Single(i)'
  BY <1>0, <1>1, <1>2, <1>3, <1>7, <1>8, SingleEnded
<1>9. ASSUME NEW pc, NEW res, thread'[t] = [thread[t] EXCEPT !.pc = pc, !.res = res]
      PROVE  thread'[t].pc = pc /\ thread'[t].cur = i /\ thread'[t].todo = thread[t].todo
  BY <1>0, <1>9 DEF Goroutine
<1>10. ASSUME OpenRow(i), thread[t].pc = "ended" PROVE Finishable(At(t), i, EndState(thread[t].res), EndAnswer(t))
  <2>1. outbox[i].state = "started"
    BY <1>10 DEF Single, Hand
  <2>2. outbox[i].receipt # None => Completable(At(t), outbox[i].receipt)
    BY <1>2, <1>10 DEF OpenEffectOwnsReceipt, Completable
  <2> QED
    BY <1>2, <2>1, <2>2 DEF Finishable
<1>11. CASE StartEffect(t)
  <2>1. /\ thread[t].pc = "holds" /\ OpenRow(i) /\ outbox' = [outbox EXCEPT ![i].state = "started"]
        /\ UNCHANGED <<typed, life>> /\ thread' = [thread EXCEPT ![t].pc = "started"]
    BY <1>11 DEF StartEffect, Goto
  <2>2. thread'[t] = [thread[t] EXCEPT !.pc = "started"]
    BY <2>1 DEF TypeOK
  <2>3. thread'[t].pc = "started" /\ thread'[t].cur = i /\ thread'[t].todo = thread[t].todo
    BY <1>0, <2>2 DEF Goroutine
  <2>4. outbox'[i].state = "started"
    BY <1>0, <2>1 DEF TypeOK, Row
  <2>5. typed[i] = 0 /\ typed'[i] = 0
    BY <2>1 DEF Single, Hand, OpenRow, Open
  <2>6. Hand(t, i)' /\ Busy(t, i)' /\ ~Begun(t, i)'
    BY <1>2, <2>3, <2>4, <2>5 DEF Hand, Busy, Begun
  <2>7. typed'[i] <= 1 /\ outbox'[i].state # "pending"
    BY <2>4, <2>5
  <2> QED
    BY <1>2, <1>4, <2>6, <2>7, SingleStep
<1>12. CASE StartFails(t)
  <2>1. ~OpenRow(i) /\ Unhold(t) /\ UNCHANGED <<outbox, typed>>
    BY <1>2, <1>5, <1>12 DEF StartFails, Cur
  <2> QED
    BY <1>8, <2>1 DEF OpenRow
<1>13. CASE Attempt(t)
  <2>1. thread[t].pc = "started" /\ UNCHANGED <<outbox, life>>
    BY <1>13 DEF Attempt
  <2>2. outbox[i].state = "started" /\ typed[i] = 0
    BY <2>1 DEF Single, Hand
  <2>3. PICK res : Took(t, res)
    BY <1>13 DEF Attempt
  <2>4. thread'[t].pc = "ended" /\ thread'[t].cur = i /\ thread'[t].todo = thread[t].todo
    BY <1>9, <2>3 DEF Took, TypeOK
  <2>5. typed'[i] <= 1
    <3>1. typed' = typed \/ typed' = [typed EXCEPT ![i] = @ + 1]
      BY <1>13 DEF Attempt
    <3> QED
      BY <2>2, <3>1 DEF TypeOK
  <2>6. outbox'[i].state = "started"
    BY <2>1, <2>2
  <2>7. Hand(t, i)' /\ Busy(t, i)' /\ ~Begun(t, i)'
    BY <1>2, <2>4, <2>6 DEF Hand, Busy, Begun
  <2> QED
    BY <1>2, <1>4, <2>5, <2>6, <2>7, SingleStep
<1>14. CASE Finish(t)
  <2>1. /\ outbox' = [outbox EXCEPT ![i].state = EndState(thread[t].res)] /\ typed' = typed
        /\ Unhold(t) \/ Goto(t, "releasing")
    BY <1>14 DEF Finish, FinishEffect
  <2>2. outbox'[i].state \notin Open
    <3>1. outbox'[i] = [outbox[i] EXCEPT !.state = EndState(thread[t].res)]
      BY <2>1 DEF TypeOK
    <3> QED
      BY <1>0, <3>1 DEF Row, Open, EndState
  <2>3. ASSUME Goto(t, "releasing") PROVE thread'[t].pc = "releasing" /\ thread'[t].todo = thread[t].todo
    <3>1. thread'[t] = [thread[t] EXCEPT !.pc = "releasing"]
      BY <2>3 DEF Goto, TypeOK
    <3> QED
      BY <1>0, <3>1 DEF Goroutine
  <2> QED
    BY <1>0, <1>1, <1>2, <1>3, <1>8, <2>1, <2>2, <2>3, SingleEnded
<1>15. CASE FinishFails(t)
  <2>1. ~OpenRow(i) /\ Unhold(t) /\ UNCHANGED <<outbox, typed>>
    BY <1>5, <1>10, <1>15 DEF FinishFails
  <2> QED
    BY <1>8, <2>1 DEF OpenRow
<1>16. CASE ReleaseAfter(t)
  <2>1. thread[t].pc = "releasing" /\ Unhold(t) /\ UNCHANGED <<outbox, typed, life>>
    BY <1>16 DEF ReleaseAfter
  <2>2. /\ Hand(t, i)' /\ ~Begun(t, i)' /\ i \notin InPlay(t)'
        /\ ~Busy(t, i) /\ ~Begun(t, i)
    BY <1>0, <1>2, <1>7, <2>1 DEF Hand, Begun, InPlay, Busy
  <2>3. /\ typed'[i] <= 1
        /\ outbox'[i].state = "pending" => typed'[i] = 0
        /\ outbox'[i].state = outbox[i].state /\ outbox'[i].owner = outbox[i].owner
        /\ typed'[i] = typed[i] /\ life' = life
    BY <2>1 DEF Single
  <2> QED
    BY <1>4, <2>2, <2>3, SingleStep
<1> QED
  BY <1>6, <1>11, <1>12, <1>13, <1>14, <1>15, <1>16
     DEF Run, Return, SettleUnknown, Hold, HoldRefused, TurnsTo

LEMMA SingleRuns ==
  ASSUME TypeOK, ThreadsLive, ThreadsRefer, Play, OpenEffectOwnsReceipt,
         NEW t \in Thread, Run(t), NEW i \in RowId,
         outbox[i].kind \notin Idempotent, Single(i), faults' = faults
  PROVE  Single(i)'
<1>1. \A u \in Thread \ {t} : Alike(u, i)
  BY RunWrites, AlikeSame
<1>2. CASE thread[t].cur = i
  BY <1>2, SingleWorked
<1>3. CASE TurnsTo(t, i) /\ thread[t].cur # i
  <2>1. CASE SettleUnknown(t, i) \/ Hold(t, i) \/ HoldRefused(t, i)
    BY <1>3, <2>1, SingleTurned
  <2>2. ASSUME NEW j \in RowId, SettleUnknown(t, j) \/ Hold(t, j) \/ HoldRefused(t, j) PROVE j = i
    BY <1>3, <2>2 DEF SettleUnknown, Hold, HoldRefused, TurnsTo, IsFirst, RowId
  <2>3. ~Return(t) /\ thread[t].pc = "next"
    BY <1>3 DEF Return, TurnsTo, IsFirst
  <2> QED
    BY <2>1, <2>2, <2>3 DEF Run, StartEffect, StartFails, Attempt, Finish, FinishFails, ReleaseAfter
<1>4. CASE ~TurnsTo(t, i) /\ thread[t].cur # i
  <2>1. Alike(t, i)
    BY <1>4, RunMoves
  <2>2. outbox'[i] = outbox[i] /\ typed'[i] = typed[i] /\ life' = life
    BY <1>4, RunWrites
  <2> QED
    BY <1>1, <2>1, <2>2, SingleStays DEF Ended
<1> QED
  BY <1>2, <1>3, <1>4


(* A new row is untyped, and waits for the caller that recorded it alone.  *)
LEMMA SingleRecorded ==
  ASSUME TypeOK, ThreadsRefer, Play, NEW c \in Caller, NEW ids \in SUBSET RowId,
         \A j \in ids : j > lastId /\ outbox'[j].state = "pending",
         \A j \in RowId \ ids : outbox'[j] = outbox[j],
         InPlay(c) = {}, thread'[c].cur = 0, thread'[c].todo = ids, thread'[c].begun = {},
         \A u \in Thread \ {c} : thread'[u] = thread[u],
         UNCHANGED <<typed, life>>,
         NEW i \in RowId, i \in ids \/ Single(i)
  PROVE  Single(i)'
<1>0. c \in Thread /\ i # 0
  BY Consts DEF Thread, RowId
<1>1. CASE i \in ids
  <2>1. typed'[i] = 0 /\ outbox'[i].state = "pending"
    BY <1>1 DEF Play, RowFits
  <2>2. ASSUME NEW u \in Thread PROVE ~Begun(u, i)' /\ thread'[u].cur # i
    <3>1. CASE u = c
      BY <1>0, <3>1 DEF Begun
    <3>2. CASE u # c
      <4>1. i \notin InPlay(u)
        BY <1>1, PlayedRows, RowRange DEF Play
      <4> QED
        BY <1>0, <3>2, <4>1 DEF InPlay, Begun
    <3> QED
      BY <3>1, <3>2
  <2> QED
    BY <2>1, <2>2 DEF Single, Hand
<1>2. CASE i \notin ids
  <2>1. i \notin InPlay(c) /\ i \notin InPlay(c)'
    BY <1>2 DEF InPlay
  <2>2. \A u \in Thread : Alike(u, i)
    BY <2>1, AlikeSame
  <2> QED
    BY <1>2, <2>2, SingleStays DEF Ended
<1> QED
  BY <1>1, <1>2

(* The beat takes up rows, to close those that were started. *)
LEMMA SingleTaken ==
  ASSUME NEW h \in Handle, NEW S \in SUBSET RowId, NEW i \in RowId, Single(i),
         thread' = [thread EXCEPT ![h] =
                     [Idle EXCEPT !.pc = "next", !.at = h, !.todo = S,
                                  !.begun = {j \in S : outbox[j].state = "started"}]],
         TypeOK, InPlay(h) = {}, UNCHANGED <<typed, life>>,
         outbox'[i].state = outbox[i].state, i \notin S => outbox'[i] = outbox[i],
         i \in S => /\ outbox[i].state = "started" => \A u \in Thread \ {h} : i \notin InPlay(u)
                    /\ \A u \in Thread \ {h} : ~Begun(u, i)
  PROVE  Single(i)'
<1>0. h \in Thread /\ i # 0
  BY Consts DEF Thread, RowId
<1>1. /\ thread'[h].cur = 0 /\ thread'[h].todo = S
      /\ thread'[h].begun = {j \in S : outbox[j].state = "started"}
      /\ \A u \in Thread \ {h} : thread'[u] = thread[u]
  BY <1>0 DEF TypeOK, Idle
<1>2. \A u \in Thread \ {h} : Alike(u, i)
  BY <1>1, AlikeSame
<1>3. CASE i \in S
  <2>1. Hand(h, i)' /\ (Begun(h, i)' <=> outbox[i].state = "started")
    BY <1>0, <1>1, <1>3 DEF Hand, Begun
  <2>2. typed'[i] <= 1
    BY DEF Single
  <2>3. outbox'[i].state = "pending" => typed'[i] = 0
    BY DEF Single
  <2> QED
    BY <1>0, <1>2, <1>3, <2>1, <2>2, <2>3, SingleStep
<1>4. CASE i \notin S
  <2>1. i \notin InPlay(h) /\ i \notin InPlay(h)'
    BY <1>0, <1>1, <1>4 DEF InPlay
  <2>2. \A u \in Thread : Alike(u, i)
    BY <1>1, <2>1, AlikeSame
  <2> QED
    BY <1>4, <2>2, SingleStays DEF Ended
<1> QED
  BY <1>3, <1>4

LEMMA SingleBeat ==
  ASSUME TypeOK, ThreadsLive, ThreadsRefer, Play, \A c \in Caller : thread[c].begun = {},
         NEW h \in Handle, Beat(h),
         NEW i \in RowId, outbox[i].kind \notin Idempotent, Single(i)
  PROVE  Single(i)'
<1>0. h \in Thread /\ i # 0 /\ \A j \in RowId : outbox[j] \in Row
  BY Consts DEF Thread, RowId, TypeOK
<1>1. \A u \in Thread : i \in InPlay(u) =>
        outbox[i].owner = At(u) /\ At(u) \in Handle /\ life[At(u)] = "up" /\ thread[u].pc # "idle"
  BY DEF Play, Works, ThreadsLive
<1>2. thread[h].pc = "idle" => InPlay(h) = {}
  BY <1>0 DEF Play, Works
<1>3. CASE AdoptEffects(h)
  <2> DEFINE S == Adoptable(h)
  <2>1. /\ outbox' = [j \in RowId |-> IF j \in S THEN [outbox[j] EXCEPT !.owner = h] ELSE outbox[j]]
        /\ thread' = [thread EXCEPT ![h] =
                       [Idle EXCEPT !.pc = "next", !.at = h, !.todo = S,
                                    !.begun = {j \in S : outbox[j].state = "started"}]]
        /\ UNCHANGED <<typed, life>> /\ thread[h].pc = "idle"
    BY <1>3 DEF AdoptEffects
  <2>2. S \in SUBSET RowId /\ \A j \in S : life[outbox[j].owner] = "gone"
    BY DEF Adoptable, OwnerGone
  <2> HIDE DEF S
  <2>3. outbox'[i].state = outbox[i].state /\ (i \notin S => outbox'[i] = outbox[i])
    BY <1>0, <2>1 DEF Row
  <2>4. i \in S => \A u \in Thread : i \notin InPlay(u) /\ ~Begun(u, i)
    BY <1>1, <2>2 DEF Begun, InPlay
  <2> QED
    BY <1>2, <2>1, <2>2, <2>3, <2>4, SingleTaken
<1>4. ASSUME NEW oldest \in RowId, ReadUnattended(h, oldest) PROVE Single(i)'
  <2> DEFINE S == {j \in Unattended(h) : j <= oldest}
  <2>1. /\ thread' = [thread EXCEPT ![h] =
                       [Idle EXCEPT !.pc = "next", !.at = h, !.todo = S,
                                    !.begun = {j \in S : outbox[j].state = "started"}]]
        /\ UNCHANGED <<typed, life, outbox>> /\ thread[h].pc = "idle" /\ life[h] = "up"
    BY <1>4 DEF ReadUnattended
  <2>2. S \in SUBSET RowId /\ \A j \in S : outbox[j].owner = h /\ j \notin held[h]
    BY DEF Unattended
  <2> HIDE DEF S
  <2>3. ASSUME i \in S, NEW u \in Thread, Busy(u, i) \/ Begun(u, i) PROVE FALSE
    <3>1. i \in InPlay(u) /\ Works(u)
      BY <1>0, <2>3 DEF Busy, Begun, InPlay, Play
    <3>2. At(u) = h /\ thread[u].pc # "idle"
      BY <1>1, <2>2, <2>3, <3>1
    <3>3. CASE Busy(u, i)
      BY <1>0, <2>2, <2>3, <3>1, <3>2, <3>3 DEF Busy, Works
    <3>4. CASE Begun(u, i)
      <4>1. u \notin Caller
        BY <3>4 DEF Begun
      <4>2. u = h
        BY <3>1, <3>2, <4>1 DEF Works, Thread
      <4> QED
        BY <2>1, <3>2, <4>2
    <3> QED
      BY <2>3, <3>3, <3>4
  <2>4. i \in S => outbox[i].state # "started"
    BY <2>1, <2>2, <2>3 DEF Single, Ended
  <2> QED
    BY <1>2, <2>1, <2>2, <2>3, <2>4, SingleTaken
<1> QED
  BY <1>3, <1>4 DEF Beat

(* A crash takes what the daemon's goroutines had with them. *)
LEMMA SingleCrash ==
  ASSUME TypeOK, Play, NEW h \in Handle, Crash(h), NEW i \in RowId, Single(i)
  PROVE  Single(i)'
<1>0. i # 0
  BY Consts DEF RowId
<1>1. /\ \A u \in Thread : thread'[u] = IF thread[u].at = h THEN Idle ELSE thread[u]
      /\ life' = [life EXCEPT ![h] = "dead"] /\ UNCHANGED <<outbox, typed>>
  BY <1>0 DEF Crash
<1>2. \A u \in Thread : \/ thread[u].at # h /\ thread'[u] = thread[u]
                        \/ /\ thread[u].at = h /\ thread'[u].cur = 0 /\ thread'[u].todo = {}
  BY <1>1 DEF Idle
<1>3. \A u \in Thread : (Begun(u, i)' => Begun(u, i)) /\ (i \in InPlay(u)' => i \in InPlay(u))
  BY <1>0, <1>2 DEF Begun, InPlay
<1>4. \A u \in Thread : Hand(u, i)'
  BY <1>0, <1>1, <1>2 DEF Single, Hand
<1>5. ASSUME outbox[i].state = "started"
      PROVE  Ended(outbox[i].owner)' \/ \E u \in Thread : Busy(u, i)' \/ Begun(u, i)'
  <2>1. CASE Ended(outbox[i].owner)
    BY <1>1, <2>1 DEF Ended, TypeOK
  <2>2. ASSUME NEW u \in Thread, Busy(u, i) \/ Begun(u, i)
        PROVE  Ended(outbox[i].owner)' \/ \E v \in Thread : Busy(v, i)' \/ Begun(v, i)'
    <3>1. CASE thread[u].at # h
      BY <1>2, <2>2, <3>1 DEF Busy, Begun
    <3>2. CASE thread[u].at = h
      <4>1. i \in InPlay(u) /\ Works(u)
        BY <1>0, <2>2 DEF Busy, Begun, InPlay, Play
      <4>2. outbox'[i].owner = h
        BY <1>1, <3>2, <4>1 DEF Works, At
      <4>3. life'[h] = "dead"
        BY <1>1 DEF TypeOK
      <4> QED
        BY <4>2, <4>3 DEF Ended
    <3> QED
      BY <3>1, <3>2
  <2> QED
    BY <1>5, <2>1, <2>2 DEF Single
<1> QED
  BY <1>1, <1>3, <1>4, <1>5 DEF Single


(* A claim leaves its caller without rows. *)
LEMMA ClaimRests ==
  ASSUME TypeOK, NEW c \in Caller, Claim(c)
  PROVE  /\ thread'[c] = thread[c] \/ (thread'[c].todo = {} /\ thread'[c].cur = 0 /\ thread'[c].begun = {})
         /\ \A u \in Thread \ {c} : thread'[u] = thread[u]
         /\ thread[c].pc = "idle" /\ UNCHANGED <<outbox, typed, life, faults>>
<1>1. \A u \in Thread \ {c} : thread'[u] = thread[u]
  BY DEF Claim, ClaimNew, ClaimReplay, ClaimExpires, ClaimOrphaned, TypeOK
<1>2. thread[c].pc = "idle" /\ UNCHANGED <<outbox, typed, life, faults>>
  BY DEF Claim, ClaimNew, ClaimReplay, ClaimExpires, ClaimOrphaned
<1>3. ASSUME NEW pc, NEW h, NEW k, NEW d,
             thread' = [thread EXCEPT ![c] = [Idle EXCEPT !.pc = pc, !.at = h, !.key = k, !.digest = d]]
      PROVE  thread'[c].todo = {} /\ thread'[c].cur = 0 /\ thread'[c].begun = {}
  <2>1. thread'[c] = [Idle EXCEPT !.pc = pc, !.at = h, !.key = k, !.digest = d]
    BY <1>3 DEF TypeOK, Thread
  <2> QED
    BY <2>1 DEF Idle
<1>4. PICK h \in Handle, k \in Key, d \in Digest :
        \/ ClaimNew(c, h, k, d) \/ ClaimReplay(c, h, k, d)
        \/ ClaimExpires(c, h, k, d) \/ ClaimOrphaned(c, h, k, d)
  BY DEF Claim
<1>5. CASE ClaimNew(c, h, k, d) \/ ClaimOrphaned(c, h, k, d)
  <2>1. \E pc \in {"reserved", "orphaned"} :
          thread' = [thread EXCEPT ![c] = [Idle EXCEPT !.pc = pc, !.at = h, !.key = k, !.digest = d]]
    BY <1>5 DEF ClaimNew, ClaimOrphaned
  <2>2. thread'[c].todo = {} /\ thread'[c].cur = 0 /\ thread'[c].begun = {}
    BY <1>3, <2>1
  <2> QED
    BY <1>1, <1>2, <2>2
<1>6. CASE ClaimReplay(c, h, k, d) \/ ClaimExpires(c, h, k, d)
  BY <1>1, <1>2, <1>6 DEF ClaimReplay, ClaimExpires
<1> QED
  BY <1>4, <1>5, <1>6

(* Only the beat marks rows as begun. *)
LEMMA BegunStays ==
  ASSUME TypeOK, \A c \in Caller : thread[c].begun = {}, [Next]_vars
  PROVE  \A c \in Caller : thread'[c].begun = {}
<1> SUFFICES ASSUME NEW u \in Caller PROVE thread'[u].begun = {}
  OBVIOUS
<1>0. u \in Thread /\ u \notin Handle /\ \A t \in Thread : thread[t] \in Goroutine
  BY Consts DEF Thread, TypeOK
<1>a. ASSUME NEW t, NEW g, thread' = [thread EXCEPT ![t] = g], t = u => g.begun = {} PROVE thread'[u].begun = {}
  BY <1>0, <1>a DEF TypeOK
<1>b. ASSUME NEW t, Leave(t) PROVE thread'[u].begun = {}
  <2>1. Idle.begun = {}
    BY DEF Idle
  <2> QED
    BY <1>a, <1>b, <2>1 DEF Leave
<1>c. ASSUME NEW t, NEW pc, Goto(t, pc) PROVE thread'[u].begun = {}
  <2>1. thread' = [thread EXCEPT ![t] = [thread[t] EXCEPT !.pc = pc]]
    BY <1>c DEF Goto
  <2>2. t = u => [thread[t] EXCEPT !.pc = pc].begun = {}
    BY <1>0 DEF Goroutine
  <2> QED
    BY <1>a, <2>1, <2>2
<1>1. ASSUME NEW c \in Caller, Claim(c) PROVE thread'[u].begun = {}
  <2>1. thread'[u] = thread[u] \/ thread'[u].begun = {}
    BY <1>0, <1>1, ClaimRests
  <2> QED
    BY <2>1
<1>2. ASSUME NEW c \in Caller, Decide(c) PROVE thread'[u].begun = {}
  <2>1. CASE RecordMessage(c)
    <3>1. thread' = [thread EXCEPT ![c] = [thread[c] EXCEPT !.pc = "next", !.todo = {lastId + 1}]]
      BY <2>1 DEF RecordMessage
    <3>2. c = u => [thread[c] EXCEPT !.pc = "next", !.todo = {lastId + 1}].begun = {}
      BY <1>0 DEF Goroutine
    <3> QED
      BY <1>a, <3>1, <3>2
  <2> QED
    BY <1>2, <1>b, <1>c, <2>1 DEF Decide, CompleteOrphan, CompleteOrphanFails, Refuse, GiveBack, GiveBackFails
<1>3. ASSUME NEW c \in Caller, Batch(c) PROVE thread'[u].begun = {}
  BY <1>0, <1>3 DEF Batch, RecordBatch, Idle, TypeOK
<1>4. ASSUME NEW t \in Thread, Run(t) PROVE thread'[u].begun = {}
  <2>1. ASSUME NEW i \in RowId, Drop(t, i) PROVE thread'[u].begun = {}
    <3>1. thread' = [thread EXCEPT ![t] = [thread[t] EXCEPT !.todo = @ \ {i}]]
      BY <2>1 DEF Drop
    <3>2. t = u => [thread[t] EXCEPT !.todo = @ \ {i}].begun = {}
      BY <1>0 DEF Goroutine
    <3> QED
      BY <1>a, <3>1, <3>2
  <2>2. ASSUME NEW i \in RowId, Hold(t, i) PROVE thread'[u].begun = {}
    <3>1. thread' = [thread EXCEPT ![t] = [thread[t] EXCEPT !.pc = "holds", !.cur = i, !.todo = @ \ {i}]]
      BY <2>2 DEF Hold
    <3>2. t = u => [thread[t] EXCEPT !.pc = "holds", !.cur = i, !.todo = @ \ {i}].begun = {}
      BY <1>0 DEF Goroutine
    <3> QED
      BY <1>a, <3>1, <3>2
  <2>3. CASE Unhold(t)
    <3>1. thread' = [thread EXCEPT ![t] = [thread[t] EXCEPT !.pc = "next", !.cur = 0, !.res = "none"]]
      BY <2>3 DEF Unhold
    <3>2. t = u => [thread[t] EXCEPT !.pc = "next", !.cur = 0, !.res = "none"].begun = {}
      BY <1>0 DEF Goroutine
    <3> QED
      BY <1>a, <3>1, <3>2
  <2>4. ASSUME NEW res, Took(t, res) PROVE thread'[u].begun = {}
    <3>1. thread' = [thread EXCEPT ![t] = [thread[t] EXCEPT !.pc = "ended", !.res = res]]
      BY <2>4 DEF Took
    <3>2. t = u => [thread[t] EXCEPT !.pc = "ended", !.res = res].begun = {}
      BY <1>0 DEF Goroutine
    <3> QED
      BY <1>a, <3>1, <3>2
  <2> QED
    BY <1>4, <1>b, <1>c, <2>1, <2>2, <2>3, <2>4
       DEF Run, Return, SettleUnknown, HoldRefused, StartEffect, StartFails, Attempt,
           Finish, FinishFails, ReleaseAfter
<1>5. ASSUME NEW h \in Handle, Beat(h) PROVE thread'[u].begun = {}
  BY <1>0, <1>5 DEF Beat, AdoptEffects, ReadUnattended, TypeOK
<1>6. ASSUME NEW h \in Handle, Crash(h) PROVE thread'[u].begun = {}
  BY <1>0, <1>6 DEF Crash, Idle
<1>7. CASE \/ \E h \in Handle : ExpireReceipts(h) \/ Boot(h) \/ PidFreed(h)
           \/ \E k \in Key : WindowPasses(k)
           \/ UNCHANGED vars
  BY <1>7 DEF ExpireReceipts, Boot, PidFreed, WindowPasses, vars
<1> QED
  BY <1>1, <1>2, <1>3, <1>4, <1>5, <1>6, <1>7 DEF Next

LEMMA SinglyStep ==
  ASSUME TypeOK, ThreadsLive, ThreadsRefer, FreshRows, Play, OpenEffectOwnsReceipt, Singly, [Next]_vars
  PROVE  Singly'
<1>0. \A c \in Caller : thread'[c].begun = {}
  BY BegunStays DEF Singly
<1> SUFFICES ASSUME faults' = 0, NEW i \in RowId, outbox'[i].kind \notin Idempotent PROVE Single(i)'
  BY <1>0 DEF Singly
<1>1. faults = 0
  <2>1. faults \in Nat
    BY OutboxAssumption DEF TypeOK, OutboxAssumption
  <2>2. \A c \in Caller : Claim(c) => faults' = faults
    BY ClaimRests
  <2>3. \A c \in Caller : Decide(c) \/ Batch(c) => faults' = faults \/ faults' = faults + 1
    BY DEF Decide, CompleteOrphan, CompleteOrphanFails, Refuse, GiveBack, GiveBackFails,
           RecordMessage, Batch, RecordBatch, Fault
  <2>4. \A t \in Thread : Run(t) => faults' = faults \/ faults' = faults + 1
    BY DEF Run, Return, SettleUnknown, Hold, HoldRefused, StartEffect, StartFails,
           Attempt, Finish, FinishFails, ReleaseAfter, Fault
  <2>5. /\ \A h \in Handle : Beat(h) \/ ExpireReceipts(h) \/ Boot(h) \/ Crash(h) \/ PidFreed(h)
                               => faults' = faults
        /\ \A k \in Key : WindowPasses(k) => faults' = faults
        /\ UNCHANGED vars => faults' = faults
    BY DEF Beat, AdoptEffects, ReadUnattended, ExpireReceipts, Boot, Crash, PidFreed, WindowPasses, vars
  <2>6. faults' = faults \/ faults' = faults + 1
    BY <2>2, <2>3, <2>4, <2>5 DEF Next
  <2> QED
    BY <2>1, <2>6
<1>2. outbox[i].kind \notin Idempotent => Single(i)
  BY <1>1 DEF Singly
<1>3. /\ outbox[i] \in Row
      /\ \A u \in Thread : thread[u] \in Goroutine /\ Works(u)
      /\ \A u \in Thread : thread[u].pc \in {"idle", "reserved", "refusing", "orphaned"} => InPlay(u) = {}
  BY DEF TypeOK, Play, Works
<1>a. ASSUME UNCHANGED <<outbox, typed>>, \A o : Ended(o) => Ended(o)',
             \A u \in Thread : thread'[u] = thread[u] \/ (InPlay(u) = {} /\ InPlay(u)' = {})
      PROVE  Single(i)'
  <2>1. \A u \in Thread : Alike(u, i)
    BY <1>a, AlikeSame
  <2> QED
    BY <1>2, <1>a, <2>1, SingleStays
<1>b. life' = life => \A o : Ended(o) => Ended(o)'
  BY DEF Ended
<1>4. ASSUME NEW c \in Caller, Claim(c) PROVE Single(i)'
  <2>1. UNCHANGED <<outbox, typed, life>> /\ thread[c].pc = "idle"
    BY <1>4, ClaimRests
  <2>2. \A u \in Thread \ {c} : thread'[u] = thread[u]
    BY <1>4, ClaimRests
  <2>3. thread'[c] = thread[c] \/ (thread'[c].todo = {} /\ thread'[c].cur = 0)
    BY <1>4, ClaimRests
  <2>4. InPlay(c) = {} /\ c \in Thread
    BY <1>3, <2>1 DEF Thread
  <2>5. thread'[c] = thread[c] \/ InPlay(c)' = {}
    BY <2>3 DEF InPlay
  <2> QED
    BY <1>a, <1>b, <2>1, <2>2, <2>4, <2>5
<1>5. ASSUME NEW c \in Caller, Decide(c) PROVE Single(i)'
  <2>c. c \in Thread /\ thread[c].begun = {}
    BY DEF Thread, Singly
  <2>p. thread[c].pc \in {"reserved", "refusing", "orphaned"}
    BY <1>5 DEF Decide, CompleteOrphan, CompleteOrphanFails, Refuse, GiveBack, GiveBackFails, RecordMessage
  <2>0. InPlay(c) = {} /\ thread[c].cur = 0 /\ thread[c].todo = {}
    <3>1. InPlay(c) = {}
      BY <1>3, <2>c, <2>p
    <3> QED
      BY <3>1 DEF InPlay
  <2>1. CASE RecordMessage(c)
    <3> PICK n : n = lastId + 1
      OBVIOUS
    <3>1. n \in RowId /\ n > lastId
      BY <2>1, RowRange, Consts DEF RecordMessage, RowId
    <3>2. /\ outbox' = [outbox EXCEPT ![n] =
                         [state |-> "pending", kind |-> Message, owner |-> At(c),
                          receipt |-> thread[c].key, digest |-> thread[c].digest]]
          /\ thread' = [thread EXCEPT ![c] = [thread[c] EXCEPT !.pc = "next", !.todo = {n}]]
          /\ UNCHANGED <<typed, life>>
      BY <2>1 DEF RecordMessage
    <3>3. outbox'[n].state = "pending" /\ \A j \in RowId \ {n} : outbox'[j] = outbox[j]
      BY <3>1, <3>2 DEF TypeOK
    <3>4. /\ thread'[c].cur = 0 /\ thread'[c].todo = {n}
          /\ \A u \in Thread \ {c} : thread'[u] = thread[u]
      BY <1>3, <2>c, <2>0, <3>2 DEF TypeOK, Goroutine
    <3> DEFINE ids == {n}
    <3>5. /\ ids \in SUBSET RowId /\ \A j \in ids : j > lastId /\ outbox'[j].state = "pending"
          /\ \A j \in RowId \ ids : outbox'[j] = outbox[j]
          /\ thread'[c].todo = ids
      BY <3>1, <3>3, <3>4
    <3>6. i \in ids \/ Single(i)
      BY <1>2, <3>5
    <3> HIDE DEF ids
    <3> QED
      BY <1>0, <2>0, <3>2, <3>4, <3>5, <3>6, SingleRecorded
  <2>2. CASE Refuse(c)
    <3>1. /\ UNCHANGED <<outbox, typed, life>>
          /\ thread' = [thread EXCEPT ![c] = [thread[c] EXCEPT !.pc = "refusing"]]
      BY <2>2 DEF Refuse, Goto
    <3>2. /\ thread'[c].todo = {} /\ thread'[c].cur = 0
          /\ \A u \in Thread \ {c} : thread'[u] = thread[u]
      BY <1>3, <2>c, <2>0, <3>1 DEF TypeOK, Goroutine
    <3>3. InPlay(c)' = {}
      BY <3>2 DEF InPlay
    <3> QED
      BY <1>a, <1>b, <2>0, <3>1, <3>2, <3>3
  <2>3. CASE Leave(c) /\ UNCHANGED <<outbox, typed, life>>
    <3>1. /\ thread'[c].todo = {} /\ thread'[c].cur = 0
          /\ \A u \in Thread \ {c} : thread'[u] = thread[u]
      BY <2>c, <2>3 DEF Leave, TypeOK, Idle
    <3>2. InPlay(c)' = {}
      BY <3>1 DEF InPlay
    <3> QED
      BY <1>a, <1>b, <2>0, <2>3, <3>1, <3>2
  <2> QED
    BY <1>5, <2>1, <2>2, <2>3 DEF Decide, CompleteOrphan, CompleteOrphanFails, GiveBack, GiveBackFails
<1>6. ASSUME NEW c \in Caller, Batch(c) PROVE Single(i)'
  <2> PICK h \in Handle, kind \in Kind, n \in BatchSizes : RecordBatch(c, h, kind, n)
    BY <1>6 DEF Batch
  <2> DEFINE ids == (lastId + 1) .. (lastId + n)
  <2>1. /\ lastId + n <= MaxRows /\ n \in Nat /\ thread[c].pc = "idle"
        /\ outbox' = [j \in RowId |->
                       IF j \in ids
                       THEN [state |-> "pending", kind |-> kind, owner |-> h, receipt |-> None, digest |-> None]
                       ELSE outbox[j]]
        /\ thread' = [thread EXCEPT ![c] = [Idle EXCEPT !.pc = "next", !.at = h, !.todo = ids]]
        /\ UNCHANGED <<typed, life>>
    BY OutboxAssumption DEF OutboxAssumption, RecordBatch
  <2>2. ids \in SUBSET RowId /\ \A j \in ids : j > lastId
    BY <2>1, RowRange, Consts DEF RowId
  <2> HIDE DEF ids
  <2>3. /\ \A j \in RowId \ ids : outbox'[j] = outbox[j]
        /\ \A j \in ids : outbox'[j].state = "pending"
    BY <2>1, <2>2
  <2>4. /\ thread'[c].cur = 0 /\ thread'[c].todo = ids
        /\ \A u \in Thread \ {c} : thread'[u] = thread[u]
    BY <2>1 DEF TypeOK, Idle, Thread
  <2>5. InPlay(c) = {}
    BY <1>3, <2>1 DEF Thread
  <2>6. i \in ids \/ Single(i)
    BY <1>2, <2>3
  <2> QED
    BY <1>0, <2>1, <2>2, <2>3, <2>4, <2>5, <2>6, SingleRecorded
<1>7. ASSUME NEW t \in Thread, Run(t) PROVE Single(i)'
  <2>1. outbox'[i].kind = outbox[i].kind
    BY <1>7, RunWrites
  <2> QED
    BY <1>1, <1>2, <1>7, <2>1, SingleRuns
<1>8. ASSUME NEW h \in Handle, Beat(h) PROVE Single(i)'
  <2>1. outbox'[i].kind = outbox[i].kind
    <3>1. outbox' = outbox \/ outbox'[i] = outbox[i] \/ outbox'[i] = [outbox[i] EXCEPT !.owner = h]
      BY <1>8 DEF Beat, AdoptEffects, ReadUnattended
    <3> QED
      BY <1>3, <3>1 DEF Row
  <2> QED
    BY <1>2, <1>8, <2>1, SingleBeat DEF Singly
<1>9. ASSUME NEW h \in Handle, Crash(h) PROVE Single(i)'
  <2>1. outbox' = outbox
    BY <1>9 DEF Crash
  <2> QED
    BY <1>2, <1>9, <2>1, SingleCrash
<1>10. ASSUME NEW h \in Handle, ExpireReceipts(h) \/ Boot(h) \/ PidFreed(h) PROVE Single(i)'
  <2>1. UNCHANGED <<outbox, typed, thread>>
    BY <1>10 DEF ExpireReceipts, Boot, PidFreed
  <2>2. \A o : Ended(o) => Ended(o)'
    BY <1>10 DEF ExpireReceipts, Boot, PidFreed, Ended, TypeOK
  <2> QED
    BY <1>a, <2>1, <2>2
<1>11. ASSUME NEW k \in Key, WindowPasses(k) PROVE Single(i)'
  BY <1>11, <1>a, <1>b DEF WindowPasses
<1>12. CASE UNCHANGED vars
  BY <1>12, <1>a, <1>b DEF vars
<1> QED
  BY <1>4, <1>5, <1>6, <1>7, <1>8, <1>9, <1>10, <1>11, <1>12 DEF Next

(* As long as the store takes every write, an effect whose kind cannot     *)
(* find out whether it happened takes place at most once, in a commit that *)
(* owes several as well, whatever requests, beats of any number of daemons *)
(* and crashes come together (runRecorded, unattended, settleEffect).      *)
THEOREM OnceBeforeFault == Spec => []OnceUntilFault
<1>1. Init => Singly
  <2> SUFFICES ASSUME Init PROVE Singly
    OBVIOUS
  <2>1. /\ \A u \in Thread : thread[u] = Idle
        /\ \A i \in RowId : outbox[i] = NoRow /\ typed[i] = 0
    BY DEF Init
  <2>2. /\ Idle.cur = 0 /\ Idle.todo = {} /\ Idle.begun = {}
        /\ NoRow.state = "none"
    BY DEF Idle, NoRow
  <2>3. \A i \in RowId : i # 0
    BY Consts DEF RowId
  <2>4. \A i \in RowId : Single(i)
    BY <2>1, <2>2, <2>3 DEF Single, Hand, Begun
  <2> QED
    BY <2>1, <2>2, <2>4 DEF Singly, Thread
<1>2. OnceInv /\ Singly /\ [Next]_vars => Singly'
  BY SinglyStep DEF OnceInv, IInv
<1>3. Singly => OnceUntilFault
  BY DEF Singly, Single, OnceUntilFault, EffectAtMostOnce
<1> QED
  BY <1>1, <1>2, <1>3, OnceInductive, PTL DEF Spec

=============================================================================
