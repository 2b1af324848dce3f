----------------------------- MODULE Lane_proofs -----------------------------
(***************************************************************************)
(* IInv is an inductive invariant of Lane for every set of writers, keys   *)
(* and slots and every ceiling.  One writer per key follows: writers of    *)
(* one key refer to one slot, and a slot's token has one holder.           *)
(***************************************************************************)
EXTENDS Lane, TLAPS, FiniteSetTheorems

LEMMA InitHolds == Init => IInv
<1> SUFFICES ASSUME Init PROVE IInv
  OBVIOUS
<1> USE LaneAssumption DEF Init
<1>1. TypeOK
  BY DEF TypeOK
<1>2. OnItsSlot /\ SlotsApart /\ TokenHeld /\ LineBlocked
  BY DEF OnItsSlot, SlotsApart, TokenHeld, LineBlocked
<1>3. RefsCount
  <2>1. \A s \in SlotId : Users(s) = {}
    BY DEF Users
  <2> QED
    BY <2>1, FS_EmptySet DEF RefsCount
<1>4. CeilingCounts
  <2>1. Inside = {}
    BY DEF Inside
  <2> QED
    BY <2>1, FS_EmptySet DEF CeilingCounts
<1> QED
  BY <1>1, <1>2, <1>3, <1>4 DEF IInv

(* Who is inside refers to a slot that knows of it. *)
LEMMA Counting ==
  ASSUME IInv
  PROVE  /\ IsFiniteSet(Inside) /\ Cardinality(Inside) \in Nat
         /\ \A s \in SlotId : IsFiniteSet(Users(s)) /\ Cardinality(Users(s)) \in Nat
<1>1. Inside \subseteq Writer /\ \A s \in SlotId : Users(s) \subseteq Writer
  BY DEF Inside, Users
<1> QED
  BY <1>1, FS_Subset, FS_CardinalityType, LaneAssumption

(* A step that moves no writer in or out, and changes no slot's users.     *)
LEMMA SameUsers ==
  ASSUME IInv, UNCHANGED <<admitted, refs, at>>,
         \A w \in Writer : pc'[w] = "idle" <=> pc[w] = "idle"
  PROVE  RefsCount' /\ CeilingCounts'
<1>1. Inside' = Inside /\ \A s \in SlotId : Users(s)' = Users(s)
  BY DEF Inside, Users
<1> QED
  BY <1>1 DEF IInv, RefsCount, CeilingCounts

LEMMA AdmitStep ==
  ASSUME IInv, NEW w \in Writer, NEW k \in Key, Admit(w, k)
  PROVE  IInv'
<1> USE LaneAssumption
<1>s. PICK s \in SlotFor(k) :
        /\ keys' = [keys EXCEPT ![k] = s]
        /\ refs' = [refs EXCEPT ![s] = IF keys[k] = None THEN 1 ELSE @ + 1]
        /\ full' = [full EXCEPT ![s] = @ /\ keys[k] # None]
        /\ at' = [at EXCEPT ![w] = s]
  BY DEF Admit
<1>t. TypeOK
  BY DEF IInv
<1>i. /\ s \in SlotId
      /\ keys[k] # None => s = keys[k]
      /\ keys[k] = None => Unreferenced(s)
  BY <1>s, <1>t DEF SlotFor, TypeOK
<1>p. /\ pc[w] = "idle" /\ at[w] = None /\ admitted < Limit
      /\ pc' = [pc EXCEPT ![w] = "admitted"] /\ key' = [key EXCEPT ![w] = k]
      /\ admitted' = admitted + 1 /\ UNCHANGED line
  BY DEF Admit, Room, IInv, OnItsSlot
<1>1. TypeOK'
  <2>1. admitted' \in 0 .. Limit
    BY <1>p, <1>t DEF TypeOK
  <2>2. refs' \in [SlotId -> Nat]
    BY <1>s, <1>i, <1>t DEF TypeOK
  <2>3. full' \in [SlotId -> BOOLEAN]
    <3>1. (full[s] /\ keys[k] # None) \in BOOLEAN
      BY ZenonT(10)
    <3> QED
      BY <3>1, <1>s, <1>i, <1>t DEF TypeOK
  <2> QED
    BY <1>s, <1>i, <1>p, <1>t, <2>1, <2>2, <2>3 DEF TypeOK
<1>2. OnItsSlot'
  <2> SUFFICES ASSUME NEW v \in Writer
               PROVE  IF pc'[v] = "idle" THEN at'[v] = None /\ key'[v] = None
                      ELSE key'[v] \in Key /\ at'[v] \in SlotId /\ keys'[key'[v]] = at'[v]
    BY DEF OnItsSlot
  <2>1. CASE v = w
    BY <2>1, <1>s, <1>i, <1>p, <1>t DEF TypeOK
  <2>2. CASE v # w
    BY <2>2, <1>s, <1>i, <1>p, <1>t DEF TypeOK, IInv, OnItsSlot
  <2> QED
    BY <2>1, <2>2
<1>3. SlotsApart'
  BY <1>s, <1>i, <1>t DEF TypeOK, SlotsApart, IInv, Unreferenced
<1>4. RefsCount'
  <2> SUFFICES ASSUME NEW r \in SlotId PROVE refs'[r] = Cardinality(Users(r)')
    BY DEF RefsCount
  <2>1. CASE r # s
    <3>1. Users(r)' = Users(r)
      BY <2>1, <1>s, <1>p, <1>t DEF Users, TypeOK
    <3> QED
      BY <3>1, <2>1, <1>s, <1>t DEF IInv, RefsCount, TypeOK
  <2>2. CASE r = s
    <3>1. Users(s)' = Users(s) \cup {w} /\ w \notin Users(s)
      BY <1>s, <1>p, <1>i, <1>t DEF Users, TypeOK
    <3>2. Cardinality(Users(s)') = refs[s] + 1
      BY <3>1, <1>i, Counting, FS_AddElement DEF IInv, RefsCount
    <3>3. CASE keys[k] # None
      BY <2>2, <3>2, <3>3, <1>s, <1>i, <1>t DEF TypeOK
    <3>4. CASE keys[k] = None
      <4>1. Users(s) = {}
        BY <3>4, <1>i DEF Unreferenced, Users
      <4>2. refs[s] = 0
        BY <4>1, <1>i, FS_EmptySet DEF IInv, RefsCount
      <4> QED
        BY <2>2, <3>2, <3>4, <4>2, <1>s, <1>i, <1>t DEF TypeOK
    <3> QED
      BY <3>3, <3>4
  <2> QED
    BY <2>1, <2>2
<1>5. TokenHeld'
  <2> SUFFICES ASSUME NEW v \in Writer, NEW u \in Writer, pc'[v] = "writing"
               PROVE  full'[at'[v]] /\ (pc'[u] = "writing" /\ at'[u] = at'[v] => v = u)
    BY DEF TokenHeld
  <2>1. v # w /\ pc[v] = "writing" /\ at'[v] = at[v] /\ at[v] \in SlotId
    BY <1>p, <1>s, <1>t DEF TypeOK, IInv, OnItsSlot
  <2>2. full[at[v]]
    BY <2>1 DEF IInv, TokenHeld
  <2>3. at[v] = s => keys[k] # None
    BY <2>1, <1>i DEF Unreferenced
  <2>4. full'[at'[v]]
    BY <2>1, <2>2, <2>3, <1>s, <1>t DEF TypeOK
  <2>5. pc'[u] = "writing" => u # w /\ pc[u] = "writing" /\ at'[u] = at[u]
    BY <1>p, <1>s, <1>t DEF TypeOK
  <2> QED
    BY <2>1, <2>4, <2>5 DEF IInv, TokenHeld
<1>6. LineBlocked'
  <2> SUFFICES ASSUME NEW r \in SlotId, NEW i \in 1 .. Len(line[r])
               PROVE  /\ pc'[line[r][i]] = "blocked" /\ at'[line[r][i]] = r
                      /\ \A j \in 1 .. Len(line[r]) : line[r][i] = line[r][j] => i = j
    BY <1>p DEF LineBlocked
  <2>1. line[r][i] \in Writer
    BY <1>t DEF TypeOK
  <2>2. pc[line[r][i]] = "blocked" /\ at[line[r][i]] = r
    BY DEF IInv, LineBlocked
  <2> QED
    BY <2>1, <2>2, <1>p, <1>s, <1>t DEF IInv, LineBlocked, TypeOK
<1>7. CeilingCounts'
  <2>1. Inside' = Inside \cup {w} /\ w \notin Inside
    BY <1>p, <1>t DEF Inside, TypeOK
  <2>2. Cardinality(Inside') = admitted + 1
    BY <2>1, Counting, FS_AddElement DEF IInv, CeilingCounts
  <2> QED
    BY <2>2, <1>p, <1>t DEF CeilingCounts, TypeOK
<1> QED
  BY <1>1, <1>2, <1>3, <1>4, <1>5, <1>6, <1>7 DEF IInv

LEMMA SendStep ==
  ASSUME IInv, NEW w \in Writer, Send(w)
  PROVE  IInv'
<1>t. TypeOK /\ at[w] \in SlotId
  BY DEF IInv, OnItsSlot, Send
<1>p. /\ pc[w] = "admitted" /\ ~full[at[w]]
      /\ full' = [full EXCEPT ![at[w]] = TRUE] /\ pc' = [pc EXCEPT ![w] = "writing"]
      /\ UNCHANGED <<admitted, keys, refs, line, key, at>>
  BY DEF Send
<1>1. TypeOK'
  BY <1>t, <1>p DEF TypeOK
<1>2. OnItsSlot' /\ SlotsApart'
  BY <1>t, <1>p DEF IInv, OnItsSlot, SlotsApart, TypeOK
<1>3. RefsCount' /\ CeilingCounts'
  BY <1>t, <1>p, SameUsers DEF TypeOK
<1>4. TokenHeld'
  BY <1>t, <1>p DEF IInv, TokenHeld, OnItsSlot, TypeOK
<1>5. LineBlocked'
  BY <1>t, <1>p DEF IInv, LineBlocked, TypeOK
<1> QED
  BY <1>1, <1>2, <1>3, <1>4, <1>5 DEF IInv

LEMMA BlockStep ==
  ASSUME IInv, NEW w \in Writer, Block(w)
  PROVE  IInv'
<1>t. TypeOK /\ at[w] \in SlotId
  BY DEF IInv, OnItsSlot, Block
<1>p. /\ pc[w] = "admitted" /\ full[at[w]]
      /\ line' = [line EXCEPT ![at[w]] = Append(@, w)] /\ pc' = [pc EXCEPT ![w] = "blocked"]
      /\ UNCHANGED <<admitted, keys, refs, full, key, at>>
  BY DEF Block
<1>1. TypeOK'
  BY <1>t, <1>p DEF TypeOK
<1>2. OnItsSlot' /\ SlotsApart'
  BY <1>t, <1>p DEF IInv, OnItsSlot, SlotsApart, TypeOK
<1>3. RefsCount' /\ CeilingCounts'
  BY <1>t, <1>p, SameUsers DEF TypeOK
<1>4. TokenHeld'
  BY <1>t, <1>p DEF IInv, TokenHeld, OnItsSlot, TypeOK
<1>5. LineBlocked'
  <2> SUFFICES ASSUME NEW s \in SlotId, NEW i \in 1 .. Len(line'[s])
               PROVE  /\ pc'[line'[s][i]] = "blocked" /\ at[line'[s][i]] = s
                      /\ \A j \in 1 .. Len(line'[s]) : line'[s][i] = line'[s][j] => i = j
    BY <1>p DEF LineBlocked
  <2>1. \A r \in SlotId : \A j \in 1 .. Len(line[r]) : line[r][j] \in Writer /\ line[r][j] # w
    BY <1>t, <1>p DEF IInv, LineBlocked, TypeOK
  <2>2. CASE s # at[w]
    BY <2>1, <2>2, <1>t, <1>p DEF IInv, LineBlocked, TypeOK
  <2>3. CASE s = at[w]
    <3>1. /\ Len(line'[s]) = Len(line[s]) + 1
          /\ line'[s][Len(line[s]) + 1] = w
          /\ \A j \in 1 .. Len(line[s]) : line'[s][j] = line[s][j]
      BY <2>3, <1>t, <1>p DEF TypeOK
    <3>2. Len(line[s]) \in Nat
      BY <1>t DEF TypeOK
    <3> QED
      BY <2>1, <2>3, <3>1, <3>2, <1>t, <1>p DEF IInv, LineBlocked, TypeOK
  <2> QED
    BY <2>2, <2>3
<1> QED
  BY <1>1, <1>2, <1>3, <1>4, <1>5 DEF IInv

(* What Without returns. *)
LEMMA WithoutSeq ==
  ASSUME NEW S, NEW q \in Seq(S), NEW i \in 1 .. Len(q)
  PROVE  /\ Without(q, i) \in Seq(S) /\ Len(Without(q, i)) = Len(q) - 1
         /\ \A j \in 1 .. Len(q) - 1 : Without(q, i)[j] = IF j < i THEN q[j] ELSE q[j + 1]
<1>1. Len(q) - 1 \in Nat
  OBVIOUS
<1>2. \A j \in 1 .. Len(q) - 1 : (IF j < i THEN q[j] ELSE q[j + 1]) \in S
  OBVIOUS
<1> QED
  BY <1>1, <1>2 DEF Without

LEMMA GiveUpStep ==
  ASSUME IInv, NEW w \in Writer, GiveUp(w)
  PROVE  IInv'
<1>t. TypeOK /\ at[w] \in SlotId
  BY DEF IInv, OnItsSlot, GiveUp
<1>p. /\ pc[w] \in {"admitted", "blocked"} /\ pc' = [pc EXCEPT ![w] = "leaving"]
      /\ UNCHANGED <<admitted, keys, refs, full, key, at>>
  BY DEF GiveUp
<1>2. OnItsSlot' /\ SlotsApart'
  BY <1>t, <1>p DEF IInv, OnItsSlot, SlotsApart, TypeOK
<1>3. RefsCount' /\ CeilingCounts'
  BY <1>t, <1>p, SameUsers DEF TypeOK
<1>4. TokenHeld'
  BY <1>t, <1>p DEF IInv, TokenHeld, OnItsSlot, TypeOK
<1>5. CASE pc[w] = "admitted" /\ UNCHANGED line
  <2>1. TypeOK'
    BY <1>5, <1>t, <1>p DEF TypeOK
  <2>2. LineBlocked'
    BY <1>5, <1>t, <1>p DEF IInv, LineBlocked, TypeOK
  <2> QED
    BY <2>1, <2>2, <1>2, <1>3, <1>4 DEF IInv
<1>6. ASSUME NEW i \in 1 .. Len(line[at[w]]), pc[w] = "blocked", line[at[w]][i] = w,
             line' = [line EXCEPT ![at[w]] = Without(@, i)]
      PROVE  IInv'
  <2> DEFINE q == line[at[w]]
  <2>1. q \in Seq(Writer) /\ Len(q) \in Nat
    BY <1>t DEF TypeOK
  <2>2. /\ Without(q, i) \in Seq(Writer) /\ Len(Without(q, i)) = Len(q) - 1
        /\ \A j \in 1 .. Len(q) - 1 : Without(q, i)[j] = IF j < i THEN q[j] ELSE q[j + 1]
    BY <2>1, <1>6, WithoutSeq
  <2>3. TypeOK'
    BY <2>2, <1>6, <1>t, <1>p DEF TypeOK
  <2>4. LineBlocked'
    <3> SUFFICES ASSUME NEW s \in SlotId, NEW m \in 1 .. Len(line'[s])
                 PROVE  /\ pc'[line'[s][m]] = "blocked" /\ at[line'[s][m]] = s
                        /\ \A j \in 1 .. Len(line'[s]) : line'[s][m] = line'[s][j] => m = j
      BY <1>p DEF LineBlocked
    <3>1. CASE s # at[w]
      <4>1. line'[s] = line[s] /\ line[s][m] \in Writer /\ line[s][m] # w
        BY <3>1, <1>6, <1>t DEF TypeOK, IInv, LineBlocked
      <4> QED
        BY <4>1, <1>t, <1>p DEF IInv, LineBlocked, TypeOK
    <3>2. CASE s = at[w]
      <4>1. line'[s] = Without(q, i)
        BY <3>2, <1>6, <1>t DEF TypeOK
      <4>2. /\ \A j \in 1 .. Len(q) : pc[q[j]] = "blocked" /\ at[q[j]] = s /\ q[j] \in Writer
            /\ \A j, l \in 1 .. Len(q) : q[j] = q[l] => j = l
        BY <3>2, <2>1, <1>t DEF IInv, LineBlocked
      <4> DEFINE up(j) == IF j < i THEN j ELSE j + 1
      <4>3. \A j \in 1 .. Len(line'[s]) :
              /\ up(j) \in 1 .. Len(q) /\ up(j) # i /\ line'[s][j] = q[up(j)]
              /\ j \in Nat
        BY <4>1, <2>1, <2>2, <1>6
      <4>4. \A j \in 1 .. Len(line'[s]) : up(j) = up(m) => j = m
        BY <4>3, <1>6
      <4>5. \A j \in 1 .. Len(line'[s]) : q[up(j)] # w
        BY <4>2, <4>3, <1>6
      <4> HIDE DEF up, q
      <4>6. pc'[line'[s][m]] = "blocked" /\ at[line'[s][m]] = s
        <5>1. /\ line'[s][m] = q[up(m)] /\ q[up(m)] # w /\ up(m) \in 1 .. Len(q)
          BY <4>3, <4>5
        <5>2. pc[q[up(m)]] = "blocked" /\ at[q[up(m)]] = s /\ q[up(m)] \in Writer
          BY <4>2, <5>1
        <5>3. \A v \in Writer : v # w => pc'[v] = pc[v]
          BY <1>p, <1>t DEF TypeOK
        <5> QED
          BY <5>1, <5>2, <5>3
      <4>7. ASSUME NEW j \in 1 .. Len(line'[s]), line'[s][m] = line'[s][j] PROVE m = j
        <5>1. q[up(m)] = q[up(j)] /\ up(m) \in 1 .. Len(q) /\ up(j) \in 1 .. Len(q)
          BY <4>3, <4>7
        <5>2. up(j) = up(m)
          BY <4>2, <5>1
        <5> QED
          BY <4>4, <4>7, <5>2
      <4> QED
        BY <4>6, <4>7
    <3> QED
      BY <3>1, <3>2
  <2> QED
    BY <2>3, <2>4, <1>2, <1>3, <1>4 DEF IInv
<1> QED
  BY <1>5, <1>6 DEF GiveUp

LEMMA ReceiveStep ==
  ASSUME IInv, NEW w \in Writer, Receive(w)
  PROVE  IInv'
<1> DEFINE s == at[w]
<1>t. TypeOK /\ s \in SlotId /\ pc[w] = "writing" /\ full[s]
  BY DEF IInv, OnItsSlot, TokenHeld, Receive
<1>u. UNCHANGED <<admitted, keys, refs, key, at>>
  BY DEF Receive
<1>1. CASE /\ line[s] = <<>> /\ full' = [full EXCEPT ![s] = FALSE]
           /\ pc' = [pc EXCEPT ![w] = "leaving"] /\ UNCHANGED line
  <2>1. TypeOK'
    BY <1>1, <1>t, <1>u DEF TypeOK
  <2>2. OnItsSlot' /\ SlotsApart'
    BY <1>1, <1>t, <1>u DEF IInv, OnItsSlot, SlotsApart, TypeOK
  <2>3. RefsCount' /\ CeilingCounts'
    BY <1>1, <1>t, <1>u, SameUsers DEF TypeOK
  <2>4. TokenHeld'
    BY <1>1, <1>t, <1>u DEF IInv, TokenHeld, OnItsSlot, TypeOK
  <2>5. LineBlocked'
    BY <1>1, <1>t, <1>u DEF IInv, LineBlocked, TypeOK
  <2> QED
    BY <2>1, <2>2, <2>3, <2>4, <2>5 DEF IInv
<1>2. CASE /\ line[s] # <<>> /\ line' = [line EXCEPT ![s] = Tail(@)]
           /\ pc' = [pc EXCEPT ![w] = "leaving", ![Head(line[s])] = "writing"]
           /\ UNCHANGED full
  <2> DEFINE h == Head(line[s])
  <2>1. /\ line[s] \in Seq(Writer) /\ Len(line[s]) \in Nat /\ Len(line[s]) # 0
        /\ h = line[s][1] /\ 1 \in 1 .. Len(line[s])
    BY <1>2, <1>t DEF TypeOK
  <2>2. h \in Writer /\ pc[h] = "blocked" /\ at[h] = s /\ h # w
    BY <2>1, <1>t DEF IInv, LineBlocked
  <2>3. /\ Tail(line[s]) \in Seq(Writer) /\ Len(Tail(line[s])) = Len(line[s]) - 1
        /\ \A j \in 1 .. Len(line[s]) - 1 : Tail(line[s])[j] = line[s][j + 1]
    BY <2>1, <1>2
  <2>4. /\ pc'[w] = "leaving" /\ pc'[h] = "writing"
        /\ \A v \in Writer \ {w, h} : pc'[v] = pc[v]
    BY <1>2, <1>t, <2>2 DEF TypeOK
  <2>5. TypeOK'
    BY <1>2, <1>t, <1>u, <2>2, <2>3 DEF TypeOK
  <2>6. OnItsSlot' /\ SlotsApart'
    BY <1>t, <1>u, <2>2, <2>4 DEF IInv, OnItsSlot, SlotsApart, TypeOK
  <2>7. RefsCount' /\ CeilingCounts'
    <3>1. \A v \in Writer : pc'[v] = "idle" <=> pc[v] = "idle"
      BY <1>t, <2>2, <2>4
    <3> QED
      BY <3>1, <1>u, SameUsers
  <2>8. TokenHeld'
    <3>1. \A v \in Writer : pc[v] = "writing" /\ at[v] = s => v = w
      BY <1>t DEF IInv, TokenHeld
    <3> SUFFICES ASSUME NEW v \in Writer, NEW x \in Writer, pc'[v] = "writing"
                 PROVE  full[at[v]] /\ (pc'[x] = "writing" /\ at[x] = at[v] => v = x)
      BY <1>2, <1>u DEF TokenHeld
    <3>2. CASE v = h
      BY <3>1, <3>2, <2>2, <2>4, <1>t
    <3>3. CASE v # h
      <4>1. pc[v] = "writing" /\ v # w
        BY <3>3, <2>4
      <4>2. at[v] # s
        BY <4>1, <3>1
      <4> QED
        BY <4>1, <4>2, <2>2, <2>4 DEF IInv, TokenHeld
    <3> QED
      BY <3>2, <3>3
  <2>9. LineBlocked'
    <3> SUFFICES ASSUME NEW r \in SlotId, NEW i \in 1 .. Len(line'[r])
                 PROVE  /\ pc'[line'[r][i]] = "blocked" /\ at[line'[r][i]] = r
                        /\ \A j \in 1 .. Len(line'[r]) : line'[r][i] = line'[r][j] => i = j
      BY <1>u DEF LineBlocked
    <3>1. CASE r # s
      <4>1. line'[r] = line[r] /\ line[r][i] \in Writer
        BY <3>1, <1>2, <1>t DEF TypeOK
      <4>2. pc[line[r][i]] = "blocked" /\ at[line[r][i]] = r
        BY <4>1 DEF IInv, LineBlocked
      <4>3. line[r][i] # w /\ line[r][i] # h
        BY <4>2, <3>1, <2>2, <1>t
      <4> QED
        BY <4>1, <4>2, <4>3, <2>4 DEF IInv, LineBlocked
    <3>2. CASE r = s
      <4>1. line'[s] = Tail(line[s])
        BY <1>2, <1>t DEF TypeOK
      <4>2. i \in 1 .. Len(line[s]) - 1 /\ i + 1 \in 1 .. Len(line[s]) /\ i \in Nat
        BY <3>2, <4>1, <2>1, <2>3
      <4>3. line'[s][i] = line[s][i + 1] /\ line[s][i + 1] \in Writer
        BY <4>1, <4>2, <2>1, <2>3
      <4>4. pc[line[s][i + 1]] = "blocked" /\ at[line[s][i + 1]] = s
        BY <4>2, <1>t DEF IInv, LineBlocked
      <4>5. line[s][i + 1] # w /\ line[s][i + 1] # h
        BY <4>2, <4>4, <2>1, <1>t DEF IInv, LineBlocked
      <4>6. ASSUME NEW j \in 1 .. Len(line'[s]), line'[s][i] = line'[s][j] PROVE i = j
        <5>1. j \in Nat /\ j + 1 \in 1 .. Len(line[s]) /\ line'[s][j] = line[s][j + 1]
          BY <4>1, <4>6, <2>1, <2>3
        <5>2. \A a, b \in 1 .. Len(line[s]) : line[s][a] = line[s][b] => a = b
          BY <1>t DEF IInv, LineBlocked
        <5>3. line[s][i + 1] = line[s][j + 1]
          BY <5>1, <4>3, <4>6
        <5>4. i + 1 = j + 1
          BY <5>1, <5>2, <5>3, <4>2
        <5> QED
          BY <5>1, <5>4, <4>2
      <4> QED
        BY <3>2, <4>3, <4>4, <4>5, <4>6, <2>4
    <3> QED
      BY <3>1, <3>2
  <2> QED
    BY <2>5, <2>6, <2>7, <2>8, <2>9 DEF IInv
<1> QED
  BY <1>1, <1>2 DEF Receive

LEMMA LeaveStep ==
  ASSUME IInv, NEW w \in Writer, Leave(w)
  PROVE  IInv'
<1>s. PICK s \in SlotId, k \in Key : s = at[w] /\ k = key[w] /\ keys[k] = s
  BY DEF IInv, OnItsSlot, Leave
<1>t. TypeOK /\ s = at[w] /\ k = key[w] /\ keys[k] = s
  BY <1>s DEF IInv
<1>p. /\ pc[w] = "leaving" /\ admitted' = admitted - 1
      /\ refs' = [refs EXCEPT ![s] = @ - 1]
      /\ keys' = [keys EXCEPT ![k] = IF Forgets(w) THEN None ELSE @]
      /\ pc' = [pc EXCEPT ![w] = "idle"] /\ key' = [key EXCEPT ![w] = None]
      /\ at' = [at EXCEPT ![w] = None] /\ UNCHANGED <<full, line>>
  BY <1>s DEF Leave
<1>u. /\ Users(s)' = Users(s) \ {w} /\ w \in Users(s)
      /\ \A r \in SlotId : r # s => Users(r)' = Users(r)
  BY <1>p, <1>t, LaneAssumption DEF Users, TypeOK
<1>r. refs[s] = Cardinality(Users(s)) /\ IsFiniteSet(Users(s)) /\ refs[s] \in Nat /\ refs[s] # 0
  BY <1>t, <1>u, Counting, FS_EmptySet DEF IInv, RefsCount, TypeOK
<1>i. /\ Inside' = Inside \ {w} /\ w \in Inside
      /\ admitted = Cardinality(Inside) /\ admitted \in Nat /\ admitted # 0
  <2>1. Inside' = Inside \ {w} /\ w \in Inside
    BY <1>p, <1>t DEF Inside, TypeOK
  <2> QED
    BY <2>1, Counting, FS_EmptySet DEF IInv, CeilingCounts
<1>f. Forgets(w) => Users(s) = {w}
  <2> SUFFICES ASSUME Forgets(w) PROVE Users(s) = {w}
    OBVIOUS
  <2>1. Cardinality(Users(s)) = 1
    BY <1>r, <1>t DEF Forgets
  <2>2. \E x : Users(s) = {x}
    BY <2>1, <1>r, FS_Singleton
  <2> QED
    BY <2>2, <1>u
<1>1. TypeOK'
  <2>1. admitted' \in 0 .. Limit
    BY <1>p, <1>i, <1>t, LaneAssumption DEF TypeOK
  <2>2. refs' \in [SlotId -> Nat]
    BY <1>p, <1>r, <1>t DEF TypeOK
  <2> QED
    BY <1>p, <1>t, <2>1, <2>2 DEF TypeOK
<1>2. OnItsSlot'
  <2> SUFFICES ASSUME NEW v \in Writer
               PROVE  IF pc'[v] = "idle" THEN at'[v] = None /\ key'[v] = None
                      ELSE key'[v] \in Key /\ at'[v] \in SlotId /\ keys'[key'[v]] = at'[v]
    BY DEF OnItsSlot
  <2>1. CASE v = w
    BY <2>1, <1>p, <1>t DEF TypeOK
  <2>2. CASE v # w
    <3>1. pc'[v] = pc[v] /\ at'[v] = at[v] /\ key'[v] = key[v]
      BY <2>2, <1>p, <1>t DEF TypeOK
    <3>2. Forgets(w) => at[v] # s
      BY <2>2, <1>f DEF Users
    <3>3. CASE pc[v] = "idle"
      BY <3>1, <3>3 DEF IInv, OnItsSlot
    <3>4. CASE pc[v] # "idle"
      <4>1. key[v] \in Key /\ at[v] \in SlotId /\ keys[key[v]] = at[v]
        BY <3>4 DEF IInv, OnItsSlot
      <4>2. keys'[key[v]] = at[v]
        BY <4>1, <3>2, <1>p, <1>t DEF TypeOK
      <4> QED
        BY <3>1, <3>4, <4>1, <4>2
    <3> QED
      BY <3>3, <3>4
  <2> QED
    BY <2>1, <2>2
<1>3. SlotsApart'
  BY <1>p, <1>t DEF TypeOK, IInv, SlotsApart
<1>4. RefsCount'
  <2> SUFFICES ASSUME NEW r \in SlotId PROVE refs'[r] = Cardinality(Users(r)')
    BY DEF RefsCount
  <2>1. CASE r # s
    BY <2>1, <1>u, <1>p, <1>t DEF IInv, RefsCount, TypeOK
  <2>2. CASE r = s
    <3>1. Cardinality(Users(s)') = refs[s] - 1
      BY <1>u, <1>r, FS_RemoveElement
    <3> QED
      BY <3>1, <2>2, <1>p, <1>t DEF TypeOK
  <2> QED
    BY <2>1, <2>2
<1>5. TokenHeld'
  <2> SUFFICES ASSUME NEW v \in Writer, NEW x \in Writer, pc'[v] = "writing"
               PROVE  full[at'[v]] /\ (pc'[x] = "writing" /\ at'[x] = at'[v] => v = x)
    BY <1>p DEF TokenHeld
  <2>1. \A y \in Writer : pc'[y] = "writing" => pc[y] = "writing" /\ at'[y] = at[y]
    BY <1>p, <1>t DEF TypeOK
  <2> QED
    BY <2>1 DEF IInv, TokenHeld
<1>6. LineBlocked'
  <2> SUFFICES ASSUME NEW r \in SlotId, NEW i \in 1 .. Len(line[r])
               PROVE  /\ pc'[line[r][i]] = "blocked" /\ at'[line[r][i]] = r
                      /\ \A j \in 1 .. Len(line[r]) : line[r][i] = line[r][j] => i = j
    BY <1>p DEF LineBlocked
  <2>1. line[r][i] \in Writer /\ pc[line[r][i]] = "blocked" /\ at[line[r][i]] = r
    BY <1>t DEF IInv, LineBlocked, TypeOK
  <2>2. \A j \in 1 .. Len(line[r]) : line[r][i] = line[r][j] => i = j
    BY DEF IInv, LineBlocked
  <2> QED
    BY <2>1, <2>2, <1>p, <1>t DEF TypeOK
<1>7. CeilingCounts'
  <2>1. Cardinality(Inside') = admitted - 1
    BY <1>i, Counting, FS_RemoveElement
  <2> QED
    BY <2>1, <1>p, <1>i, <1>t, LaneAssumption DEF CeilingCounts, TypeOK
<1> QED
  BY <1>1, <1>2, <1>3, <1>4, <1>5, <1>6, <1>7 DEF IInv

LEMMA Stutter == IInv /\ UNCHANGED vars => IInv'
BY DEF vars, IInv, TypeOK, OnItsSlot, SlotsApart, RefsCount, Users, TokenHeld, LineBlocked,
       CeilingCounts, Inside

(***************************************************************************)
(* The theorems.                                                           *)
(***************************************************************************)

(* IInv holds in every reachable state. *)
THEOREM Inductive == Spec => []IInv
<1>1. IInv /\ [Next]_vars => IInv'
  BY AdmitStep, SendStep, BlockStep, GiveUpStep, ReceiveStep, LeaveStep, Stutter DEF Next
<1> QED
  BY <1>1, InitHolds, PTL DEF Spec

(* Two writers never type into one terminal. *)
THEOREM OneWriterHolds == Spec => []OneWriter
<1>1. IInv => OneWriter
  BY DEF IInv, OneWriter, OnItsSlot, TokenHeld
<1> QED
  BY <1>1, Inductive, PTL

(* The ceiling counts everybody inside, exactly, and is never passed. *)
THEOREM CeilingHolds == Spec => []CeilingCounts
<1>1. IInv => CeilingCounts
  BY DEF IInv
<1> QED
  BY <1>1, Inductive, PTL

(***************************************************************************)
(* No slot is left behind: with IInv, this is inductive as it stands.      *)
(***************************************************************************)

(* The key of a writer inside has its slot. *)
LEMMA InsideHasSlot == IInv => \A w \in Inside : key[w] \in Key /\ keys[key[w]] # None
BY LaneAssumption DEF IInv, OnItsSlot, Inside

(* A writer that stays inside keeps its key. *)
LEMMA StaysInside ==
  ASSUME IInv, NoSlotLeft, UNCHANGED <<keys, key>>,
         \A w \in Writer : pc'[w] = "idle" <=> pc[w] = "idle"
  PROVE  NoSlotLeft'
<1>1. Inside' = Inside
  BY DEF Inside
<1> QED
  BY <1>1 DEF NoSlotLeft

LEMMA AdmitLeaves ==
  ASSUME IInv, NoSlotLeft, IInv', NEW w \in Writer, NEW k \in Key, Admit(w, k)
  PROVE  NoSlotLeft'
<1>1. w \in Inside' /\ key'[w] = k
  BY DEF Admit, Inside, IInv, TypeOK
<1>2. \A v \in Inside : v \in Inside' /\ key'[v] = key[v]
  BY DEF Admit, Inside, IInv, TypeOK
<1>3. \A j \in Key : j # k => keys'[j] = keys[j]
  BY DEF Admit, IInv, TypeOK
<1>4. ASSUME NEW j \in Key, keys'[j] # None PROVE \E v \in Inside' : key'[v] = j
  BY <1>1, <1>2, <1>3, <1>4 DEF NoSlotLeft
<1>5. \A v \in Inside' : keys'[key'[v]] # None
  <2>1. (\A v \in Inside : key[v] \in Key /\ keys[key[v]] # None)'
    BY InsideHasSlot, LaneAssumption DEF IInv, OnItsSlot, Inside
  <2> QED
    BY <2>1
<1> QED
  BY <1>4, <1>5 DEF NoSlotLeft

(* The last user of a slot takes its key out of the map, and only the      *)
(* last one does.                                                          *)
LEMMA LeaveLeaves ==
  ASSUME IInv, NoSlotLeft, IInv', NEW w \in Writer, Leave(w)
  PROVE  NoSlotLeft'
<1>t. TypeOK /\ key[w] \in Key /\ at[w] \in SlotId /\ keys[key[w]] = at[w]
  BY DEF IInv, OnItsSlot, Leave
<1>1. Inside' = Inside \ {w}
  BY <1>t DEF Leave, Inside, TypeOK
<1>2. \A v \in Inside' : key'[v] = key[v]
  BY <1>1, <1>t DEF Leave, TypeOK, Inside
<1>3. \A v \in Inside' : keys'[key'[v]] # None
  BY LaneAssumption DEF IInv, OnItsSlot, Inside
<1>4. ASSUME NEW j \in Key, keys'[j] # None PROVE \E v \in Inside' : key'[v] = j
  <2>1. CASE j # key[w]
    <3>1. keys'[j] = keys[j]
      BY <2>1, <1>t DEF Leave, TypeOK
    <3> QED
      BY <2>1, <3>1, <1>1, <1>2, <1>4 DEF NoSlotLeft
  <2>2. CASE j = key[w]
    <3>1. ~Forgets(w)
      BY <2>2, <1>4, <1>t DEF Leave, TypeOK
    <3>2. refs[at[w]] # 1
      BY <3>1, <1>t DEF Forgets
    <3>3. PICK v \in Users(at[w]) : v # w
      <4>1. Users(at[w]) # {w}
        BY <3>2, <1>t, FS_Singleton DEF IInv, RefsCount
      <4>2. w \in Users(at[w])
        BY DEF Users
      <4> QED
        BY <4>1, <4>2
    <3>4. v \in Inside /\ at[v] = at[w] /\ at[v] # None
      BY <3>3, <1>t, LaneAssumption DEF Users, Inside, IInv, OnItsSlot
    <3>5. key[v] \in Key /\ keys[key[v]] = at[v]
      BY <3>4 DEF Inside, IInv, OnItsSlot
    <3>6. key[v] = key[w]
      BY <3>4, <3>5, <1>t DEF IInv, SlotsApart
    <3> QED
      BY <2>2, <3>3, <3>4, <3>6, <1>1, <1>2
  <2> QED
    BY <2>1, <2>2
<1> QED
  BY <1>3, <1>4 DEF NoSlotLeft

LEMMA SlotsKept == IInv /\ IInv' /\ NoSlotLeft /\ [Next]_vars => NoSlotLeft'
<1> SUFFICES ASSUME IInv, IInv', NoSlotLeft, [Next]_vars PROVE NoSlotLeft'
  OBVIOUS
<1>t. TypeOK
  BY DEF IInv
<1>1. ASSUME NEW w \in Writer, Send(w) \/ Block(w) \/ GiveUp(w) PROVE NoSlotLeft'
  BY <1>1, <1>t, StaysInside DEF Send, Block, GiveUp, TypeOK
<1>2. ASSUME NEW w \in Writer, Receive(w) PROVE NoSlotLeft'
  <2>1. at[w] \in SlotId /\ pc[w] = "writing"
    BY <1>2 DEF Receive, IInv, OnItsSlot
  <2>2. CASE line[at[w]] = <<>>
    BY <1>2, <1>t, <2>1, <2>2, StaysInside DEF Receive, TypeOK
  <2>3. CASE line[at[w]] # <<>>
    <3>1. line[at[w]] \in Seq(Writer) /\ 1 \in 1 .. Len(line[at[w]])
      BY <1>t, <2>1, <2>3 DEF TypeOK
    <3>2. Head(line[at[w]]) = line[at[w]][1] /\ Head(line[at[w]]) \in Writer
      BY <3>1, <2>3
    <3>3. pc[Head(line[at[w]])] = "blocked"
      BY <2>1, <3>1, <3>2 DEF IInv, LineBlocked
    <3>4. pc' = [pc EXCEPT ![w] = "leaving", ![Head(line[at[w]])] = "writing"] /\ UNCHANGED <<keys, key>>
      BY <1>2, <2>3 DEF Receive
    <3> HIDE DEF TypeOK
    <3>5. \A v \in Writer : pc'[v] = "idle" <=> pc[v] = "idle"
      BY <1>t, <2>1, <3>2, <3>3, <3>4 DEF TypeOK
    <3> QED
      BY <3>4, <3>5, StaysInside
  <2> QED
    BY <2>2, <2>3
<1>3. CASE UNCHANGED vars
  BY <1>3, StaysInside DEF vars
<1> QED
  BY <1>1, <1>2, <1>3, AdmitLeaves, LeaveLeaves DEF Next

(* The map keeps a slot exactly while somebody uses its key. *)
THEOREM SlotsForgotten == Spec => []NoSlotLeft
<1>1. Init => NoSlotLeft
  BY DEF Init, NoSlotLeft, Inside
<1> QED
  BY <1>1, SlotsKept, Inductive, PTL DEF Spec
=============================================================================
