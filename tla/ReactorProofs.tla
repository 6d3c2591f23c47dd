------------------------------ MODULE ReactorProofs ------------------------------
(***************************************************************************)
(* Theorems about Reactor, for any descriptors and any number of events.   *)
(***************************************************************************)
EXTENDS Reactor, QueueLemmas, SequenceTheorems, FiniteSetTheorems, TLAPS

-------------------------------------------------------------------------------
(* Tables that grow, and the number of places of an element in a queue *)

LEMMA TableGrows ==
  ASSUME NEW n \in Nat, NEW S, NEW f \in [1 .. n -> S], NEW x \in S
  PROVE  /\ Append(f, x) \in [1 .. n + 1 -> S]
         /\ \A i \in 1 .. n : Append(f, x)[i] = f[i]
         /\ Append(f, x)[n + 1] = x
<1>1. f \in Seq(S) /\ Len(f) = n
  BY SeqDef
<1> DEFINE g == Append(f, x)
<1>2. /\ g \in Seq(S) /\ Len(g) = n + 1
      /\ \A i \in 1 .. n : g[i] = f[i]
      /\ g[n + 1] = x
  BY <1>1, AppendProperties
<1> HIDE DEF g
<1>3. g \in [1 .. n + 1 -> S]
  BY <1>2
<1>. QED
  BY <1>2, <1>3 DEF g

Spots(e, q) == {i \in DOMAIN q : q[i] = e}

LEMMA SpotsFinite ==
  ASSUME NEW S, NEW q \in Seq(S), NEW e
  PROVE  IsFiniteSet(Spots(e, q)) /\ Times(e, q) \in Nat /\ Times(e, q) = Cardinality(Spots(e, q))
<1>1. DOMAIN q = 1 .. Len(q) /\ Len(q) \in Nat
  OBVIOUS
<1>2. IsFiniteSet(Spots(e, q))
  <2>1. IsFiniteSet(1 .. Len(q))
    BY <1>1, FS_Interval
  <2>2. Spots(e, q) \in SUBSET (1 .. Len(q))
    BY <1>1 DEF Spots
  <2>. QED
    BY <2>1, <2>2, FS_Subset
<1>3. Times(e, q) = Cardinality(Spots(e, q))
  BY DEF Times, Spots
<1>. QED
  BY <1>2, <1>3, FS_CardinalityType

LEMMA TimesOfNone ==
  ASSUME NEW S, NEW q \in Seq(S), NEW e, e \notin Elements(q)
  PROVE  Times(e, q) = 0
<1>1. Spots(e, q) = {}
  BY DEF Elements, Spots
<1>. QED
  BY <1>1, SpotsFinite, FS_EmptySet

LEMMA TimesPush ==
  ASSUME NEW S, NEW q \in Seq(S), NEW x \in S, NEW e
  PROVE  Times(e, Append(q, x)) = Times(e, q) + (IF e = x THEN 1 ELSE 0)
<1> DEFINE p == Append(q, x)
           n == Len(q) + 1
<1>1. /\ DOMAIN p = 1 .. n /\ DOMAIN q = 1 .. Len(q) /\ Len(q) \in Nat
      /\ \A i \in DOMAIN q : p[i] = q[i]
      /\ p[n] = x
      /\ p \in Seq(S)
  OBVIOUS
<1> HIDE DEF p
<1>2. n \notin Spots(e, q) /\ IsFiniteSet(Spots(e, q)) /\ Times(e, q) \in Nat
  BY <1>1, SpotsFinite DEF Spots
<1>3. CASE e = x
  <2>1. Spots(e, p) = Spots(e, q) \cup {n}
    BY <1>1, <1>3 DEF Spots
  <2> HIDE DEF n
  <2>2. Cardinality(Spots(e, p)) = Cardinality(Spots(e, q)) + 1
    BY <1>2, <2>1, FS_AddElement
  <2>3. /\ Times(e, p) = Cardinality(Spots(e, p))
        /\ Times(e, q) = Cardinality(Spots(e, q))
    BY <1>1, SpotsFinite
  <2>. QED
    BY <1>3, <2>2, <2>3 DEF p
<1>4. CASE e # x
  <2>1. Spots(e, p) = Spots(e, q)
    BY <1>1, <1>4 DEF Spots
  <2>2. /\ Times(e, p) = Cardinality(Spots(e, p))
        /\ Times(e, q) = Cardinality(Spots(e, q))
    BY <1>1, SpotsFinite
  <2>. QED
    BY <1>2, <1>4, <2>1, <2>2 DEF p
<1>. QED
  BY <1>3, <1>4

LEMMA TimesPop ==
  ASSUME NEW S, NEW q \in Seq(S), q # <<>>, NEW e
  PROVE  /\ Times(e, Tail(q)) = Times(e, q) - (IF e = Head(q) THEN 1 ELSE 0)
         /\ e = Head(q) => Times(e, q) >= 1
<1> DEFINE p == Tail(q)
           h == Head(q)
           A == Spots(e, p)
           B == Spots(e, q) \ {1}
           f == [i \in A |-> i + 1]
<1>1. /\ Len(q) \in Nat \ {0}
      /\ DOMAIN q = 1 .. Len(q)
      /\ DOMAIN p = 1 .. Len(q) - 1
      /\ \A i \in DOMAIN p : i + 1 \in DOMAIN q /\ p[i] = q[i + 1]
      /\ h = q[1]
      /\ p \in Seq(S)
  OBVIOUS
<1> HIDE DEF p, h
<1>2. IsFiniteSet(A) /\ IsFiniteSet(Spots(e, q)) /\ IsFiniteSet(B)
  BY <1>1, SpotsFinite, FS_RemoveElement
<1>3. f \in Bijection(A, B)
  <2>1. \A i \in A : i \in Nat /\ i # 0 /\ i + 1 \in B
    BY <1>1 DEF Spots
  <2>2. \A j \in B : j - 1 \in A /\ (j - 1) + 1 = j
    <3> SUFFICES ASSUME NEW j \in B PROVE j - 1 \in A /\ (j - 1) + 1 = j
      OBVIOUS
    <3>1. j \in 2 .. Len(q) /\ q[j] = e
      BY <1>1 DEF Spots
    <3>2. j - 1 \in DOMAIN p /\ (j - 1) + 1 = j
      BY <1>1, <3>1
    <3>. QED
      BY <1>1, <3>1, <3>2 DEF Spots
  <2> HIDE DEF A, B
  <2>3. f \in [A -> B]
    BY <2>1
  <2>4. \A i, j \in A : f[i] = f[j] => i = j
    BY <2>1
  <2>5. \A j \in B : \E i \in A : f[i] = j
    BY <2>2
  <2> HIDE DEF f
  <2>6. f \in Injection(A, B) /\ f \in Surjection(A, B)
    BY <2>3, <2>4, <2>5 DEF Injection, Surjection, IsInjective
  <2>. QED
    BY <2>6 DEF Bijection
<1>4. Cardinality(B) = Cardinality(A)
  <2> HIDE DEF A, B, f
  <2>. QED
    BY <1>2, <1>3, FS_Bijection DEF ExistsBijection
<1>5. Cardinality(B) = IF 1 \in Spots(e, q) THEN Times(e, q) - 1 ELSE Times(e, q)
  <2>1. Times(e, q) = Cardinality(Spots(e, q))
    BY SpotsFinite
  <2>. QED
    BY <1>2, <2>1, FS_RemoveElement
<1>6. 1 \in Spots(e, q) <=> e = h
  BY <1>1 DEF Spots
<1>7. Times(e, p) = Cardinality(A)
  BY <1>1, SpotsFinite
<1>8. Cardinality(A) \in Nat /\ Times(e, q) \in Nat
  BY <1>1, <1>7, SpotsFinite
<1> DEFINE k == Cardinality(A)
           n == Times(e, q)
<1>9. k \in Nat /\ n \in Nat /\ Times(e, p) = k /\ k = IF e = h THEN n - 1 ELSE n
  BY <1>4, <1>5, <1>6, <1>7, <1>8
<1> HIDE DEF k, n
<1>10. /\ Times(e, p) = n - (IF e = h THEN 1 ELSE 0)
       /\ e = h => n >= 1
  BY <1>9
<1>. QED
  BY <1>10 DEF p, h, n

-------------------------------------------------------------------------------
(* The invariant *)

FlagSets == SUBSET {"READ", "WRITE", "PERSIST"}

Plain ==
  /\ {sized, validTv, crashed} \subseteq BOOLEAN
  /\ adds \in 0 .. MaxAdds
  /\ fd \in [Copies -> Fds]
  /\ flags \in [Copies -> FlagSets]
  /\ fired \in [Copies -> 0 .. 2]
  /\ at \in {"new", "select", "scan", "process", "call"}
  /\ ready \subseteq readset /\ readset \subseteq Fds /\ fdmax \in {0} \cup Fds
  /\ readable \subseteq open /\ open \subseteq Fds /\ persist \subseteq Copies
  /\ queue \in Seq(Copies)
  /\ iomap \in [Fds -> Seq(Copies)] /\ visit \in Seq(Copies)
  /\ at = "call" => queue # <<>>

\* A copy stands at most once in the map, in the list of its descriptor, and unless its
\* flags are spent: the walked part of a list and the rest of it have none in common.
Listed ==
  /\ \A f \in Fds :
       /\ Distinct(iomap[f])
       /\ \A e \in Elements(iomap[f]) : fd[e] = f /\ InPlace(e) /\ e \notin Elements(visit)
  /\ Distinct(visit)
  /\ \A e, d \in Elements(visit) : fd[e] = fd[d] /\ InPlace(e)

Counted == activate \in [Copies -> Nat] /\ OneFlagPerActivation

\* The activations that are still to be called.
Uncalled(e) == activate[e] - (IF at = "call" /\ Head(queue) = e THEN 1 ELSE 0)

\* A copy without EV_PERSIST is activated and called only as long as EV_READ is among
\* its flags, which the first activation takes away.
Once ==
  \A e \in Copies :
    \/ e \in persist
    \/ /\ "PERSIST" \notin flags[e]
       /\ "READ" \in flags[e] => activate[e] = 0 /\ fired[e] = 0
       /\ fired[e] + Uncalled(e) <= 1

LEMMA MembersAreElements == \A q : Members(q) = Elements(q)
  BY DEF Members, Elements

LEMMA PlainTypes == Plain /\ Listed /\ Counted => TypeOK
  BY MembersAreElements DEF Plain, Listed, Counted, TypeOK, FlagSets

LEMMA InitInv == Init => Plain /\ Listed /\ Counted /\ Once
<1> SUFFICES ASSUME Init PROVE Plain /\ Listed /\ Counted /\ Once
  OBVIOUS
<1>1. Copies = {}
  BY DEF Init, Copies
<1>2. <<>> \in [{} -> Fds] /\ <<>> \in [{} -> FlagSets] /\ <<>> \in [{} -> 0 .. 2]
      /\ <<>> \in [{} -> Nat]
  OBVIOUS
<1>3. Plain
  <2>1. adds \in 0 .. MaxAdds /\ {sized, validTv, crashed} \subseteq BOOLEAN
    <3>1. 0 \in 0 .. MaxAdds
      BY AddsAssumption
    <3>2. sized \in BOOLEAN /\ validTv \in BOOLEAN /\ crashed \in BOOLEAN /\ adds = 0
      BY DEF Init
    <3>. QED
      BY <3>1, <3>2
  <2>2. /\ fd \in [{} -> Fds] /\ flags \in [{} -> FlagSets] /\ fired \in [{} -> 0 .. 2]
        /\ iomap \in [Fds -> Seq({})]
    BY <1>2 DEF Init
  <2>3. /\ at = "new" /\ ready = {} /\ readset = {} /\ fdmax = 0 /\ readable = {}
        /\ open = Fds /\ persist = {} /\ queue = <<>> /\ visit = <<>>
    BY DEF Init
  <2>. QED
    BY <1>1, <2>1, <2>2, <2>3 DEF Plain
<1>4. Listed
  BY DEF Init, Listed, Elements, Distinct
<1>5. Counted /\ Once
  BY <1>1, <1>2 DEF Init, Counted, OneFlagPerActivation, Once
<1>. QED
  BY <1>3, <1>4, <1>5

\* The callback that runs has an activation.
LEMMA CalledIsActive ==
  ASSUME Plain, Counted, queue # <<>>
  PROVE  Head(queue) \in Copies /\ activate[Head(queue)] >= 1
<1>1. queue \in Seq(Copies) /\ Head(queue) \in Copies
  BY DEF Plain
<1>2. Times(Head(queue), queue) >= 1
  BY <1>1, TimesPop
<1>. QED
  BY <1>1, <1>2 DEF Counted, OneFlagPerActivation

LEMMA ListedAreCopies ==
  Plain => /\ \A g \in Fds : \A e \in Elements(iomap[g]) : e \in Copies
           /\ \A e \in Elements(visit) : e \in Copies
<1>1. ASSUME NEW q \in Seq(Copies) PROVE \A e \in Elements(q) : e \in Copies
  BY DEF Elements
<1>. QED
  BY <1>1 DEF Plain

LEMMA CopiesAre == Plain => Copies = 1 .. adds /\ adds \in Nat
  BY AddsAssumption DEF Plain, Copies

\* evmap_io_add.
LEMMA AddKeeps ==
  ASSUME Plain, Listed, Counted, Once, NEW f \in Fds, NEW fl \in FlagSets, Add(f, fl)
  PROVE  Plain' /\ Listed' /\ Counted' /\ Once'
<1> DEFINE new == adds + 1
<1>1. /\ Copies = 1 .. adds /\ adds \in Nat /\ Copies' = 1 .. new /\ adds' = new
      /\ adds' \in 0 .. MaxAdds
  BY AddsAssumption DEF Add, Plain, Copies
<1>2. /\ fd' = Append(fd, f) /\ flags' = Append(flags, fl)
      /\ activate' = Append(activate, 0) /\ fired' = Append(fired, 0)
      /\ iomap' = [iomap EXCEPT ![f] = Append(@, new)]
      /\ persist' = persist \cup (IF "PERSIST" \in fl THEN {new} ELSE {})
      /\ SelectAdd(f, fl)
      /\ UNCHANGED <<config, visit, queue, at, ready, world, crashed>>
  BY DEF Add
<1>3. /\ fd \in [1 .. adds -> Fds] /\ flags \in [1 .. adds -> FlagSets]
      /\ activate \in [1 .. adds -> Nat] /\ fired \in [1 .. adds -> 0 .. 2]
      /\ queue \in Seq(1 .. adds) /\ visit \in Seq(1 .. adds)
      /\ iomap \in [Fds -> Seq(1 .. adds)]
      /\ persist \subseteq 1 .. adds
  BY <1>1 DEF Plain, Counted
<1>4. /\ fd' \in [1 .. new -> Fds] /\ (\A i \in 1 .. adds : fd'[i] = fd[i])
      /\ fd'[new] = f
  <2>1. fd \in [1 .. adds -> Fds] /\ f \in Fds /\ fd' = Append(fd, f)
    BY <1>2, <1>3
  <2>. QED
    BY <1>1, <2>1, TableGrows
<1>5. /\ flags' \in [1 .. new -> FlagSets] /\ (\A i \in 1 .. adds : flags'[i] = flags[i])
      /\ flags'[new] = fl
  <2>1. flags \in [1 .. adds -> FlagSets] /\ fl \in FlagSets /\ flags' = Append(flags, fl)
    BY <1>2, <1>3
  <2>. QED
    BY <1>1, <2>1, TableGrows
<1>6. /\ activate' \in [1 .. new -> Nat] /\ (\A i \in 1 .. adds : activate'[i] = activate[i])
      /\ activate'[new] = 0
  <2> DEFINE S == Nat
             z == 0
  <2>1. activate \in [1 .. adds -> S] /\ z \in S /\ activate' = Append(activate, z)
    BY <1>2, <1>3
  <2> HIDE DEF S, z
  <2>2. /\ activate' \in [1 .. new -> S] /\ (\A i \in 1 .. adds : activate'[i] = activate[i])
        /\ activate'[new] = z
    BY <1>1, <2>1, TableGrows
  <2>. QED
    BY <2>2 DEF S, z
<1>7. /\ fired' \in [1 .. new -> 0 .. 2] /\ (\A i \in 1 .. adds : fired'[i] = fired[i])
      /\ fired'[new] = 0
  <2> DEFINE S == 0 .. 2
             z == 0
  <2>1. fired \in [1 .. adds -> S] /\ z \in S /\ fired' = Append(fired, z)
    BY <1>2, <1>3
  <2> HIDE DEF S, z
  <2>2. /\ fired' \in [1 .. new -> S] /\ (\A i \in 1 .. adds : fired'[i] = fired[i])
        /\ fired'[new] = z
    BY <1>1, <2>1, TableGrows
  <2>. QED
    BY <2>2 DEF S, z
<1>8. 1 .. adds \subseteq 1 .. new /\ new \in 1 .. new /\ new \notin 1 .. adds
      /\ \A i \in 1 .. new : i \in 1 .. adds \/ i = new
  BY <1>1
<1> HIDE DEF new
<1>9. /\ queue' \in Seq(1 .. new) /\ visit' \in Seq(1 .. new)
      /\ \A g \in Fds : iomap[g] \in Seq(1 .. new)
  BY <1>2, <1>3, <1>8, SeqMonotonic
<1>10. /\ iomap' \in [Fds -> Seq(1 .. new)]
       /\ Elements(iomap'[f]) = Elements(iomap[f]) \cup {new}
       /\ Distinct(iomap[f]) /\ new \notin Elements(iomap[f]) => Distinct(iomap'[f])
       /\ \A g \in Fds : g # f => iomap'[g] = iomap[g]
  BY <1>2, <1>3, <1>8, <1>9, PushElements
<1>11. /\ fdmax' \in {0} \cup Fds /\ readset' \subseteq Fds /\ readset \subseteq readset'
  BY <1>2 DEF SelectAdd, Plain
<1>12. Plain'
  <2>1. persist' \subseteq 1 .. new
    BY <1>2, <1>3, <1>8
  <2>. QED
    BY <1>1, <1>2, <1>4, <1>5, <1>7, <1>9, <1>10, <1>11, <2>1
    DEF Plain, config, world
<1>13. /\ \A g \in Fds : \A e \in Elements(iomap[g]) : e \in 1 .. adds
       /\ \A e \in Elements(visit) : e \in 1 .. adds
       /\ \A e \in Elements(queue) : e \in 1 .. adds
  <2>1. ASSUME NEW S, NEW q \in Seq(S) PROVE Elements(q) \subseteq S
    BY DEF Elements
  <2>2. \A q \in Seq(1 .. adds) : Elements(q) \subseteq 1 .. adds
    BY <2>1
  <2>. QED
    BY <1>3, <2>2
<1>14. Listed'
  <2>0. /\ \A e \in 1 .. adds : InPlace(e)' = InPlace(e)
        /\ \A e \in 1 .. new : e = new => InPlace(e)'
    BY <1>5, <1>6, <1>7, <1>8 DEF InPlace
  <2>1. ASSUME NEW g \in Fds
        PROVE  /\ Distinct(iomap'[g])
               /\ \A e \in Elements(iomap'[g]) :
                    fd'[e] = g /\ InPlace(e)' /\ e \notin Elements(visit')
    <3>1. CASE g = f
      <4>1. /\ Distinct(iomap[f])
            /\ \A e \in Elements(iomap[f]) :
                 e \in 1 .. adds /\ fd[e] = f /\ InPlace(e) /\ e \notin Elements(visit)
        BY <1>13 DEF Listed
      <4>2. \A e \in Elements(iomap[f]) :
              fd'[e] = f /\ InPlace(e)' /\ e \notin Elements(visit')
        BY <1>2, <1>4, <2>0, <4>1
      <4>3. fd'[new] = f /\ new \notin Elements(visit') /\ Distinct(iomap'[f])
        BY <1>2, <1>4, <1>8, <1>10, <1>13, <4>1
      <4>4. \A e \in {new} : fd'[e] = f /\ InPlace(e)' /\ e \notin Elements(visit')
        BY <1>8, <2>0, <4>3
      <4>. QED
        BY <1>10, <3>1, <4>2, <4>3, <4>4
    <3>2. CASE g # f
      BY <1>2, <1>4, <1>8, <1>10, <1>13, <2>0, <3>2 DEF Listed
    <3>. QED
      BY <3>1, <3>2
  <2>2. /\ Distinct(visit')
        /\ \A e, d \in Elements(visit') : fd'[e] = fd'[d] /\ InPlace(e)'
    <3>1. visit' = visit /\ \A e \in Elements(visit) : fd'[e] = fd[e] /\ InPlace(e)' = InPlace(e)
      BY <1>2, <1>4, <1>13, <2>0
    <3>. QED
      BY <3>1 DEF Listed
  <2>. QED
    BY <2>1, <2>2 DEF Listed
<1>15. Counted'
  <2>1. Times(new, queue) = 0
    BY <1>3, <1>8, <1>13, TimesOfNone
  <2>2. \A e \in 1 .. new : activate'[e] = Times(e, queue)
    BY <1>1, <1>6, <1>8, <2>1 DEF Counted, OneFlagPerActivation
  <2>3. \A e \in 1 .. new : Times(e, queue)' = Times(e, queue)
    BY <1>2 DEF Times
  <2>. QED
    BY <1>1, <1>6, <2>2, <2>3 DEF Counted, OneFlagPerActivation
<1>16. Once'
  <2>1. at = "call" => Head(queue) \in 1 .. adds
    <3>1. queue \in Seq(1 .. adds) /\ (at = "call" => queue # <<>>)
      BY <1>3 DEF Plain
    <3>. QED
      BY <3>1, HeadTailProperties
  <2> SUFFICES ASSUME NEW e \in 1 .. new, e \notin persist'
               PROVE  /\ "PERSIST" \notin flags'[e]
                      /\ "READ" \in flags'[e] => activate'[e] = 0 /\ fired'[e] = 0
                      /\ fired'[e] + Uncalled(e)' <= 1
    BY <1>1 DEF Once
  <2>2. CASE e \in 1 .. adds
    <3>1. Uncalled(e)' = Uncalled(e)
      BY <1>2, <1>6, <2>2 DEF Uncalled
    <3>. QED
      BY <1>1, <1>2, <1>5, <1>6, <1>7, <2>2, <3>1 DEF Once
  <2>3. CASE e = new
    <3>1. Uncalled(e)' = 0
      BY <1>2, <1>6, <1>8, <2>1, <2>3 DEF Uncalled
    <3>. QED
      BY <1>2, <1>5, <1>6, <1>7, <2>3, <3>1
  <2>. QED
    BY <1>8, <2>2, <2>3
<1>. QED
  BY <1>12, <1>14, <1>15, <1>16

\* The steps that leave the events alone.
LEMMA QuietKeeps ==
  ASSUME Plain, Listed, Counted, Once,
         \/ Begin \/ Select \/ SelectFails \/ VisitUnsized \/ EndScan \/ EndPass
         \/ (\E f \in Fds : Arrive(f) \/ Close(f) \/ Reopen(f)) \/ UNCHANGED vars
  PROVE  Plain' /\ Listed' /\ Counted' /\ Once'
<1> USE DEF config, copies, active, sets, world
<1>1. /\ UNCHANGED <<sized, validTv, copies, active, sets, fired>>
      /\ at' = at \/ (at # "call" /\ at' \in {"select", "scan", "process"})
      /\ crashed' = crashed \/ crashed' = TRUE
      /\ ready' = ready \/ ready' = {g \in readset \cap readable : g <= fdmax}
      /\ readable' \subseteq open' /\ open' \subseteq Fds
  BY DEF Begin, Select, SelectFails, VisitUnsized, EndScan, EndPass, Arrive, Close, Reopen,
     vars, Plain
<1>2. Copies' = Copies
  BY <1>1 DEF Copies
<1>3. Plain'
  <2>1. ready' \subseteq readset'
    BY <1>1 DEF Plain
  <2>2. {sized, validTv, crashed}' \subseteq BOOLEAN
    BY <1>1 DEF Plain
  <2>3. readable' \subseteq open' /\ open' \subseteq Fds
    BY <1>1 DEF Plain
  <2>4. at' \in {"new", "select", "scan", "process", "call"} /\ (at' = "call" => queue' # <<>>)
    BY <1>1 DEF Plain
  <2>. QED
    BY <1>1, <1>2, <2>1, <2>2, <2>3, <2>4 DEF Plain
<1>4. Listed' /\ Counted'
  <2>1. \A e : InPlace(e)' = InPlace(e)
    BY <1>1 DEF InPlace
  <2>. QED
    BY <1>1, <1>2, <2>1 DEF Listed, Counted, OneFlagPerActivation, Times
<1>5. Once'
  <2>1. \A e \in Copies : Uncalled(e)' = Uncalled(e)
    BY <1>1 DEF Uncalled
  <2>. QED
    BY <1>1, <1>2, <2>1 DEF Once
<1>. QED
  BY <1>3, <1>4, <1>5

\* evmap_io_active sets out on a list.
LEMMA ScanKeeps ==
  ASSUME Plain, Listed, Counted, Once, NEW f \in Fds, Scan(f)
  PROVE  Plain' /\ Listed' /\ Counted' /\ Once'
<1> USE DEF config, copies, active, sets, world
<1>1. /\ visit' = iomap[f] /\ iomap' = [iomap EXCEPT ![f] = <<>>]
      /\ ready' \subseteq ready
      /\ UNCHANGED <<config, copies, activate, queue, sets, at, world, fired, crashed>>
  BY DEF Scan
<1>2. Copies' = Copies
  BY <1>1 DEF Copies
<1>3. Plain'
  <2>1. iomap' \in [Fds -> Seq(Copies)] /\ visit' \in Seq(Copies)
    BY <1>1 DEF Plain
  <2>. QED
    BY <1>1, <1>2, <2>1 DEF Plain
<1>4. Listed'
  <2>1. iomap'[f] = <<>> /\ \A g \in Fds : g # f => iomap'[g] = iomap[g]
    BY <1>1 DEF Plain
  <2>2. Elements(<<>>) = {} /\ Distinct(<<>>)
    BY DEF Elements, Distinct
  <2>3. \A e : InPlace(e)' = InPlace(e)
    BY <1>1 DEF InPlace
  <2>. QED
    BY <1>1, <2>1, <2>2, <2>3 DEF Listed
<1>5. Counted' /\ Once'
  <2>1. \A e \in Copies : Uncalled(e)' = Uncalled(e)
    BY <1>1 DEF Uncalled
  <2>. QED
    BY <1>1, <1>2, <2>1 DEF Counted, OneFlagPerActivation, Times, Once
<1>. QED
  BY <1>3, <1>4, <1>5

\* One round of the loop of evmap_io_active.
LEMMA VisitKeeps ==
  ASSUME Plain, Listed, Counted, Once, Visit
  PROVE  Plain' /\ Listed' /\ Counted' /\ Once'
<1> USE DEF config, sets, world
<1> DEFINE h == Head(visit)
<1>1. /\ at = "scan" /\ visit # <<>> /\ visit' = Tail(visit)
      /\ \/ /\ Reads(h)
            /\ activate' = [activate EXCEPT ![h] = @ + 1] /\ queue' = Append(queue, h)
         \/ ~Reads(h) /\ activate' = activate /\ queue' = queue
      /\ flags' = [flags EXCEPT ![h] = Spent(h)]
      /\ iomap' = IF Spent(h) = {} THEN iomap ELSE [iomap EXCEPT ![fd[h]] = Append(@, h)]
      /\ UNCHANGED <<config, adds, fd, persist, sets, at, ready, world, fired, crashed>>
  BY DEF Visit, Keep
<1>2. /\ visit \in Seq(Copies) /\ Distinct(visit) /\ queue \in Seq(Copies)
      /\ iomap \in [Fds -> Seq(Copies)]
      /\ flags \in [Copies -> FlagSets] /\ fd \in [Copies -> Fds]
      /\ activate \in [Copies -> Nat]
  BY DEF Plain, Listed, Counted
<1>3. /\ h \in Copies /\ h \in Elements(visit) /\ fd[h] \in Fds
      /\ visit' \in Seq(Copies) /\ Distinct(visit')
      /\ Elements(visit') = Elements(visit) \ {h}
  BY <1>1, <1>2, PopElements
<1>4. Copies' = Copies
  BY <1>1 DEF Copies
<1> HIDE DEF h
<1>5. /\ Spent(h) \in FlagSets
      /\ flags' \in [Copies -> FlagSets] /\ flags'[h] = Spent(h)
      /\ \A e \in Copies : e # h => flags'[e] = flags[e]
  BY <1>1, <1>2, <1>3 DEF Spent, FlagSets
<1>6. /\ iomap' \in [Fds -> Seq(Copies)]
      /\ \A g \in Fds : \/ iomap'[g] = iomap[g]
                        \/ g = fd[h] /\ Spent(h) # {} /\ iomap'[g] = Append(iomap[g], h)
  BY <1>1, <1>2, <1>3
<1>7. queue' \in Seq(Copies)
  <2>1. Append(queue, h) \in Seq(Copies)
    BY <1>2, <1>3, AppendProperties
  <2>. QED
    BY <1>1, <1>2, <2>1
<1>8. Plain'
  BY <1>1, <1>3, <1>4, <1>5, <1>6, <1>7 DEF Plain
<1>9. Listed'
  <2>0. /\ \A e \in Copies : e # h => InPlace(e)' = InPlace(e)
        /\ Spent(h) # {} => flags'[h] # {}
    BY <1>1, <1>2, <1>3, <1>5 DEF InPlace
  <2>1. ASSUME NEW g \in Fds
        PROVE  /\ Distinct(iomap'[g])
               /\ \A e \in Elements(iomap'[g]) :
                    fd'[e] = g /\ InPlace(e)' /\ e \notin Elements(visit')
    <3>1. /\ Distinct(iomap[g]) /\ iomap[g] \in Seq(Copies)
          /\ \A e \in Elements(iomap[g]) :
               /\ fd[e] = g /\ InPlace(e) /\ e \notin Elements(visit)
               /\ e \in Copies /\ e # h
      <4>1. iomap[g] \in Seq(Copies)
        BY <1>2
      <4>2. \A e \in Elements(iomap[g]) : e \in Copies
        BY <4>1 DEF Elements
      <4>3. /\ Distinct(iomap[g])
            /\ \A e \in Elements(iomap[g]) :
                 fd[e] = g /\ InPlace(e) /\ e \notin Elements(visit)
        BY <1>2 DEF Listed
      <4>. QED
        BY <1>3, <4>1, <4>2, <4>3
    <3>2. CASE iomap'[g] = iomap[g]
      BY <1>1, <1>3, <2>0, <3>1, <3>2
    <3>3. CASE g = fd[h] /\ Spent(h) # {} /\ iomap'[g] = Append(iomap[g], h)
      <4>1. Elements(iomap'[g]) = Elements(iomap[g]) \cup {h} /\ Distinct(iomap'[g])
        BY <1>3, <3>1, <3>3, PushElements
      <4>2. \A e \in Copies : e = h => InPlace(e)'
        BY <2>0, <3>3 DEF InPlace
      <4>. QED
        BY <1>1, <1>3, <2>0, <3>1, <3>3, <4>1, <4>2
    <3>. QED
      BY <1>6, <3>2, <3>3
  <2>2. \A e, d \in Elements(visit') : fd'[e] = fd'[d] /\ InPlace(e)'
    <3>1. \A e \in Elements(visit') : e \in Copies /\ e # h /\ e \in Elements(visit)
      <4>1. \A e \in Elements(visit) : e \in Copies
        BY <1>2 DEF Elements
      <4>. QED
        BY <1>3, <4>1
    <3>2. \A e \in Elements(visit') : InPlace(e)' = InPlace(e)
      BY <2>0, <3>1
    <3>. QED
      BY <1>1, <3>1, <3>2 DEF Listed
  <2>. QED
    BY <1>3, <2>1, <2>2 DEF Listed
<1>10. Counted'
  <2>1. \A e \in Copies : activate[e] = Times(e, queue) /\ activate[e] \in Nat
    BY <1>2 DEF Counted, OneFlagPerActivation
  <2>2. CASE Reads(h)
    <3>1. activate' = [activate EXCEPT ![h] = @ + 1] /\ queue' = Append(queue, h)
      BY <1>1, <2>2
    <3>2. \A e \in Copies : Times(e, Append(queue, h)) = Times(e, queue) + (IF e = h THEN 1 ELSE 0)
      BY <1>2, <1>3, TimesPush
    <3>3. \A e \in Copies : Times(e, queue)' = Times(e, Append(queue, h))
      BY <3>1 DEF Times
    <3>4. activate' \in [Copies -> Nat]
      BY <1>2, <1>3, <3>1
    <3>5. \A e \in Copies : activate'[e] = activate[e] + (IF e = h THEN 1 ELSE 0)
      BY <1>2, <1>3, <2>1, <3>1
    <3>6. \A e \in Copies : activate'[e] = Times(e, queue)'
      BY <2>1, <3>2, <3>3, <3>5
    <3>. QED
      BY <1>4, <3>4, <3>6 DEF Counted, OneFlagPerActivation
  <2>3. CASE ~Reads(h)
    BY <1>1, <1>2, <1>4, <2>1, <2>3 DEF Counted, OneFlagPerActivation, Times
  <2>. QED
    BY <2>2, <2>3
<1>11. Once'
  <2> SUFFICES ASSUME NEW e \in Copies, e \notin persist
               PROVE  /\ "PERSIST" \notin flags'[e]
                      /\ "READ" \in flags'[e] => activate'[e] = 0 /\ fired[e] = 0
                      /\ fired[e] + activate'[e] <= 1
    <3>1. \A e \in Copies : Uncalled(e)' = activate'[e]
      BY <1>1, <1>4, <1>10 DEF Uncalled, Counted
    <3>. QED
      BY <1>1, <1>4, <3>1 DEF Once
  <2>1. /\ "PERSIST" \notin flags[e]
        /\ "READ" \in flags[e] => activate[e] = 0 /\ fired[e] = 0
        /\ fired[e] + activate[e] <= 1
    BY <1>1 DEF Once, Uncalled, Counted
  <2>2. CASE e # h \/ ~Reads(h)
    <3>1. activate'[e] = activate[e]
      BY <1>1, <1>2, <1>3, <2>2
    <3>2. flags'[e] \subseteq flags[e]
      BY <1>5, <2>2 DEF Spent
    <3>. QED
      BY <2>1, <3>1, <3>2
  <2>3. CASE e = h /\ Reads(h)
    <3>1. activate[e] = 0 /\ fired[e] = 0
      BY <2>1, <2>3 DEF Reads
    <3>2. activate'[e] = 1
      BY <1>1, <1>2, <1>3, <2>3, <3>1
    <3>3. flags'[e] = flags[e] \ {"READ"}
      BY <1>5, <2>1, <2>3 DEF Spent
    <3>. QED
      BY <2>1, <3>1, <3>2, <3>3
  <2>. QED
    BY <2>2, <2>3
<1>. QED
  BY <1>8, <1>9, <1>10, <1>11

\* process_active calls the event at the front.
LEMMA CallBackKeeps ==
  ASSUME Plain, Listed, Counted, Once, CallBack
  PROVE  Plain' /\ Listed' /\ Counted' /\ Once'
<1> USE DEF config, copies, active, sets, world
<1> DEFINE h == Head(queue)
<1>1. /\ at = "process" /\ queue # <<>> /\ at' = "call"
      /\ fired' = [fired EXCEPT ![h] = IF @ = 2 THEN 2 ELSE @ + 1]
      /\ UNCHANGED <<config, copies, active, sets, ready, world, crashed>>
  BY DEF CallBack
<1>2. h \in Copies /\ activate[h] >= 1
  BY <1>1, CalledIsActive
<1>3. Copies' = Copies /\ fired \in [Copies -> 0 .. 2] /\ activate \in [Copies -> Nat]
  BY <1>1 DEF Copies, Plain, Counted
<1> HIDE DEF h
<1>4. fired' \in [Copies -> 0 .. 2]
  <2>1. fired[h] \in 0 .. 2 => (IF fired[h] = 2 THEN 2 ELSE fired[h] + 1) \in 0 .. 2
    OBVIOUS
  <2>. QED
    BY <1>1, <1>2, <1>3, <2>1
<1>5. Plain'
  BY <1>1, <1>3, <1>4 DEF Plain
<1>6. Listed' /\ Counted'
  <2>1. UNCHANGED <<iomap, visit, fd, flags, activate, queue>>
    BY <1>1
  <2>2. Listed'
    <3>1. \A e \in Copies : InPlace(e) => InPlace(e)'
      BY <1>1, <1>2, <1>3 DEF InPlace
    <3>2. /\ \A g \in Fds : \A e \in Elements(iomap[g]) : e \in Copies
          /\ \A e \in Elements(visit) : e \in Copies
      BY ListedAreCopies
    <3>. QED
      BY <2>1, <3>1, <3>2 DEF Listed
  <2>3. \A e : Times(e, queue)' = Times(e, queue)
    BY <2>1
  <2>. QED
    BY <1>3, <2>1, <2>2, <2>3 DEF Counted, OneFlagPerActivation
<1>7. Once'
  <2> SUFFICES ASSUME NEW e \in Copies, e \notin persist
               PROVE  /\ "PERSIST" \notin flags[e]
                      /\ "READ" \in flags[e] => activate[e] = 0 /\ fired'[e] = 0
                      /\ fired'[e] + Uncalled(e)' <= 1
    BY <1>1, <1>3 DEF Once
  <2>1. /\ "PERSIST" \notin flags[e]
        /\ "READ" \in flags[e] => activate[e] = 0 /\ fired[e] = 0
        /\ fired[e] + activate[e] <= 1
        /\ fired[e] \in Nat /\ activate[e] \in Nat
    BY <1>1, <1>3 DEF Once, Uncalled
  <2>2. CASE e = h
    <3>1. fired[e] = 0 /\ activate[e] = 1
      BY <1>2, <2>1, <2>2
    <3>2. fired'[e] = 1
      BY <1>1, <1>2, <1>3, <2>2, <3>1
    <3>3. Uncalled(e)' = 0
      BY <1>1, <2>2, <3>1 DEF Uncalled, h
    <3>. QED
      BY <2>1, <3>1, <3>2, <3>3
  <2>3. CASE e # h
    <3>1. fired'[e] = fired[e]
      BY <1>1, <1>3, <2>3
    <3>2. Uncalled(e)' = activate[e]
      BY <1>1, <2>1, <2>3 DEF Uncalled, h
    <3>. QED
      BY <2>1, <3>1, <3>2
  <2>. QED
    BY <2>2, <2>3
<1>. QED
  BY <1>5, <1>6, <1>7

\* The callback returns; its activation is over.
LEMMA ReturnKeeps ==
  ASSUME Plain, Listed, Counted, Once, Return
  PROVE  Plain' /\ Listed' /\ Counted' /\ Once'
<1> USE DEF config, copies, sets
<1> DEFINE h == Head(queue)
<1>1. /\ at = "call" /\ queue # <<>> /\ at' = "process" /\ queue' = Tail(queue)
      /\ activate' = [activate EXCEPT ![h] = @ - 1]
      /\ readable' \subseteq readable
      /\ UNCHANGED <<config, copies, iomap, visit, sets, ready, open, fired, crashed>>
  BY DEF Return, Plain
<1>2. h \in Copies /\ activate[h] >= 1
  BY <1>1, CalledIsActive
<1>3. /\ Copies' = Copies /\ activate \in [Copies -> Nat] /\ queue \in Seq(Copies)
      /\ queue' \in Seq(Copies) /\ fired \in [Copies -> 0 .. 2]
  <2>1. Copies' = Copies
    BY <1>1 DEF Copies
  <2>2. /\ activate \in [Copies -> Nat] /\ queue \in Seq(Copies)
        /\ fired \in [Copies -> 0 .. 2]
    BY DEF Plain, Counted
  <2>. QED
    BY <1>1, <2>1, <2>2, HeadTailProperties
<1>4. Plain'
  BY <1>1, <1>3 DEF Plain
<1>5. Listed'
  <2>1. \A e \in Copies : InPlace(e) => InPlace(e)'
    <3> HIDE DEF h
    <3>. QED
      BY <1>1, <1>2, <1>3 DEF InPlace
  <2>2. /\ \A g \in Fds : \A e \in Elements(iomap[g]) : e \in Copies
        /\ \A e \in Elements(visit) : e \in Copies
    BY ListedAreCopies
  <2>. QED
    BY <1>1, <1>3, <2>1, <2>2 DEF Listed
<1>6. /\ activate' \in [Copies -> Nat]
      /\ \A e \in Copies : activate'[e] = activate[e] - (IF e = h THEN 1 ELSE 0)
  <2> HIDE DEF h
  <2>. QED
    BY <1>1, <1>2, <1>3
<1>7. Counted'
  <2>1. \A e \in Copies : Times(e, Tail(queue)) = Times(e, queue) - (IF e = h THEN 1 ELSE 0)
    BY <1>1, <1>3, TimesPop
  <2>2. \A e \in Copies : Times(e, queue)' = Times(e, Tail(queue))
    BY <1>1 DEF Times
  <2>3. \A e \in Copies : activate'[e] = Times(e, queue)'
    BY <1>6, <2>1, <2>2 DEF Counted, OneFlagPerActivation
  <2>. QED
    BY <1>3, <1>6, <2>3 DEF Counted, OneFlagPerActivation
<1>8. Once'
  <2> SUFFICES ASSUME NEW e \in Copies, e \notin persist
               PROVE  /\ "PERSIST" \notin flags[e]
                      /\ "READ" \in flags[e] => activate'[e] = 0 /\ fired[e] = 0
                      /\ fired[e] + activate'[e] <= 1
    BY <1>1, <1>3, <1>6 DEF Once, Uncalled
  <2>1. /\ "PERSIST" \notin flags[e]
        /\ "READ" \in flags[e] => activate[e] = 0 /\ fired[e] = 0
        /\ fired[e] + (activate[e] - (IF h = e THEN 1 ELSE 0)) <= 1
        /\ activate[e] \in Nat /\ fired[e] \in Nat
    BY <1>1, <1>3 DEF Once, Uncalled
  <2> HIDE DEF h
  <2>2. CASE e = h
    BY <1>2, <1>6, <2>1, <2>2
  <2>3. CASE e # h
    BY <1>6, <2>1, <2>3
  <2>. QED
    BY <2>2, <2>3
<1>. QED
  BY <1>4, <1>5, <1>7, <1>8

LEMMA NextInv == Plain /\ Listed /\ Counted /\ Once /\ [Next]_vars
                   => Plain' /\ Listed' /\ Counted' /\ Once'
<1> SUFFICES ASSUME Plain, Listed, Counted, Once, [Next]_vars
             PROVE  Plain' /\ Listed' /\ Counted' /\ Once'
  OBVIOUS
<1>1. ASSUME NEW f \in Fds, NEW fl \in SUBSET {"READ", "WRITE", "PERSIST"}, Add(f, fl)
      PROVE  Plain' /\ Listed' /\ Counted' /\ Once'
  <2>1. fl \in FlagSets
    BY DEF FlagSets
  <2>. QED
    BY <1>1, <2>1, AddKeeps
<1>2. CASE \/ Begin \/ Select \/ SelectFails \/ VisitUnsized \/ EndScan \/ EndPass
           \/ (\E f \in Fds : Arrive(f) \/ Close(f) \/ Reopen(f)) \/ UNCHANGED vars
  BY <1>2, QuietKeeps
<1>3. ASSUME NEW f \in Fds, Scan(f)
      PROVE  Plain' /\ Listed' /\ Counted' /\ Once'
  BY <1>3, ScanKeeps
<1>4. CASE Visit \/ CallBack \/ Return
  BY <1>4, VisitKeeps, CallBackKeeps, ReturnKeeps
<1>. QED
  BY <1>1, <1>2, <1>3, <1>4 DEF Next, LoopStep

LEMMA InvHolds == Spec => [](Plain /\ Listed /\ Counted /\ Once)
  BY InitInv, NextInv, PTL DEF Spec

\* The reactor's data keep their types; no list of the map holds a copy whose flags
\* are spent or of another descriptor.
THEOREM ReactorTypeCorrect == Spec => []TypeOK
  BY PlainTypes, InvHolds, PTL

\* m_activate of an event holds one flag for each of its places in the active queue,
\* however often its descriptor is reported, and after it was erased from the map.
THEOREM FlagsMatchActivations == Spec => []OneFlagPerActivation
<1>1. Counted => OneFlagPerActivation
  BY DEF Counted
<1>. QED
  BY <1>1, InvHolds, PTL

\* An event without EV_PERSIST is called at most once.
THEOREM OneShotIsCalledOnce == Spec => []OneShotOnce
<1>1. Plain /\ Counted /\ Once => OneShotOnce
  <2> SUFFICES ASSUME Plain, Counted, Once, NEW e \in Copies, e \notin persist
               PROVE  fired[e] <= 1
    BY DEF OneShotOnce
  <2>1. fired[e] + Uncalled(e) <= 1 /\ fired[e] \in Nat /\ activate[e] \in Nat
    <3>1. fired \in [Copies -> 0 .. 2] /\ activate \in [Copies -> Nat]
      BY DEF Plain, Counted
    <3>2. fired[e] + Uncalled(e) <= 1
      BY DEF Once
    <3>. QED
      BY <3>1, <3>2
  <2>2. at = "call" /\ Head(queue) = e => activate[e] >= 1
    BY CalledIsActive DEF Plain
  <2>. QED
    BY <2>1, <2>2 DEF Uncalled
<1>. QED
  BY <1>1, InvHolds, PTL
================================================================================
