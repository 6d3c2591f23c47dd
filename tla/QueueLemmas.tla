------------------------------- MODULE QueueLemmas -------------------------------
(***************************************************************************)
(* What push and pop of a std::queue do to the set of its elements, and to *)
(* a family of queues that share no element, for the proofs of this        *)
(* project.                                                                *)
(***************************************************************************)
EXTENDS Integers, Sequences, TLAPS

Elements(q) == {q[i] : i \in DOMAIN q}
Distinct(q) == \A i, j \in DOMAIN q : q[i] = q[j] => i = j

\* push: the new element joins the others, and repeats none of them if it is new.
LEMMA PushElements ==
  ASSUME NEW S, NEW q \in Seq(S), NEW e \in S
  PROVE  /\ Elements(Append(q, e)) = Elements(q) \cup {e}
         /\ Distinct(q) /\ e \notin Elements(q) => Distinct(Append(q, e))
<1> DEFINE p == Append(q, e)
<1>1. /\ DOMAIN p = 1 .. Len(q) + 1
      /\ DOMAIN q = 1 .. Len(q)
      /\ Len(q) \in Nat
      /\ \A i \in DOMAIN q : p[i] = q[i]
      /\ p[Len(q) + 1] = e
  OBVIOUS
<1> HIDE DEF p
<1>2. Elements(p) = Elements(q) \cup {e}
  BY <1>1 DEF Elements
<1>3. Distinct(q) /\ e \notin Elements(q) => Distinct(p)
  BY <1>1 DEF Distinct, Elements
<1>. QED
  BY <1>2, <1>3 DEF p

\* front and pop: the first element leaves, and the others are still there.
LEMMA PopElements ==
  ASSUME NEW S, NEW q \in Seq(S), q # <<>>, Distinct(q)
  PROVE  /\ Head(q) \in S
         /\ Head(q) \in Elements(q)
         /\ Elements(Tail(q)) = Elements(q) \ {Head(q)}
         /\ Distinct(Tail(q))
<1> DEFINE p == Tail(q)
<1>1. /\ Len(q) \in Nat \ {0}
      /\ DOMAIN q = 1 .. Len(q)
      /\ DOMAIN p = 1 .. Len(q) - 1
      /\ \A i \in DOMAIN p : i + 1 \in DOMAIN q /\ p[i] = q[i + 1]
      /\ Head(q) = q[1]
      /\ q[1] \in S
  OBVIOUS
<1> HIDE DEF p
<1>2. \A j \in DOMAIN q : j = 1 \/ (j - 1 \in DOMAIN p /\ p[j - 1] = q[j])
  <2> SUFFICES ASSUME NEW j \in DOMAIN q, j # 1
               PROVE  j - 1 \in DOMAIN p /\ p[j - 1] = q[j]
    OBVIOUS
  <2>1. j - 1 \in DOMAIN p /\ (j - 1) + 1 = j
    BY <1>1
  <2>. QED
    BY <1>1, <2>1
<1>3. Elements(p) = Elements(q) \ {q[1]}
  <2>1. ASSUME NEW x \in Elements(p) PROVE x \in Elements(q) \ {q[1]}
    <3>1. PICK i \in DOMAIN p : x = p[i]
      BY DEF Elements
    <3>2. i + 1 \in DOMAIN q /\ x = q[i + 1] /\ i + 1 # 1 /\ 1 \in DOMAIN q
      BY <1>1, <3>1
    <3>. QED
      BY <3>2 DEF Elements, Distinct
  <2>2. ASSUME NEW x \in Elements(q) \ {q[1]} PROVE x \in Elements(p)
    BY <1>2 DEF Elements
  <2>. QED
    BY <2>1, <2>2
<1>4. Distinct(p)
  <2> SUFFICES ASSUME NEW i \in DOMAIN p, NEW j \in DOMAIN p, p[i] = p[j]
               PROVE  i = j
    BY DEF Distinct
  <2>1. i + 1 = j + 1
    BY <1>1 DEF Distinct
  <2>. QED
    BY <2>1, <1>1
<1>5. q[1] \in Elements(q)
  BY <1>1 DEF Elements
<1>. QED
  BY <1>1, <1>3, <1>4, <1>5 DEF p

-------------------------------------------------------------------------------
(* A family of queues, one for each index *)

\* Q with queue p replaced by q.
Put(Q, p, q) == [Q EXCEPT ![p] = q]

Held(Q) == UNION {Elements(Q[p]) : p \in DOMAIN Q}

\* No element stands twice, in one queue or in two.
Apart(Q) ==
  /\ \A p \in DOMAIN Q : Distinct(Q[p])
  /\ \A p, r \in DOMAIN Q : \A x \in Elements(Q[p]) : x \in Elements(Q[r]) => p = r

\* A new element is pushed to one of the queues.
LEMMA PushApart ==
  ASSUME NEW I, NEW S, NEW Q \in [I -> Seq(S)], NEW p \in I, NEW e \in S,
         Apart(Q), e \notin Held(Q)
  PROVE  /\ Apart(Put(Q, p, Append(Q[p], e)))
         /\ Held(Put(Q, p, Append(Q[p], e))) = Held(Q) \cup {e}
<1> DEFINE R == Put(Q, p, Append(Q[p], e))
<1>1. /\ DOMAIN Q = I /\ DOMAIN R = I
      /\ R[p] = Append(Q[p], e)
      /\ \A r \in I : r # p => R[r] = Q[r]
      /\ Q[p] \in Seq(S)
  BY DEF Put
<1>2. \A r \in I : e \notin Elements(Q[r])
  BY <1>1 DEF Held
<1>3. Elements(R[p]) = Elements(Q[p]) \cup {e} /\ Distinct(R[p])
  BY <1>1, <1>2, PushElements DEF Apart
<1> HIDE DEF R
<1>4. Apart(R)
  BY <1>1, <1>2, <1>3 DEF Apart
<1>5. Held(R) = Held(Q) \cup {e}
  BY <1>1, <1>3 DEF Held
<1>. QED
  BY <1>4, <1>5 DEF R

\* The front of one of the queues is popped.
LEMMA PopApart ==
  ASSUME NEW I, NEW S, NEW Q \in [I -> Seq(S)], NEW p \in I,
         Apart(Q), Q[p] # <<>>
  PROVE  /\ Put(Q, p, Tail(Q[p])) \in [I -> Seq(S)]
         /\ Apart(Put(Q, p, Tail(Q[p])))
         /\ Head(Q[p]) \in S
         /\ Head(Q[p]) \in Held(Q)
         /\ Held(Put(Q, p, Tail(Q[p]))) = Held(Q) \ {Head(Q[p])}
<1> DEFINE R == Put(Q, p, Tail(Q[p]))
           e == Head(Q[p])
<1>1. /\ DOMAIN Q = I /\ DOMAIN R = I
      /\ R[p] = Tail(Q[p])
      /\ \A r \in I : r # p => R[r] = Q[r]
      /\ Q[p] \in Seq(S)
      /\ Tail(Q[p]) \in Seq(S)
      /\ R \in [I -> Seq(S)]
  BY DEF Put
<1> HIDE DEF R
<1>2. /\ e \in S /\ e \in Elements(Q[p])
      /\ Elements(R[p]) = Elements(Q[p]) \ {e}
      /\ Distinct(R[p])
  BY <1>1, PopElements DEF Apart
<1>3. \A r \in I : r # p => e \notin Elements(Q[r])
  BY <1>1, <1>2 DEF Apart
<1> HIDE DEF e
<1>4. Apart(R)
  <2>1. \A r \in I : Distinct(R[r]) /\ Elements(R[r]) \subseteq Elements(Q[r])
    BY <1>1, <1>2 DEF Apart
  <2>. QED
    BY <1>1, <2>1 DEF Apart
<1>5. Held(R) = Held(Q) \ {e} /\ e \in Held(Q)
  BY <1>1, <1>2, <1>3 DEF Held
<1>. QED
  BY <1>1, <1>2, <1>4, <1>5 DEF R, e

-------------------------------------------------------------------------------
(* The order of the elements of a queue *)

\* One place of x is before one of y.
Ahead(q, x, y) == \E i, j \in DOMAIN q : i < j /\ q[i] = x /\ q[j] = y

LEMMA AheadElements ==
  ASSUME NEW q, NEW x, NEW y, Ahead(q, x, y)
  PROVE  x \in Elements(q) /\ y \in Elements(q)
  BY DEF Ahead, Elements

\* push puts the new element behind all others and changes nothing between them.
LEMMA PushAhead ==
  ASSUME NEW S, NEW q \in Seq(S), NEW e \in S, NEW x, NEW y
  PROVE  /\ Ahead(q, x, y) => Ahead(Append(q, e), x, y)
         /\ x \in Elements(q) => Ahead(Append(q, e), x, e)
         /\ Ahead(Append(q, e), x, y) => Ahead(q, x, y) \/ (y = e /\ x \in Elements(q))
<1> DEFINE p == Append(q, e)
<1>1. /\ DOMAIN p = 1 .. Len(q) + 1
      /\ DOMAIN q = 1 .. Len(q)
      /\ Len(q) \in Nat
      /\ \A i \in DOMAIN q : p[i] = q[i]
      /\ p[Len(q) + 1] = e
  OBVIOUS
<1> HIDE DEF p
<1>2. Ahead(q, x, y) => Ahead(p, x, y)
  BY <1>1 DEF Ahead
<1>3. x \in Elements(q) => Ahead(p, x, e)
  BY <1>1 DEF Ahead, Elements
<1>4. Ahead(p, x, y) => Ahead(q, x, y) \/ (y = e /\ x \in Elements(q))
  <2> SUFFICES ASSUME NEW i \in DOMAIN p, NEW j \in DOMAIN p, i < j, p[i] = x, p[j] = y
               PROVE  Ahead(q, x, y) \/ (y = e /\ x \in Elements(q))
    BY DEF Ahead
  <2>1. i \in DOMAIN q
    BY <1>1
  <2>2. j \in DOMAIN q \/ j = Len(q) + 1
    BY <1>1
  <2>. QED
    BY <1>1, <2>1, <2>2 DEF Ahead, Elements
<1>. QED
  BY <1>2, <1>3, <1>4 DEF p

\* pop takes the first element only: the order of the others stays.
LEMMA PopAhead ==
  ASSUME NEW S, NEW q \in Seq(S), q # <<>>, NEW x, NEW y, Ahead(q, x, y)
  PROVE  /\ y \in Elements(Tail(q))
         /\ x = Head(q) \/ Ahead(Tail(q), x, y)
         /\ Distinct(q) => y # Head(q)
<1> DEFINE p == Tail(q)
<1>1. /\ Len(q) \in Nat \ {0}
      /\ DOMAIN q = 1 .. Len(q)
      /\ DOMAIN p = 1 .. Len(q) - 1
      /\ \A i \in DOMAIN p : i + 1 \in DOMAIN q /\ p[i] = q[i + 1]
      /\ Head(q) = q[1]
  OBVIOUS
<1>2. PICK i, j \in DOMAIN q : i < j /\ q[i] = x /\ q[j] = y
  BY DEF Ahead
<1> HIDE DEF p
<1>3. /\ j - 1 \in DOMAIN p /\ (j - 1) + 1 = j
      /\ i # 1 => i - 1 \in DOMAIN p /\ (i - 1) + 1 = i /\ i - 1 < j - 1
      /\ 1 \in DOMAIN q /\ j # 1
  BY <1>1, <1>2
<1>4. p[j - 1] = y /\ (i # 1 => p[i - 1] = x)
  BY <1>1, <1>2, <1>3
<1>5. y \in Elements(p) /\ (x = Head(q) \/ Ahead(p, x, y))
  BY <1>1, <1>2, <1>3, <1>4 DEF Ahead, Elements
<1>6. Distinct(q) => y # Head(q)
  BY <1>1, <1>2, <1>3 DEF Distinct
<1>. QED
  BY <1>5, <1>6 DEF p
================================================================================
