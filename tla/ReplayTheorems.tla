--------------------------- MODULE ReplayTheorems ---------------------------
(***************************************************************************)
(* What Replay computes, for every sequence of records: the facts about    *)
(* the log on which the proofs about the store rest.                       *)
(***************************************************************************)
EXTENDS AofRecords, TLAPS, SequenceTheorems, WellFoundedInduction

(***************************************************************************)
(* Latest picks the largest element of a non-empty, bounded set.           *)
(***************************************************************************)
LEMMA LatestIsMax ==
    ASSUME NEW n \in Nat, NEW I \in SUBSET (1 .. n), I # {}
    PROVE  Latest(I) \in I /\ \A j \in I : j <= Latest(I)
<1> DEFINE T == {x \in Nat : \E i \in I : x = n - i}
<1>0. \A i \in I : i \in Nat /\ 1 <= i /\ i <= n /\ n - i \in Nat
  <2>1. SUFFICES ASSUME NEW i \in I
                 PROVE  i \in Nat /\ 1 <= i /\ i <= n /\ n - i \in Nat
    OBVIOUS
  <2>2. i \in 1 .. n
    OBVIOUS
  <2>3. QED
    BY <2>2
<1>1. T \subseteq Nat /\ T # {}
  BY <1>0
<1>2. PICK x \in T : \A y \in T : ~ (<<y, x>> \in OpToRel(<, Nat))
  BY <1>1, NatLessThanWellFounded, WFMin, Zenon
<1>3. \A y \in T : x <= y
  <2>1. SUFFICES ASSUME NEW y \in T PROVE x <= y
    OBVIOUS
  <2>2. x \in Nat /\ y \in Nat /\ ~ (y < x)
    BY <1>2 DEF OpToRel
  <2>3. QED
    BY <2>2
<1>4. PICK i \in I : x = n - i
  BY <1>2
<1>5. \A j \in I : j <= i
  <2>1. SUFFICES ASSUME NEW j \in I PROVE j <= i
    OBVIOUS
  <2>2. n - j \in T
    BY <1>0
  <2>3. n - i <= n - j /\ i \in Nat /\ j \in Nat
    BY <1>0, <1>3, <1>4, <2>2
  <2>4. QED
    BY <2>3
<1>6. QED
  BY <1>5 DEF Latest

(***************************************************************************)
(* The largest element is unique.                                          *)
(***************************************************************************)
LEMMA LatestIs ==
    ASSUME NEW n \in Nat, NEW I \in SUBSET (1 .. n), NEW m \in I,
           \A j \in I : j <= m
    PROVE  Latest(I) = m
<1>1. Latest(I) \in I /\ m <= Latest(I)
  BY LatestIsMax
<1>2. m \in 1 .. n /\ Latest(I) \in 1 .. n /\ Latest(I) <= m
  BY <1>1
<1>3. QED
  BY <1>1, <1>2

(***************************************************************************)
(* Replaying one log after another: the second one decides for the keys it *)
(* has a record about, the first one for the others.                       *)
(***************************************************************************)
LEMMA ReplayConcat ==
    ASSUME NEW R, NEW s \in Seq(R), NEW t \in Seq(R), NEW k \in Keys
    PROVE  Replay(s \o t)[k] =
              IF About(t, k) = {} THEN Replay(s)[k] ELSE Replay(t)[k]
<1> DEFINE u == s \o t
<1>1. /\ Len(s) \in Nat /\ Len(t) \in Nat
      /\ DOMAIN s = 1 .. Len(s) /\ DOMAIN t = 1 .. Len(t)
      /\ DOMAIN u = 1 .. Len(s) + Len(t)
  BY LenProperties, ConcatProperties
<1>2. /\ \A i \in 1 .. Len(s) : u[i] = s[i]
      /\ \A i \in 1 .. Len(t) : u[Len(s) + i] = t[i]
  BY <1>1, ConcatProperties
<1>3. About(u, k) = About(s, k) \cup {Len(s) + i : i \in About(t, k)}
  <2>1. \A j \in DOMAIN u : j \in 1 .. Len(s) \/ \E i \in 1 .. Len(t) : j = Len(s) + i
    <3>1. SUFFICES ASSUME NEW j \in DOMAIN u, j \notin 1 .. Len(s)
                   PROVE  \E i \in 1 .. Len(t) : j = Len(s) + i
      OBVIOUS
    <3>2. j - Len(s) \in 1 .. Len(t) /\ j = Len(s) + (j - Len(s))
      BY <3>1, <1>1
    <3>3. QED
      BY <3>2
  <2>2. QED
    BY <1>1, <1>2, <2>1 DEF About
<1>4. CASE About(t, k) = {}
  <2>1. About(u, k) = About(s, k)
    BY <1>3, <1>4
  <2>2. CASE About(s, k) = {}
    BY <1>4, <2>1, <2>2 DEF Replay
  <2>3. CASE About(s, k) # {}
    <3>1. Latest(About(s, k)) \in 1 .. Len(s)
      BY <1>1, <2>3, LatestIsMax DEF About
    <3>2. QED
      BY <1>2, <1>4, <2>1, <2>3, <3>1 DEF Replay
  <2>4. QED
    BY <2>2, <2>3
<1>5. CASE About(t, k) # {}
  <2> DEFINE m == Latest(About(t, k))
  <2>1. m \in About(t, k) /\ \A j \in About(t, k) : j <= m
    BY <1>1, <1>5, LatestIsMax DEF About
  <2>2. m \in 1 .. Len(t)
    BY <1>1, <2>1 DEF About
  <2>3. Len(s) + m \in About(u, k)
    BY <1>3, <2>1
  <2>4. \A j \in About(u, k) : j <= Len(s) + m
    <3>1. \A j \in About(s, k) : j <= Len(s) + m
      BY <1>1, <2>2 DEF About
    <3>2. \A i \in About(t, k) : Len(s) + i <= Len(s) + m
      <4>1. SUFFICES ASSUME NEW i \in About(t, k) PROVE Len(s) + i <= Len(s) + m
        OBVIOUS
      <4>2. i \in 1 .. Len(t) /\ i <= m
        BY <1>1, <2>1 DEF About
      <4> HIDE DEF m
      <4>3. QED
        BY <1>1, <2>2, <4>2
    <3>3. QED
      BY <1>3, <3>1, <3>2
  <2>5. About(u, k) \in SUBSET (1 .. Len(s) + Len(t))
    BY <1>1 DEF About
  <2>6. Latest(About(u, k)) = Len(s) + m
    <3> HIDE DEF m, u
    <3>1. Len(s) + Len(t) \in Nat
      BY <1>1
    <3>2. QED
      BY <3>1, <2>3, <2>4, <2>5, LatestIs
  <2>7. u[Len(s) + m] = t[m]
    BY <1>2, <2>2
  <2>8. About(u, k) # {}
    BY <2>3
  <2>9. QED
    BY <1>5, <2>6, <2>7, <2>8 DEF Replay
<1>6. QED
  BY <1>4, <1>5

(***************************************************************************)
(* A key about which the second log only says v has value v.               *)
(***************************************************************************)
LEMMA ReplaySays ==
    ASSUME NEW R, NEW s \in Seq(R), NEW t \in Seq(R), NEW k \in Keys, NEW v,
           About(t, k) # {}, \A i \in About(t, k) : t[i].val = v
    PROVE  Replay(s \o t)[k] = v
<1>1. Len(t) \in Nat /\ About(t, k) \in SUBSET (1 .. Len(t))
  BY LenProperties DEF About
<1>2. Latest(About(t, k)) \in About(t, k)
  BY <1>1, LatestIsMax
<1>3. Replay(t)[k] = v
  BY <1>2 DEF Replay
<1>4. QED
  BY <1>3, ReplayConcat

(***************************************************************************)
(* One more record changes the key it is about.                            *)
(***************************************************************************)
LEMMA ReplayOne ==
    ASSUME NEW R, NEW s \in Seq(R), NEW r \in R, NEW k \in Keys
    PROVE  Replay(s \o <<r>>)[k] = IF r.key = k THEN r.val ELSE Replay(s)[k]
<1> DEFINE t == <<r>>
<1>1. t \in Seq(R) /\ DOMAIN t = {1} /\ t[1] = r
  OBVIOUS
<1>2. About(t, k) = IF r.key = k THEN {1} ELSE {}
  BY <1>1 DEF About
<1> HIDE DEF t
<1>3. Replay(s \o t)[k] = IF r.key = k THEN r.val ELSE Replay(s)[k]
  <2>1. CASE r.key = k
    <3>1. About(t, k) # {} /\ \A i \in About(t, k) : t[i].val = r.val
      BY <1>1, <1>2, <2>1
    <3>2. Replay(s \o t)[k] = r.val
      BY <1>1, <3>1, ReplaySays
    <3>3. QED
      BY <2>1, <3>2
  <2>2. CASE r.key # k
    BY <1>1, <1>2, <2>2, ReplayConcat
  <2>3. QED
    BY <2>1, <2>2
<1>4. QED
  BY <1>3 DEF t

(***************************************************************************)
(* Concatenation is associative, in the form the provers instantiate.      *)
(***************************************************************************)
LEMMA Assoc ==
    \A R : \A a, b, c \in Seq(R) : a \o (b \o c) = (a \o b) \o c
<1>1. ASSUME NEW R, NEW a \in Seq(R), NEW b \in Seq(R), NEW c \in Seq(R)
      PROVE  a \o (b \o c) = (a \o b) \o c
  BY ConcatAssociative, SMT
<1>2. QED
  BY <1>1

\* Two records after a sequence, one after the other.
LEMMA ConcatTwo ==
    ASSUME NEW R, NEW s \in Seq(R), NEW q \in R, NEW r \in R
    PROVE  s \o <<q, r>> = (s \o <<q>>) \o <<r>>
<1>1. <<q>> \in Seq(R) /\ <<r>> \in Seq(R)
  OBVIOUS
<1>2. <<q, r>> = <<q>> \o <<r>>
  <2>1. <<q, r>> = Append(<<q>>, r)
    OBVIOUS
  <2>2. QED
    BY <1>1, <2>1, AppendIsConcat
<1>3. s \o (<<q>> \o <<r>>) = (s \o <<q>>) \o <<r>>
  BY <1>1, Assoc
<1>4. QED
  BY <1>2, <1>3

\* Append in terms of concatenation.
LEMMA AppendAfter ==
    ASSUME NEW R, NEW s \in Seq(R), NEW q \in R, NEW r \in R
    PROVE  /\ Append(s \o <<q>>, r) = s \o <<q, r>>
           /\ Append(s, r) = s \o <<r>>
<1>1. s \o <<q>> \in Seq(R)
  OBVIOUS
<1> DEFINE u == s \o <<q>>
<1> HIDE DEF u
<1>2. Append(u, r) = u \o <<r>>
  BY <1>1, AppendIsConcat DEF u
<1>3. QED
  BY <1>2, ConcatTwo, AppendIsConcat DEF u

(***************************************************************************)
(* Two more records, as rename and renamenx append them.                   *)
(***************************************************************************)
LEMMA ReplayTwo ==
    ASSUME NEW R, NEW s \in Seq(R), NEW q \in R, NEW r \in R, NEW k \in Keys
    PROVE  Replay(s \o <<q, r>>)[k] =
              IF r.key = k THEN r.val
              ELSE IF q.key = k THEN q.val ELSE Replay(s)[k]
<1>1. s \o <<q, r>> = (s \o <<q>>) \o <<r>>
  BY ConcatTwo
<1>2. s \o <<q>> \in Seq(R)
  OBVIOUS
<1>3. Replay((s \o <<q>>) \o <<r>>)[k] = IF r.key = k THEN r.val ELSE Replay(s \o <<q>>)[k]
  BY <1>2, ReplayOne
<1>4. Replay(s \o <<q>>)[k] = IF q.key = k THEN q.val ELSE Replay(s)[k]
  BY ReplayOne
<1>5. QED
  BY <1>1, <1>3, <1>4

(***************************************************************************)
(* Replay gives every key a value that was logged for it, or None.         *)
(***************************************************************************)
LEMMA ReplayType ==
    ASSUME NEW V, NEW s \in Seq([key : Keys, val : V])
    PROVE  Replay(s) \in [Keys -> V \cup {None}]
<1>1. SUFFICES ASSUME NEW k \in Keys, About(s, k) # {}
               PROVE  s[Latest(About(s, k))].val \in V
  BY DEF Replay
<1>2. Len(s) \in Nat /\ DOMAIN s = 1 .. Len(s)
  BY LenProperties
<1>3. Latest(About(s, k)) \in 1 .. Len(s)
  BY <1>1, <1>2, LatestIsMax DEF About
<1>4. s[Latest(About(s, k))] \in [key : Keys, val : V]
  BY <1>3, ElementOfSeq
<1>5. QED
  BY <1>4

(***************************************************************************)
(* A flush moves records from the BufWriter to the file and changes        *)
(* nothing of what is logged.                                              *)
(***************************************************************************)
LogType(R) == [file : Seq(R), buf : Seq(R), pending : Nat]

\* A flush of the BufWriter changes no record.
LEMMA FlushedLogs ==
    ASSUME NEW R, NEW l \in LogType(R)
    PROVE  /\ Flushed(l) \in LogType(R)
           /\ Logged(Flushed(l)) = Logged(l)
<1>1. l.file \in Seq(R) /\ l.buf \in Seq(R) /\ l.pending \in Nat
  BY DEF LogType
<1>2. Logged(l) \in Seq(R) /\ <<>> \in Seq(R)
  BY <1>1, ConcatProperties DEF Logged
<1>3. Flushed(l) \in LogType(R)
  BY <1>1, <1>2 DEF LogType, Flushed
<1>4. Logged(Flushed(l)) = Logged(l) \o <<>>
  BY DEF Logged, Flushed
<1>5. Logged(l) \o <<>> = Logged(l)
  BY <1>2, ConcatEmptySeq
<1>6. QED
  BY <1>3, <1>4, <1>5

(***************************************************************************)
(* A record put into the BufWriter is logged.                              *)
(***************************************************************************)
LEMMA BufferedLogs ==
    ASSUME NEW R, NEW l \in LogType(R), NEW r \in R, NEW p \in Nat,
           NEW x \in Buffered(l, r, p)
    PROVE  /\ x \in LogType(R)
           /\ Logged(x) = Logged(l) \o <<r>>
<1>1. PICK z \in {l, Flushed(l)} :
         x = [file |-> z.file, buf |-> Append(z.buf, r), pending |-> p]
  BY DEF Buffered
<1>2. z \in LogType(R) /\ Logged(z) = Logged(l)
  BY FlushedLogs
<1>3. z.file \in Seq(R) /\ z.buf \in Seq(R) /\ <<r>> \in Seq(R)
  BY <1>2 DEF LogType
<1>4. Append(z.buf, r) = z.buf \o <<r>> /\ Append(z.buf, r) \in Seq(R)
  BY <1>3, AppendIsConcat, AppendProperties
<1>5. z.file \o (z.buf \o <<r>>) = (z.file \o z.buf) \o <<r>>
  <2> DEFINE a == z.file  b == z.buf  c == <<r>>
  <2>1. a \in Seq(R) /\ b \in Seq(R) /\ c \in Seq(R)
    BY <1>3
  <2> HIDE DEF a, b, c
  <2>2. a \o (b \o c) = (a \o b) \o c
    BY <2>1, Assoc
  <2>3. QED
    BY <2>2 DEF a, b, c
<1>6. Logged(x) = Logged(z) \o <<r>>
  BY <1>1, <1>4, <1>5 DEF Logged
<1>7. QED
  BY <1>1, <1>2, <1>3, <1>4, <1>6 DEF LogType

(***************************************************************************)
(* A successful append, with or without a flush, appends the record to     *)
(* what is logged.                                                         *)
(***************************************************************************)
LEMMA AppendedLogs ==
    ASSUME NEW R, NEW l \in LogType(R), NEW r \in R, NEW x \in Appended(l, r)
    PROVE  /\ x \in LogType(R)
           /\ Logged(x) = Logged(l) \o <<r>>
<1>1. l.pending \in Nat /\ l.pending + 1 \in Nat /\ 0 \in Nat
  BY DEF LogType
<1>2. CASE Policy # "Always"
  BY <1>1, <1>2, BufferedLogs DEF Appended
<1>3. CASE Policy = "Always" /\ l.pending + 1 < BatchSize
  BY <1>1, <1>3, BufferedLogs DEF Appended
<1>4. CASE Policy = "Always" /\ ~ (l.pending + 1 < BatchSize)
  <2>1. PICK y \in Buffered(l, r, 0) : x = Flushed(y)
    BY <1>4 DEF Appended
  <2>2. QED
    BY <1>1, <2>1, BufferedLogs, FlushedLogs
<1>5. QED
  BY <1>2, <1>3, <1>4
=============================================================================
