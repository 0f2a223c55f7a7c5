------------------------- MODULE OperationLogProofs -------------------------
(***************************************************************************)
(* Lemmas about the operators of OperationLog, for every history: what its *)
(* prefixes and its extensions hold, and that a history to which only      *)
(* admitted records are appended stays coherent.  The proofs about the     *)
(* journal, the recorded session and owner control rest on them.           *)
(***************************************************************************)
EXTENDS OperationLog, TLAPS

-----------------------------------------------------------------------------
(* What the prefix and the extension of a history hold *)

\* A prefix has the records of the history, up to its length.
LEMMA PrefixFacts ==
  ASSUME NEW h \in Seq(Record), NEW n \in 0..Len(h)
  PROVE  /\ SubSeq(h, 1, n) \in Seq(Record)
         /\ Len(SubSeq(h, 1, n)) = n
         /\ \A i \in 1..n : SubSeq(h, 1, n)[i] = h[i]
         /\ Intents(SubSeq(h, 1, n)) = {i \in Intents(h) : i =< n}
         /\ OutcomesIn(SubSeq(h, 1, n)) = {i \in OutcomesIn(h) : i =< n}
  <1>1. /\ SubSeq(h, 1, n) \in Seq(Record)
        /\ Len(SubSeq(h, 1, n)) = n
        /\ \A i \in 1..n : SubSeq(h, 1, n)[i] = h[i]
    OBVIOUS
  <1>2. /\ DOMAIN SubSeq(h, 1, n) = 1..n
        /\ DOMAIN h = 1..Len(h)
    BY <1>1
  <1>3. QED
    BY <1>1, <1>2 DEF Intents, OutcomesIn

\* An extended history keeps its records and has one more.
LEMMA AppendFacts ==
  ASSUME NEW h \in Seq(Record), NEW r \in Record
  PROVE  /\ Append(h, r) \in Seq(Record)
         /\ Len(Append(h, r)) = Len(h) + 1
         /\ \A i \in 1..Len(h) : Append(h, r)[i] = h[i]
         /\ Append(h, r)[Len(h) + 1] = r
         /\ DOMAIN Append(h, r) = 1..(Len(h) + 1)
         /\ DOMAIN h = 1..Len(h)
  OBVIOUS

\* A record is an intent or an outcome and names an operation.
LEMMA RecordFacts ==
  ASSUME NEW r \in Record
  PROVE  /\ r.op \in Operations
         /\ r.type \in {"intent", "outcome"}
         /\ r.type = "intent" => r \in Intent
  BY DEF Record, Intent, WorkIntent, ControlIntent, Outcome

-----------------------------------------------------------------------------
(* Reading prefixes and extensions *)

\* What an appended record adds to the positions of intents and outcomes.
LEMMA AppendReading ==
  ASSUME NEW h \in Seq(Record), NEW r \in Record
  PROVE  /\ Intents(Append(h, r)) =
                Intents(h) \cup {i \in {Len(h) + 1} : r.type = "intent"}
         /\ OutcomesIn(Append(h, r)) =
                OutcomesIn(h) \cup {i \in {Len(h) + 1} : r.type = "outcome"}
         /\ Intents(h) \subseteq 1..Len(h)
         /\ OutcomesIn(h) \subseteq 1..Len(h)
         /\ Len(h) \in Nat
  <1>1. Len(h) \in Nat
    OBVIOUS
  <1>2. ASSUME NEW i
        PROVE  /\ i \in DOMAIN Append(h, r) <=> i \in DOMAIN h \/ i = Len(h) + 1
               /\ i \in DOMAIN h => Append(h, r)[i] = h[i] /\ i # Len(h) + 1
    BY <1>1, AppendFacts
  <1>3. Append(h, r)[Len(h) + 1] = r
    BY AppendFacts
  <1>4. QED
    BY <1>1, <1>2, <1>3, AppendFacts DEF Intents, OutcomesIn

\* What the prefixes of a history say of its operations.
LEMMA PrefixReading ==
  ASSUME NEW h \in Seq(Record), NEW n \in 0..Len(h)
  PROVE  /\ Begun(SubSeq(h, 1, n)) = {h[i].op : i \in {j \in Intents(h) : j =< n}}
         /\ Reported(SubSeq(h, 1, n)) = {h[i].op : i \in {j \in OutcomesIn(h) : j =< n}}
         /\ Settled(SubSeq(h, 1, n)) = {h[i].op : i \in {j \in OutcomesIn(h) :
                                   j =< n /\ h[j].outcome # "uncertain"}}
         /\ Intents(h) \subseteq 1..Len(h)
         /\ OutcomesIn(h) \subseteq 1..Len(h)
         /\ Len(h) \in Nat
  <1>1. /\ Intents(SubSeq(h, 1, n)) = {i \in Intents(h) : i =< n}
        /\ OutcomesIn(SubSeq(h, 1, n)) = {i \in OutcomesIn(h) : i =< n}
        /\ \A i \in 1..n : SubSeq(h, 1, n)[i] = h[i]
    BY PrefixFacts
  <1>2. /\ Intents(h) \subseteq 1..Len(h)
        /\ OutcomesIn(h) \subseteq 1..Len(h)
        /\ Len(h) \in Nat
    BY DEF Intents, OutcomesIn
  <1>3. QED
    BY <1>1, <1>2 DEF Begun, Settled, Reported

\* Which operations of a prefix gate the later ones.
LEMMA GatingReading ==
  ASSUME NEW h \in Seq(Record), NEW n \in 0..Len(h)
  PROVE  /\ Gating(SubSeq(h, 1, n)) =
              {h[i].op : i \in {j \in Intents(h) : j =< n /\ ~Bypasses(h[j])}}
         /\ Gating(SubSeq(h, 1, n)) \subseteq Begun(SubSeq(h, 1, n))
  <1>1. /\ Intents(SubSeq(h, 1, n)) = {i \in Intents(h) : i =< n}
        /\ \A i \in 1..n : SubSeq(h, 1, n)[i] = h[i]
    BY PrefixFacts
  <1>2. Intents(h) \subseteq 1..Len(h) /\ Len(h) \in Nat
    BY DEF Intents
  <1>3. \A i \in Intents(SubSeq(h, 1, n)) : SubSeq(h, 1, n)[i] = h[i]
    BY <1>1, <1>2
  <1>4. QED
    BY <1>1, <1>3 DEF Gating, Begun

-----------------------------------------------------------------------------
(* Coherent histories *)

\* An operation is begun once, its outcomes follow its intent, and none
\* follows one that settled it.
BegunOnce(h) ==
  \A i, j \in Intents(h) : h[i].op = h[j].op => i = j

OutcomeFollows(h) ==
  \A k \in OutcomesIn(h) : \E i \in Intents(h) : i < k /\ h[i].op = h[k].op

SettledOnce(h) ==
  \A k, l \in OutcomesIn(h) :
    k < l /\ h[k].op = h[l].op => h[k].outcome = "uncertain"

Coherent(h) == BegunOnce(h) /\ OutcomeFollows(h) /\ SettledOnce(h)

\* A history without records is coherent, and nothing is open in it.
LEMMA EmptyHistory ==
  /\ Coherent(<<>>) /\ Open(<<>>) = {}
  /\ Intents(<<>>) = {} /\ OutcomesIn(<<>>) = {}
  BY DEF Coherent, BegunOnce, OutcomeFollows, SettledOnce, Intents, OutcomesIn,
         Open, Begun

\* Appending an admitted record keeps a history coherent.
LEMMA AppendCoherent ==
  ASSUME NEW h \in Seq(Record), NEW r \in Record, Appendable(h, r), Coherent(h)
  PROVE  Coherent(Append(h, r))
  <1> DEFINE g == Append(h, r)
  <1>1. /\ Intents(g) = Intents(h) \cup {i \in {Len(h) + 1} : r.type = "intent"}
        /\ OutcomesIn(g) = OutcomesIn(h) \cup {i \in {Len(h) + 1} : r.type = "outcome"}
        /\ Intents(h) \subseteq 1..Len(h)
        /\ OutcomesIn(h) \subseteq 1..Len(h)
        /\ \A i \in 1..Len(h) : g[i] = h[i]
        /\ g[Len(h) + 1] = r
        /\ Len(h) \in Nat
    BY AppendReading, AppendFacts
  <1>2. /\ r.type = "intent" => r.op \notin Begun(h)
        /\ r.type = "outcome" => r.op \in Open(h)
    BY DEF Appendable, Admits, AdmitsIntent, AdmitsOutcome
  <1> HIDE DEF g
  <1>3. BegunOnce(g)
    BY <1>1, <1>2 DEF Coherent, BegunOnce, Begun
  <1>4. OutcomeFollows(g)
    BY <1>1, <1>2 DEF Coherent, OutcomeFollows, Open, Begun
  <1>5. SettledOnce(g)
    BY <1>1, <1>2 DEF Coherent, SettledOnce, Open, Settled
  <1>6. QED
    BY <1>3, <1>4, <1>5 DEF Coherent, g

\* A prefix of a coherent history is coherent.
LEMMA PrefixCoherent ==
  ASSUME NEW h \in Seq(Record), NEW n \in 0..Len(h), Coherent(h)
  PROVE  Coherent(SubSeq(h, 1, n))
  <1>1. /\ \A i \in 1..n : SubSeq(h, 1, n)[i] = h[i]
        /\ Intents(SubSeq(h, 1, n)) = {i \in Intents(h) : i =< n}
        /\ OutcomesIn(SubSeq(h, 1, n)) = {i \in OutcomesIn(h) : i =< n}
    BY PrefixFacts
  <1>2. Intents(h) \subseteq Nat \ {0} /\ OutcomesIn(h) \subseteq Nat \ {0}
    BY DEF Intents, OutcomesIn
  <1>3. QED
    BY <1>1, <1>2 DEF Coherent, BegunOnce, OutcomeFollows, SettledOnce

\* The outcome an operation is settled as is that of its settling record.
LEMMA SettledAsItSays ==
  ASSUME NEW h \in Seq(Record), NEW n \in 0..Len(h),
         \A k, l \in OutcomesIn(h) :
           k < l /\ h[k].op = h[l].op => h[k].outcome = "uncertain",
         NEW k \in OutcomesIn(h), k =< n, h[k].outcome # "uncertain"
  PROVE  SettledAs(SubSeq(h, 1, n), h[k].op) = h[k].outcome
  <1>1. /\ OutcomesIn(SubSeq(h, 1, n)) = {i \in OutcomesIn(h) : i =< n}
        /\ \A i \in 1..n : SubSeq(h, 1, n)[i] = h[i]
        /\ OutcomesIn(h) \subseteq 1..Len(h)
        /\ Len(h) \in Nat
    BY PrefixFacts DEF OutcomesIn
  <1>2. h[k].outcome \in Outcomes \ {"uncertain"}
    <2>1. h[k] \in Record /\ h[k].type = "outcome"
      BY DEF OutcomesIn
    <2>2. h[k] \in Outcome
      BY <2>1 DEF Record, Intent, WorkIntent, ControlIntent
    <2>3. QED
      BY <2>2 DEF Outcome
  <1>3. \A x \in Outcomes \ {"uncertain"} :
          (\E i \in OutcomesIn(SubSeq(h, 1, n)) :
              SubSeq(h, 1, n)[i].op = h[k].op /\ SubSeq(h, 1, n)[i].outcome = x)
          <=> x = h[k].outcome
    <2> SUFFICES ASSUME NEW i \in OutcomesIn(h), i =< n, h[i].op = h[k].op,
                        h[i].outcome # "uncertain"
                 PROVE  h[i].outcome = h[k].outcome
      BY <1>1, <1>2
    <2>1. i = k
      BY <1>1
    <2>2. QED
      BY <2>1
  <1>4. QED
    BY <1>2, <1>3 DEF SettledAs

\* A record opens or settles its own operation and changes no other.
LEMMA AppendOpens ==
  ASSUME NEW h \in Seq(Record), NEW r \in Record, Appendable(h, r), Coherent(h)
  PROVE  /\ r.type = "intent" => Open(Append(h, r)) = Open(h) \cup {r.op}
         /\ r.type = "outcome" /\ r.outcome # "uncertain" =>
              Open(Append(h, r)) = Open(h) \ {r.op}
         /\ r.type = "outcome" /\ r.outcome = "uncertain" =>
              Open(Append(h, r)) = Open(h)
         /\ Settled(h) \subseteq Settled(Append(h, r))
  <1> DEFINE g == Append(h, r)
  <1>1. /\ Intents(g) = Intents(h) \cup {i \in {Len(h) + 1} : r.type = "intent"}
        /\ OutcomesIn(g) = OutcomesIn(h) \cup {i \in {Len(h) + 1} : r.type = "outcome"}
        /\ \A i \in Intents(h) \cup OutcomesIn(h) : g[i] = h[i]
        /\ g[Len(h) + 1] = r
    BY AppendReading, AppendFacts
  <1>2. /\ r.type = "intent" => r.op \notin Begun(h)
        /\ r.type = "outcome" => r.op \in Open(h)
        /\ r.type \in {"intent", "outcome"}
    BY RecordFacts DEF Appendable, Admits, AdmitsIntent, AdmitsOutcome
  <1> HIDE DEF g
  <1>3. Begun(g) = IF r.type = "intent" THEN Begun(h) \cup {r.op} ELSE Begun(h)
    BY <1>1, <1>2 DEF Begun
  <1>4. Settled(g) = IF r.type = "outcome" /\ r.outcome # "uncertain"
                       THEN Settled(h) \cup {r.op} ELSE Settled(h)
    <2>1. CASE r.type = "outcome"
      BY <1>1, <2>1 DEF Settled
    <2>2. CASE r.type # "outcome"
      BY <1>1, <2>2 DEF Settled
    <2>3. QED
      BY <2>1, <2>2
  <1>5. Settled(h) \subseteq Begun(h)
    BY DEF Coherent, OutcomeFollows, Settled, Begun
  <1>6. QED
    BY <1>2, <1>3, <1>4, <1>5 DEF Open, g

-----------------------------------------------------------------------------
(* What a history tells of an operation *)

\* Some outcome of operation o is v.
Tells(h, o, v) == \E k \in OutcomesIn(h) : h[k].op = o /\ h[k].outcome = v

\* What was told stays told.
LEMMA TellsGrows ==
  ASSUME NEW h \in Seq(Record), NEW r \in Record, NEW o, NEW v, Tells(h, o, v)
  PROVE  Tells(Append(h, r), o, v)
  <1>1. /\ OutcomesIn(h) \subseteq OutcomesIn(Append(h, r))
        /\ \A k \in OutcomesIn(h) : Append(h, r)[k] = h[k]
    BY AppendReading, AppendFacts
  <1>2. QED
    BY <1>1 DEF Tells

\* The last outcome appended is told.
LEMMA AppendTells ==
  ASSUME NEW h \in Seq(Record), NEW r \in Record, r.type = "outcome"
  PROVE  Tells(Append(h, r), r.op, r.outcome)
  <1>1. /\ Len(h) + 1 \in OutcomesIn(Append(h, r))
        /\ Append(h, r)[Len(h) + 1] = r
    BY AppendReading, AppendFacts
  <1>2. QED
    BY <1>1 DEF Tells

\* In a coherent history an operation is settled as what is told of it.
LEMMA ToldIsSettled ==
  ASSUME NEW h \in Seq(Record), Coherent(h), NEW o, NEW v \in Outcomes,
         Tells(h, o, v), v # "uncertain"
  PROVE  o \in Settled(h) /\ SettledAs(h, o) = v
  <1>1. PICK k \in OutcomesIn(h) : h[k].op = o /\ h[k].outcome = v
    BY DEF Tells
  <1>2. /\ SubSeq(h, 1, Len(h)) = h /\ Len(h) \in Nat /\ Len(h) \in 0..Len(h)
        /\ k =< Len(h)
    BY DEF OutcomesIn
  <1>3. SettledAs(SubSeq(h, 1, Len(h)), h[k].op) = h[k].outcome
    BY <1>1, <1>2, SettledAsItSays DEF Coherent, SettledOnce
  <1>4. QED
    BY <1>1, <1>2, <1>3 DEF Settled

\* What an operation is settled as is told.
LEMMA SettledIsTold ==
  ASSUME NEW h \in Seq(Record), Coherent(h), NEW o \in Settled(h)
  PROVE  /\ Tells(h, o, SettledAs(h, o))
         /\ SettledAs(h, o) \in Outcomes \ {"uncertain"}
  <1>1. PICK k \in OutcomesIn(h) : h[k].op = o /\ h[k].outcome # "uncertain"
    BY DEF Settled
  <1>2. h[k] \in Outcome
    BY DEF OutcomesIn, Record, Intent, WorkIntent, ControlIntent
  <1>3. h[k].outcome \in Outcomes
    BY <1>2 DEF Outcome
  <1>4. Tells(h, o, h[k].outcome)
    BY <1>1 DEF Tells
  <1>5. SettledAs(h, o) = h[k].outcome
    BY <1>1, <1>3, <1>4, ToldIsSettled
  <1>6. QED
    BY <1>1, <1>3, <1>4, <1>5
=============================================================================
