--------------------------- MODULE VersionLogsProofs ---------------------------
(***************************************************************************)
(* What appending to a log and dropping its head preserve, and the two      *)
(* facts that make optimistic concurrency work with cached reads.           *)
(***************************************************************************)
EXTENDS VersionLogs, SequenceTheorems, TLAPS

\* A version names one entry of a log.
VersionsDiffer(log) ==
    \A i, j \in 1..Len(log) :
        /\ log[i] # Absent /\ log[j] # Absent
        /\ log[i].version = log[j].version
        => i = j

\* A version that was read from the cache is still there, or gone altogether.
OnlyAtHead(log, version) ==
    \A i \in 1..Len(log) :
        log[i] # Absent /\ log[i].version = version => i = 1

LEMMA FreshIsUnused ==
    ASSUME NEW used, NEW v \in FreshVersions(used)
    PROVE  v \in Versions /\ v \notin used
BY DEF FreshVersions

LEMMA LogAppend ==
    ASSUME NEW S, NEW log \in Seq(S), NEW e \in S,
           e = Absent \/ e.version \notin VersionsIn(log)
    PROVE  /\ VersionsDiffer(log) => VersionsDiffer(Append(log, e))
           /\ Append(log, e) \in Seq(S) /\ Append(log, e) # <<>>
           /\ Head(Append(log, e)) = IF log = <<>> THEN e ELSE Head(log)
           /\ Api(Append(log, e)) = e
           /\ Len(Append(log, e)) = Len(log) + 1
<1>1. /\ Append(log, e) \in Seq(S) /\ Append(log, e) # <<>>
      /\ Len(Append(log, e)) = Len(log) + 1
      /\ \A i \in 1..Len(log) : Append(log, e)[i] = log[i]
      /\ Append(log, e)[Len(log) + 1] = e
  BY AppendProperties
<1>2. \A i \in 1..Len(log) : log[i] # Absent => log[i].version \in VersionsIn(log)
  BY DEF VersionsIn
<1>3. Len(log) \in Nat
  OBVIOUS
<1>4. Head(Append(log, e)) = IF log = <<>> THEN e ELSE Head(log)
  OBVIOUS
<1> DEFINE longer == Append(log, e)
<1> HIDE DEF longer
<1>5. VersionsDiffer(log) => VersionsDiffer(longer)
  <2> SUFFICES ASSUME VersionsDiffer(log),
                      NEW i \in 1..Len(longer), NEW j \in 1..Len(longer),
                      longer[i] # Absent, longer[j] # Absent,
                      longer[i].version = longer[j].version
               PROVE  i = j
    BY DEF VersionsDiffer
  <2>1. \A k \in 1..Len(longer) : k \in 1..Len(log) \/ k = Len(log) + 1
    BY <1>1, <1>3 DEF longer
  <2>2. CASE i \in 1..Len(log) /\ j \in 1..Len(log)
    BY <1>1, <2>2 DEF longer, VersionsDiffer
  <2>3. CASE i = Len(log) + 1 /\ j \in 1..Len(log)
    BY <1>1, <1>2, <2>3 DEF longer
  <2>4. CASE i \in 1..Len(log) /\ j = Len(log) + 1
    BY <1>1, <1>2, <2>4 DEF longer
  <2> QED
    BY <2>1, <2>2, <2>3, <2>4
<1> QED
  BY <1>1, <1>4, <1>5 DEF Api, longer

LEMMA LogTail ==
    ASSUME NEW S, NEW log \in Seq(S), Len(log) > 1
    PROVE  /\ VersionsDiffer(log) => VersionsDiffer(Tail(log))
           /\ Tail(log) \in Seq(S) /\ Tail(log) # <<>>
           /\ Api(Tail(log)) = Api(log)
           /\ \A v : OnlyAtHead(log, v) => OnlyAtHead(Tail(log), v)
           /\ \A v : OnlyAtHead(log, v) /\ Head(Tail(log)) # Absent
                        => Head(Tail(log)).version # v
<1>1. /\ Tail(log) \in Seq(S)
      /\ Len(Tail(log)) = Len(log) - 1
      /\ \A i \in 1..Len(Tail(log)) : Tail(log)[i] = log[i + 1]
  BY HeadTailProperties
<1>2. Len(log) \in Nat /\ Tail(log) # <<>>
  <2>1. Len(log) \in Nat
    OBVIOUS
  <2>2. Len(Tail(log)) # 0
    BY <1>1, <2>1
  <2>3. Len(<<>>) = 0
    OBVIOUS
  <2> QED
    BY <2>1, <2>2, <2>3, Zenon
<1>3. \A i \in 1..Len(Tail(log)) : i + 1 \in 1..Len(log) /\ i + 1 # 1
  BY <1>1, <1>2
<1>4. Head(Tail(log)) = log[2] /\ 2 \in 1..Len(log)
  BY <1>1, <1>2
<1> DEFINE rest == Tail(log)
<1> HIDE DEF rest
<1>5. VersionsDiffer(log) => VersionsDiffer(rest)
  <2> SUFFICES ASSUME VersionsDiffer(log),
                      NEW i \in 1..Len(rest), NEW j \in 1..Len(rest),
                      rest[i] # Absent, rest[j] # Absent,
                      rest[i].version = rest[j].version
               PROVE  i = j
    BY DEF VersionsDiffer
  <2>1. /\ log[i + 1] # Absent /\ log[j + 1] # Absent
        /\ log[i + 1].version = log[j + 1].version
    BY <1>1 DEF rest
  <2>2. i + 1 = j + 1
    BY <1>3, <2>1 DEF VersionsDiffer, rest
  <2> QED
    BY <2>2
<1>6. \A v : OnlyAtHead(log, v) => OnlyAtHead(rest, v)
  <2> SUFFICES ASSUME NEW v, OnlyAtHead(log, v), NEW i \in 1..Len(rest),
                      rest[i] # Absent, rest[i].version = v
               PROVE  FALSE
    BY DEF OnlyAtHead
  <2> QED
    BY <1>1, <1>3 DEF OnlyAtHead, rest
<1>7. \A v : OnlyAtHead(log, v) /\ Head(rest) # Absent => Head(rest).version # v
  BY <1>4 DEF OnlyAtHead, rest
<1>8. Api(Tail(log)) = Api(log)
  BY <1>1, <1>2 DEF Api
<1> QED
  BY <1>1, <1>2, <1>5, <1>6, <1>7, <1>8 DEF rest

LEMMA LogSingle ==
    ASSUME NEW S, NEW e \in S
    PROVE  /\ VersionsDiffer(<<e>>)
           /\ <<e>> \in Seq(S) /\ <<e>> # <<>>
           /\ Head(<<e>>) = e /\ Api(<<e>>) = e
BY DEF VersionsDiffer, Api

LEMMA LogEnds ==
    ASSUME NEW S, NEW log \in Seq(S), log # <<>>
    PROVE  Head(log) \in S /\ Api(log) \in S /\ Len(log) \in Nat \ {0}
BY DEF Api

\* The two facts that make optimistic concurrency work with cached reads.
LEMMA HeadOnlyAtHead ==
    ASSUME NEW S, NEW log \in Seq(S), log # <<>>,
           VersionsDiffer(log), Head(log) # Absent
    PROVE  OnlyAtHead(log, Head(log).version)
<1>1. Len(log) \in Nat \ {0} /\ Head(log) = log[1] /\ 1 \in 1..Len(log)
  OBVIOUS
<1> QED
  BY <1>1 DEF VersionsDiffer, OnlyAtHead

LEMMA CurrentIsDelivered ==
    ASSUME NEW S, NEW log \in Seq(S), log # <<>>, NEW v,
           OnlyAtHead(log, v), Api(log) # Absent, Api(log).version = v
    PROVE  Delivered(log) /\ Head(log) = Api(log)
<1>1. Len(log) \in Nat \ {0} /\ Head(log) = log[1] /\ Len(log) \in 1..Len(log)
  OBVIOUS
<1>2. Len(log) = 1
  BY <1>1 DEF OnlyAtHead, Api
<1> QED
  BY <1>1, <1>2 DEF Delivered, Api

\* A new entry with another version disturbs nothing.
LEMMA AppendKeepsHead ==
    ASSUME NEW S, NEW log \in Seq(S), log # <<>>, NEW e \in S, NEW v,
           e = Absent \/ e.version # v, OnlyAtHead(log, v)
    PROVE  OnlyAtHead(Append(log, e), v)
<1>1. /\ Len(Append(log, e)) = Len(log) + 1 /\ Len(log) \in Nat
      /\ \A i \in 1..Len(log) : Append(log, e)[i] = log[i]
      /\ Append(log, e)[Len(log) + 1] = e
  BY AppendProperties
<1> DEFINE longer == Append(log, e)
<1> HIDE DEF longer
<1>2. \A i \in 1..Len(longer) : i \in 1..Len(log) \/ i = Len(log) + 1
  BY <1>1 DEF longer
<1> QED
  BY <1>1, <1>2 DEF OnlyAtHead, longer
=============================================================================
