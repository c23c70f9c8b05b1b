------------------------ MODULE ServerConfigMapsProofs ------------------------
(***************************************************************************)
(* Proofs about the config maps of KIE servers, for any number of KieApps,   *)
(* servers and versions, and any number of disturbances.                     *)
(***************************************************************************)
EXTENDS ServerConfigMaps, VersionLogsProofs, FiniteSetTheorems

-----------------------------------------------------------------------------
(* The inductive invariant *)

\* A queue of requests in which none is repeated.
NoRepeats(q) ==
    /\ q \in Seq(Apps)
    /\ \A i, j \in 1..Len(q) : q[i] = q[j] => i = j

Logs ==
    /\ dc \in [Servers -> Seq(BOOLEAN)]
    /\ \A s \in Servers : dc[s] # <<>>
    /\ cm \in [Servers -> Seq(ConfigMap \cup {Absent})]
    /\ \A s \in Servers : cm[s] # <<>> /\ VersionsDiffer(cm[s])

Pass ==
    /\ pc \in {"idle", "list", "dc", "cm", "relabel"}
    /\ app \in Apps \cup {None}
    /\ app = None <=> pc = "idle"
    /\ counted \subseteq Servers
    /\ todo \subseteq Servers
    /\ hand \in [server : Servers \cup {None}, object : ConfigMap \cup {None}]
    /\ pc \in {"cm", "relabel"} => hand.server \in Servers
    /\ pc = "relabel" <=> hand.object # None

\* The copy in hand was read from the head of the log, which has that version
\* still, or the version is gone; but for the label the copy is what was read.
KnownCopy ==
    pc = "relabel" =>
        LET log == cm[hand.server]
        IN  /\ OnlyAtHead(log, hand.object.version)
            /\ Cached(log) # Absent /\ Cached(log).version = hand.object.version
                  => Cached(log).state = hand.object.state

Rest == wanted \subseteq Servers /\ budget \in 0..MaxDisturbances

IInv == Rest /\ NoRepeats(requests) /\ Logs /\ Pass /\ KnownCopy

-----------------------------------------------------------------------------
(* The queue *)

LEMMA QueueType == ASSUME NoRepeats(requests), NEW a \in Apps
                   PROVE  NoRepeats(Queue(a))
<1>1. CASE \E i \in DOMAIN requests : requests[i] = a
  BY <1>1 DEF Queue
<1>2. CASE ~\E i \in DOMAIN requests : requests[i] = a
  <2>1. Queue(a) = Append(requests, a) /\ requests \in Seq(Apps)
    BY <1>2 DEF Queue, NoRepeats
  <2>2. /\ Append(requests, a) \in Seq(Apps)
        /\ Len(Append(requests, a)) = Len(requests) + 1
        /\ \A i \in 1..Len(requests) : Append(requests, a)[i] = requests[i]
        /\ Append(requests, a)[Len(requests) + 1] = a
    BY <2>1, AppendProperties
  <2>3. DOMAIN requests = 1..Len(requests) /\ Len(requests) \in Nat
    BY <2>1
  <2> DEFINE longer == Append(requests, a)
  <2> HIDE DEF longer
  <2>4. \A i \in 1..Len(longer) : i \in 1..Len(requests) \/ i = Len(requests) + 1
    BY <2>2, <2>3 DEF longer
  <2>5. \A i, j \in 1..Len(longer) : longer[i] = longer[j] => i = j
    BY <1>2, <2>2, <2>3, <2>4 DEF longer, NoRepeats
  <2> QED
    BY <2>1, <2>2, <2>5 DEF NoRepeats, longer
<1> QED
  BY <1>1, <1>2

LEMMA TailType == ASSUME NoRepeats(requests), requests # <<>>
                  PROVE  NoRepeats(Tail(requests)) /\ Head(requests) \in Apps
<1>1. /\ Tail(requests) \in Seq(Apps)
      /\ Len(Tail(requests)) = Len(requests) - 1
      /\ \A i \in 1..Len(Tail(requests)) : Tail(requests)[i] = requests[i + 1]
      /\ Head(requests) \in Apps
  BY HeadTailProperties DEF NoRepeats
<1>2. Len(requests) \in Nat
  BY DEF NoRepeats
<1> DEFINE rest == Tail(requests)
<1> HIDE DEF rest
<1>3. \A i \in 1..Len(rest) : i + 1 \in 1..Len(requests)
  BY <1>1, <1>2 DEF rest
<1>4. \A i, j \in 1..Len(rest) : rest[i] = rest[j] => i = j
  <2> SUFFICES ASSUME NEW i \in 1..Len(rest), NEW j \in 1..Len(rest), rest[i] = rest[j]
               PROVE  i = j
    OBVIOUS
  <2>1. i + 1 = j + 1
    BY <1>1, <1>3 DEF rest, NoRepeats
  <2> QED
    BY <2>1
<1> QED
  BY <1>1, <1>4 DEF NoRepeats, rest

LEMMA EveryRequestType == ASSUME NEW q \in EveryRequest PROVE NoRepeats(q)
<1>1. Cardinality(Apps) \in Nat
  BY FS_CardinalityType, ServersAssumption DEF ServersAssumption
<1>2. /\ q \in [1..Cardinality(Apps) -> Apps]
      /\ \A i, j \in DOMAIN q : q[i] = q[j] => i = j
  BY DEF EveryRequest
<1>3. q \in Seq(Apps) /\ DOMAIN q = 1..Len(q)
  BY <1>1, <1>2
<1> QED
  BY <1>2, <1>3 DEF NoRepeats

\* A queue without repetitions is no longer than there are KieApps.
LEMMA QueueIsShort == ASSUME NEW q, NoRepeats(q)
                      PROVE  Len(q) <= Cardinality(Apps)
<1>1. q \in [1..Len(q) -> Apps] /\ Len(q) \in Nat
  BY DEF NoRepeats
<1>2. IsInjective(q)
  BY <1>1 DEF NoRepeats, IsInjective
<1>3. q \in Injection(1..Len(q), Apps)
  BY <1>1, <1>2 DEF Injection
<1>4. Cardinality(1..Len(q)) <= Cardinality(Apps)
  BY <1>3, FS_Injection, ServersAssumption DEF ServersAssumption
<1>5. Cardinality(1..Len(q)) = Len(q)
  <2>1. 1 \in Int /\ Len(q) \in Int
    BY <1>1
  <2>2. Cardinality(1..Len(q)) = IF 1 > Len(q) THEN 0 ELSE Len(q) - 1 + 1
    BY <2>1, FS_Interval
  <2> QED
    BY <1>1, <2>2
<1> QED
  BY <1>4, <1>5

LEMMA InvariantTyped == IInv => TypeOK
BY QueueIsShort DEF IInv, Rest, NoRepeats, Logs, Pass, TypeOK

-----------------------------------------------------------------------------
(* What the steps are made of *)

LEMMA ProceedPass ==
    ASSUME Pass, pc # "idle", NEW left \in SUBSET Servers, Proceed(left)
    PROVE  Pass' /\ pc' # "relabel"
<1>1. NoHand \in [server : Servers \cup {None}, object : ConfigMap \cup {None}]
  BY DEF NoHand
<1>2. CASE left = {}
  BY <1>1, <1>2, SentinelsAssumption DEF Proceed, Pass, NoHand, SentinelsAssumption
<1>3. CASE left # {}
  BY <1>1, <1>3, SentinelsAssumption DEF Proceed, Pass, NoHand, SentinelsAssumption
<1> QED
  BY <1>2, <1>3

LEMMA DisturbType == ASSUME Rest, NEW kind, Disturb(kind)
                     PROVE  budget' \in 0..MaxDisturbances
BY ServersAssumption DEF Rest, Disturb, ServersAssumption

LEMMA Listing == Listed \subseteq Servers
BY DEF Listed

\* A new entry with a version of its own keeps the logs in order, and what is
\* known of the copy in hand.
LEMMA AppendedLogs ==
    ASSUME Logs, NEW s \in Servers, NEW e \in ConfigMap \cup {Absent},
           e = Absent \/ e.version \notin VersionsIn(cm[s]),
           cm' = [cm EXCEPT ![s] = Append(@, e)], UNCHANGED dc
    PROVE  Logs' /\ Api(cm'[s]) = e /\ \A t \in Servers \ {s} : cm'[t] = cm[t]
<1>1. \A t \in Servers : cm'[t] = IF t = s THEN Append(cm[s], e) ELSE cm[t]
  BY DEF Logs
<1>2. cm[s] \in Seq(ConfigMap \cup {Absent}) /\ VersionsDiffer(cm[s])
  BY DEF Logs
<1>3. /\ VersionsDiffer(Append(cm[s], e))
      /\ Append(cm[s], e) \in Seq(ConfigMap \cup {Absent})
      /\ Append(cm[s], e) # <<>>
      /\ Api(Append(cm[s], e)) = e
  BY <1>2, LogAppend
<1>4. cm' \in [Servers -> Seq(ConfigMap \cup {Absent})]
  BY <1>3 DEF Logs
<1> QED
  BY <1>1, <1>3, <1>4 DEF Logs

LEMMA AppendedCopy ==
    ASSUME Logs, Pass, KnownCopy, NEW s \in Servers, NEW e \in ConfigMap \cup {Absent},
           e # Absent /\ hand.object # None => e.version # hand.object.version,
           cm' = [cm EXCEPT ![s] = Append(@, e)], UNCHANGED <<pc, hand>>
    PROVE  KnownCopy'
<1> SUFFICES ASSUME pc = "relabel"
             PROVE  /\ OnlyAtHead(cm'[hand.server], hand.object.version)
                    /\ /\ Cached(cm'[hand.server]) # Absent
                       /\ Cached(cm'[hand.server]).version = hand.object.version
                       => Cached(cm'[hand.server]).state = hand.object.state
  BY DEF KnownCopy
<1>1. /\ hand.server \in Servers /\ hand.object # None
      /\ OnlyAtHead(cm[hand.server], hand.object.version)
      /\ /\ Cached(cm[hand.server]) # Absent
         /\ Cached(cm[hand.server]).version = hand.object.version
         => Cached(cm[hand.server]).state = hand.object.state
  BY DEF Pass, KnownCopy
<1>2. CASE hand.server # s
  <2>1. cm'[hand.server] = cm[hand.server]
    BY <1>1, <1>2 DEF Logs
  <2> QED
    BY <1>1, <2>1
<1>3. CASE hand.server = s
  <2>1. cm'[s] = Append(cm[s], e)
    BY DEF Logs
  <2>2. cm[s] \in Seq(ConfigMap \cup {Absent}) /\ cm[s] # <<>>
    BY DEF Logs
  <2>3. Cached(Append(cm[s], e)) = Cached(cm[s])
    BY <2>2 DEF Cached
  <2>4. OnlyAtHead(Append(cm[s], e), hand.object.version)
    BY <1>1, <1>3, <2>2, AppendKeepsHead
  <2> QED
    BY <1>1, <1>3, <2>1, <2>3, <2>4
<1> QED
  BY <1>2, <1>3

\* What a write appends.
LEMMA Written ==
    ASSUME NEW s \in Servers, NEW l \in {"USED", "DETACHED"}, NEW x \in States,
           Write(s, l, x)
    PROVE  \E e \in ConfigMap :
              /\ cm' = [cm EXCEPT ![s] = Append(@, e)]
              /\ e.version \notin VersionsIn(cm[s])
              /\ hand.object # None => e.version # hand.object.version
              /\ e.state = x
<1>1. PICK v \in FreshVersions(VersionsHeld(s)) :
          cm' = [cm EXCEPT ![s] = Append(@, [version |-> v, label |-> l, state |-> x])]
  BY DEF Write
<1>2. v \in Versions /\ v \notin VersionsHeld(s)
  BY FreshIsUnused
<1>3. [version |-> v, label |-> l, state |-> x] \in ConfigMap
  BY <1>2 DEF ConfigMap
<1> QED
  BY <1>1, <1>2, <1>3 DEF VersionsHeld

\* When the caches are listed anew, every log is down to its last entry.
LEMMA RestartedLogs ==
    ASSUME Logs, dc' = [s \in Servers |-> <<Api(dc[s])>>],
           cm' = [s \in Servers |-> <<Api(cm[s])>>]
    PROVE  Logs' /\ \A s \in Servers : Api(cm'[s]) = Api(cm[s])
<1>1. \A s \in Servers : Api(dc[s]) \in BOOLEAN /\ Api(cm[s]) \in ConfigMap \cup {Absent}
  BY LogEnds DEF Logs
<1>2. \A s \in Servers : /\ <<Api(dc[s])>> \in Seq(BOOLEAN) /\ <<Api(dc[s])>> # <<>>
  BY <1>1
<1>3. \A s \in Servers : /\ VersionsDiffer(<<Api(cm[s])>>)
                         /\ <<Api(cm[s])>> \in Seq(ConfigMap \cup {Absent})
                         /\ <<Api(cm[s])>> # <<>>
                         /\ Api(<<Api(cm[s])>>) = Api(cm[s])
  BY <1>1, LogSingle
<1> QED
  BY <1>2, <1>3 DEF Logs

-----------------------------------------------------------------------------
(* The invariant is inductive *)

LEMMA InitInvariant == Init => IInv
<1> SUFFICES ASSUME Init PROVE IInv
  OBVIOUS
<1>1. PICK up \in SUBSET Servers, v \in FreshVersions({}), state \in States :
          /\ dc = [s \in Servers |-> <<s \in up>>]
          /\ cm = [s \in Servers |->
                     <<[version |-> v, label |-> "USED", state |-> state]>>]
  BY DEF Init
<1> DEFINE first == [version |-> v, label |-> "USED", state |-> state]
<1>2. first \in ConfigMap \cup {Absent}
  BY FreshIsUnused DEF ConfigMap
<1> HIDE DEF first
<1>3. /\ VersionsDiffer(<<first>>) /\ <<first>> # <<>>
      /\ <<first>> \in Seq(ConfigMap \cup {Absent})
  BY <1>2, LogSingle
<1>4. \A s \in Servers : cm[s] = <<first>>
  BY <1>1 DEF first
<1>5. cm \in [Servers -> Seq(ConfigMap \cup {Absent})]
  BY <1>1, <1>3, <1>4
<1>6. dc \in [Servers -> Seq(BOOLEAN)] /\ \A s \in Servers : dc[s] # <<>>
  BY <1>1
<1>7. Logs
  BY <1>3, <1>4, <1>5, <1>6 DEF Logs
<1>8. Pass /\ KnownCopy
  BY DEF Init, Pass, KnownCopy, NoHand
<1>9. NoRepeats(requests)
  BY EveryRequestType DEF Init
<1>10. Rest
  BY ServersAssumption DEF Init, Rest, ServersAssumption
<1> QED
  BY <1>7, <1>8, <1>9, <1>10 DEF IInv

\* A pass takes a request from the queue.
LEMMA StartStep == ASSUME IInv, Start PROVE IInv'
<1> USE DEF IInv
<1>1. NoRepeats(requests') /\ app' \in Apps
  BY TailType DEF Start
<1>2. Rest' /\ Logs'
  BY DEF Start, Rest, Logs
<1>3. counted' \subseteq Servers
  BY DEF Start, Rest
<1>4. Pass' /\ KnownCopy'
  BY <1>1, <1>3, SentinelsAssumption DEF Start, Pass, KnownCopy, SentinelsAssumption
<1> QED
  BY <1>1, <1>2, <1>4

\* A step of the pass that ends with its look at a config map, and writes nothing.
LEMMA ProceedStep ==
    ASSUME IInv, pc # "idle", NEW left \in SUBSET Servers, Proceed(left),
           NoRepeats(requests'), UNCHANGED <<wanted, dc, cm>>,
           budget' \in 0..MaxDisturbances
    PROVE  IInv'
<1>1. Pass' /\ pc' # "relabel"
  BY ProceedPass DEF IInv
<1>2. Logs' /\ Rest'
  BY DEF IInv, Logs, Rest
<1> QED
  BY <1>1, <1>2 DEF IInv, KnownCopy

\* A step that takes the name of a server in hand.
LEMMA TakeStep ==
    ASSUME IInv, pc = "dc", NEW s \in Servers, pc' = "cm",
           hand' = [hand EXCEPT !.server = s],
           UNCHANGED <<app, counted, todo, wanted, dc, cm, requests>>,
           budget' \in 0..MaxDisturbances
    PROVE  IInv'
<1>1. Pass' /\ pc' # "relabel"
  BY DEF IInv, Pass
<1>2. Logs' /\ Rest'
  BY DEF IInv, Logs, Rest
<1> QED
  BY <1>1, <1>2 DEF IInv, KnownCopy

\* The copy that is read from the head of a log is known.
LEMMA GetConfigMapStep == ASSUME IInv, GetConfigMap PROVE IInv'
<1> DEFINE log == cm[hand.server]
<1>1. hand.server \in Servers /\ pc = "cm" /\ Cached(log) # Absent
  BY DEF GetConfigMap, IInv, Pass
<1>2. log \in Seq(ConfigMap \cup {Absent}) /\ log # <<>> /\ VersionsDiffer(log)
  BY <1>1 DEF IInv, Logs
<1>3. Cached(log) \in ConfigMap
  BY <1>1, <1>2, LogEnds DEF Cached
<1>4. /\ [Cached(log) EXCEPT !.label = "DETACHED"] \in ConfigMap
      /\ [Cached(log) EXCEPT !.label = "DETACHED"].version = Cached(log).version
      /\ [Cached(log) EXCEPT !.label = "DETACHED"].state = Cached(log).state
  BY <1>3 DEF ConfigMap
<1>5. /\ hand' = [hand EXCEPT !.object = [Cached(log) EXCEPT !.label = "DETACHED"]]
      /\ pc' = "relabel"
      /\ UNCHANGED <<cm, app, counted, todo, budget, wanted, dc, requests>>
  BY DEF GetConfigMap, Elsewhere
<1> DEFINE copy == [Cached(log) EXCEPT !.label = "DETACHED"]
<1> HIDE DEF copy
<1>6. copy \in ConfigMap /\ copy # None
  BY <1>4, SentinelsAssumption DEF copy, SentinelsAssumption
<1>7. hand' = [hand EXCEPT !.object = copy]
  BY <1>5 DEF copy
<1>8. hand'.server = hand.server /\ hand'.object = copy
  BY <1>7 DEF IInv, Pass
<1>9. Pass'
  BY <1>1, <1>5, <1>6, <1>7 DEF IInv, Pass
<1>10. OnlyAtHead(log, copy.version) /\ copy.state = Cached(log).state
  BY <1>1, <1>2, <1>4, HeadOnlyAtHead DEF copy, Cached
<1>11. cm'[hand'.server] = log
  BY <1>5, <1>8
<1>12. KnownCopy'
  BY <1>8, <1>10, <1>11 DEF KnownCopy
<1>13. Logs' /\ Rest' /\ NoRepeats(requests')
  BY <1>5 DEF IInv, Logs, Rest
<1> QED
  BY <1>9, <1>12, <1>13 DEF IInv

\* An update that is accepted writes the server's own state back.
LEMMA RelabelStep ==
    ASSUME IInv, Relabel
    PROVE  /\ IInv'
           /\ \A s \in Servers :
                 \/ cm'[s] = cm[s]
                 \/ Api(cm[s]) # Absent /\ Api(cm'[s]).state = Api(cm[s]).state
<1> DEFINE s == hand.server
<1>1. s \in Servers /\ pc = "relabel" /\ hand.object \in ConfigMap /\ hand.object # None
  BY SentinelsAssumption DEF Relabel, IInv, Pass, SentinelsAssumption
<1>2. cm[s] \in Seq(ConfigMap \cup {Absent}) /\ cm[s] # <<>>
  BY <1>1 DEF IInv, Logs
<1>3. /\ Proceed(todo \ {s}) /\ todo \ {s} \in SUBSET Servers
      /\ UNCHANGED <<wanted, dc, requests, budget>>
  BY DEF Relabel, Elsewhere, IInv, Pass
<1>4. Pass' /\ pc' # "relabel" /\ Rest' /\ NoRepeats(requests') /\ KnownCopy'
  BY <1>1, <1>3, ProceedPass DEF IInv, Rest, KnownCopy
<1>5. CASE UNCHANGED cm
  BY <1>3, <1>4, <1>5 DEF IInv, Logs
<1>6. CASE IsCurrent /\ Write(s, hand.object.label, hand.object.state)
  <2>1. /\ OnlyAtHead(cm[s], hand.object.version)
        /\ Cached(cm[s]) # Absent /\ Cached(cm[s]).version = hand.object.version
              => Cached(cm[s]).state = hand.object.state
    BY <1>1 DEF IInv, KnownCopy
  <2>2. Api(cm[s]) # Absent /\ Api(cm[s]).version = hand.object.version
    BY <1>6 DEF IsCurrent
  <2>3. Cached(cm[s]) = Api(cm[s])
    BY <1>2, <2>1, <2>2, CurrentIsDelivered DEF Cached
  <2>4. Api(cm[s]).state = hand.object.state
    BY <2>1, <2>2, <2>3
  <2>5. hand.object.label \in {"USED", "DETACHED"} /\ hand.object.state \in States
    BY <1>1 DEF ConfigMap
  <2>6. PICK e \in ConfigMap :
            /\ cm' = [cm EXCEPT ![s] = Append(@, e)]
            /\ e.version \notin VersionsIn(cm[s])
            /\ e.state = hand.object.state
    BY <1>1, <1>6, <2>5, Written
  <2>7. /\ Logs' /\ Api(cm'[s]) = e
        /\ \A t \in Servers \ {s} : cm'[t] = cm[t]
    BY <1>1, <1>3, <2>6, AppendedLogs DEF IInv
  <2> QED
    BY <1>4, <2>2, <2>4, <2>6, <2>7 DEF IInv
<1> QED
  BY <1>5, <1>6 DEF Relabel

\* A restart forgets the pass and what was on its way to the caches.
LEMMA RestartStep ==
    ASSUME IInv, Restart,
           budget' \in 0..MaxDisturbances
    PROVE  IInv' /\ \A s \in Servers : Api(cm'[s]) = Api(cm[s])
<1>1. Logs' /\ \A s \in Servers : Api(cm'[s]) = Api(cm[s])
  BY RestartedLogs DEF Restart, IInv
<1>2. NoRepeats(requests')
  BY EveryRequestType DEF Restart
<1>3. pc' = "idle" /\ app' = None /\ counted' = {} /\ todo' = {} /\ hand' = NoHand
  BY DEF Restart, Proceed
<1>4. Pass' /\ KnownCopy'
  BY <1>3 DEF Pass, KnownCopy, NoHand
<1>5. Rest'
  BY DEF Restart, IInv, Rest
<1> QED
  BY <1>1, <1>2, <1>4, <1>5 DEF IInv

\* Steps that leave config maps and the pass alone.
LEMMA ElsewhereStep ==
    ASSUME IInv, UNCHANGED <<cm, pass>>, wanted' \subseteq Servers,
           dc' \in [Servers -> Seq(BOOLEAN)], \A s \in Servers : dc'[s] # <<>>,
           NoRepeats(requests'), budget' \in 0..MaxDisturbances
    PROVE  IInv'
BY DEF IInv, pass, Rest, Logs, Pass, KnownCopy

\* A deployment config's log gets longer.
LEMMA AppendedDC ==
    ASSUME Logs, NEW s \in Servers, NEW b \in BOOLEAN,
           dc' = [dc EXCEPT ![s] = Append(@, b)]
    PROVE  dc' \in [Servers -> Seq(BOOLEAN)] /\ \A t \in Servers : dc'[t] # <<>>
<1>1. Append(dc[s], b) \in Seq(BOOLEAN) /\ Append(dc[s], b) # <<>>
  BY AppendProperties DEF Logs
<1> QED
  BY <1>1 DEF Logs

\* A config map's log gets longer, and nothing else happens.
LEMMA AppendStep ==
    ASSUME IInv, NEW s \in Servers, NEW e \in ConfigMap \cup {Absent},
           e = Absent \/ e.version \notin VersionsIn(cm[s]),
           e # Absent /\ hand.object # None => e.version # hand.object.version,
           cm' = [cm EXCEPT ![s] = Append(@, e)],
           UNCHANGED <<wanted, dc, requests, pass>>,
           budget' \in 0..MaxDisturbances
    PROVE  IInv'
<1>1. Logs'
  BY AppendedLogs DEF IInv
<1>2. KnownCopy'
  BY AppendedCopy DEF IInv, pass
<1> QED
  BY <1>1, <1>2 DEF IInv, pass, Rest, Pass

\* A delivered event drops the head of a log.
LEMMA DeliverConfigMapStep ==
    ASSUME IInv, NEW s \in Servers, DeliverConfigMap(s) PROVE IInv'
<1> DEFINE log == cm[s]
<1>1. log \in Seq(ConfigMap \cup {Absent}) /\ Len(log) > 1 /\ VersionsDiffer(log)
  BY DEF IInv, Logs, DeliverConfigMap
<1>2. /\ VersionsDiffer(Tail(log))
      /\ Tail(log) \in Seq(ConfigMap \cup {Absent}) /\ Tail(log) # <<>>
      /\ \A v : OnlyAtHead(log, v) => OnlyAtHead(Tail(log), v)
      /\ \A v : OnlyAtHead(log, v) /\ Head(Tail(log)) # Absent
                   => Head(Tail(log)).version # v
  BY <1>1, LogTail
<1>3. cm' = [cm EXCEPT ![s] = Tail(log)] /\ UNCHANGED <<wanted, dc, requests, pass, budget>>
  BY DEF DeliverConfigMap
<1>4. \A t \in Servers : cm'[t] = IF t = s THEN Tail(log) ELSE cm[t]
  BY <1>3 DEF IInv, Logs
<1>5. cm' \in [Servers -> Seq(ConfigMap \cup {Absent})]
  BY <1>2, <1>3 DEF IInv, Logs
<1>6. Logs'
  BY <1>2, <1>3, <1>4, <1>5 DEF IInv, Logs
<1>7. KnownCopy'
  <2>1. UNCHANGED <<pc, hand>>
    BY <1>3 DEF pass
  <2>2. CASE pc = "relabel" /\ hand.server = s
    <3>1. OnlyAtHead(log, hand.object.version) /\ cm'[hand.server] = Tail(log)
      BY <1>4, <2>2 DEF IInv, KnownCopy
    <3>2. OnlyAtHead(Tail(log), hand.object.version)
      BY <1>2, <3>1
    <3>3. Head(Tail(log)) # Absent => Head(Tail(log)).version # hand.object.version
      BY <1>2, <3>1
    <3> QED
      BY <2>1, <2>2, <3>1, <3>2, <3>3 DEF KnownCopy, Cached
  <2>3. CASE pc = "relabel" /\ hand.server # s
    <3>1. cm'[hand.server] = cm[hand.server]
      BY <1>4, <2>3 DEF IInv, Pass
    <3> QED
      BY <2>1, <2>3, <3>1 DEF IInv, KnownCopy
  <2>4. CASE pc # "relabel"
    BY <2>1, <2>4 DEF KnownCopy
  <2> QED
    BY <2>2, <2>3, <2>4
<1> QED
  BY <1>3, <1>6, <1>7 DEF IInv, pass, Rest, Pass

\* What a step of the pass, or a restart, does to a config map's state while the
\* update is being sent.
KeepsState ==
    \A s \in Servers :
        \/ cm'[s] = cm[s]
        \/ Api(cm'[s]) = Api(cm[s])
        \/ Api(cm[s]) # Absent /\ Api(cm'[s]).state = Api(cm[s]).state

\* One step of the inductive argument, with what it shows of StateIsTheServers.
LEMMA NextInvariant ==
    ASSUME IInv, [Next]_vars
    PROVE  IInv' /\ (pc = "relabel" /\ pc' # pc => KeepsState)
<1>1. CASE UNCHANGED vars
  BY <1>1 DEF vars, IInv, Rest, Logs, Pass, KnownCopy
<1>2. CASE Start
  BY <1>2, StartStep DEF Start
<1>3. CASE List
  BY <1>3, Listing, ProceedStep DEF List, Elsewhere, IInv, Rest
<1>4. CASE GetConfigMap
  BY <1>4, GetConfigMapStep DEF GetConfigMap
<1>5. CASE Relabel
  BY <1>5, RelabelStep DEF KeepsState
<1>6. CASE Panic
  <2>1. budget' \in 0..MaxDisturbances /\ pc # "idle" /\ Restart
    BY <1>6 DEF Panic, IInv, Rest
  <2> QED
    BY <2>1, RestartStep DEF KeepsState
<1>7. CASE \E s \in todo : GetDC(s)
  <2>1. PICK s \in todo : GetDC(s)
    BY <1>7
  <2>2. /\ s \in Servers /\ pc = "dc" /\ todo \ {s} \in SUBSET Servers
        /\ NoRepeats(requests) /\ budget \in 0..MaxDisturbances
    BY <2>1 DEF GetDC, IInv, Pass, Rest
  <2>3. CASE IsDown(s)
    BY <2>1, <2>2, <2>3, TakeStep DEF GetDC, Elsewhere
  <2>4. CASE ~IsDown(s)
    BY <2>1, <2>2, <2>4, ProceedStep DEF GetDC, Elsewhere
  <2> QED
    BY <2>2, <2>3, <2>4
<1>8. CASE ReturnEarly
  <2>1. pc = "list" /\ app \in Apps /\ Disturb("failure") /\ UNCHANGED <<wanted, dc, cm>>
    BY <1>8 DEF ReturnEarly, Fails, IInv, Pass
  <2>2. NoRepeats(requests') /\ budget' \in 0..MaxDisturbances
    BY <1>8, <2>1, QueueType, DisturbType DEF ReturnEarly, IInv
  <2> QED
    BY <1>8, <2>1, <2>2, ProceedStep DEF ReturnEarly
<1>9. CASE GiveUp
  <2>1. /\ Disturb("failure") /\ UNCHANGED <<wanted, dc, cm, requests>>
        /\ pc # "idle" /\ {} \in SUBSET Servers /\ todo \ {hand.server} \in SUBSET Servers
        /\ Proceed({}) \/ Proceed(todo \ {hand.server})
    BY <1>9 DEF GiveUp, Fails, IInv, Pass
  <2>2. NoRepeats(requests') /\ budget' \in 0..MaxDisturbances
    BY <2>1, DisturbType DEF IInv
  <2>3. IInv'
    BY <2>1, <2>2, ProceedStep
  <2> QED
    BY <2>1, <2>3 DEF KeepsState
<1>10. CASE Crash
  <2>1. /\ budget' \in 0..MaxDisturbances /\ Restart
    BY <1>10, DisturbType DEF Crash, IInv
  <2> QED
    BY <2>1, RestartStep DEF KeepsState
<1>11. CASE \E s \in todo : GetDCFails(s)
  <2>1. PICK s \in todo : GetDCFails(s)
    BY <1>11
  <2>2. s \in Servers /\ pc = "dc" /\ budget' \in 0..MaxDisturbances
    BY <2>1, DisturbType DEF GetDCFails, IInv, Pass
  <2> QED
    BY <2>1, <2>2, TakeStep DEF GetDCFails, Elsewhere
<1>12. CASE Resync
  <2>1. UNCHANGED <<wanted, dc, cm, pass, budget>> /\ NoRepeats(requests')
    BY <1>12, EveryRequestType DEF Resync
  <2> QED
    BY <2>1, ElsewhereStep DEF IInv, Rest, Logs, pass
<1>13. ASSUME NEW s \in Servers, DeliverDC(s)
       PROVE  IInv' /\ pc' = pc
  <2>1. AppOf[s] \in Apps
    BY ServersAssumption DEF ServersAssumption
  <2>2. NoRepeats(requests')
    BY <1>13, <2>1, QueueType DEF DeliverDC, IInv
  <2>3. dc[s] \in Seq(BOOLEAN) /\ Len(dc[s]) > 1
    BY <1>13 DEF DeliverDC, IInv, Logs
  <2>4. Tail(dc[s]) \in Seq(BOOLEAN) /\ Tail(dc[s]) # <<>>
    BY <2>3, LogTail
  <2>5. dc' \in [Servers -> Seq(BOOLEAN)] /\ \A t \in Servers : dc'[t] # <<>>
    BY <1>13, <2>4 DEF DeliverDC, IInv, Logs
  <2> QED
    BY <1>13, <2>2, <2>5, ElsewhereStep DEF DeliverDC, IInv, Rest, pass
<1>14. ASSUME NEW s \in Servers, DeliverConfigMap(s)
       PROVE  IInv' /\ pc' = pc
  BY <1>14, DeliverConfigMapStep DEF DeliverConfigMap, pass
<1>15. ASSUME NEW s \in Servers, UserScales(s)
       PROVE  IInv' /\ pc' = pc
  <2>1. AppOf[s] \in Apps
    BY ServersAssumption DEF ServersAssumption
  <2>2. NoRepeats(requests') /\ budget' \in 0..MaxDisturbances
    BY <1>15, <2>1, QueueType, DisturbType DEF UserScales, IInv
  <2>3. wanted' \subseteq Servers
    BY <1>15 DEF UserScales, IInv, Rest
  <2> QED
    BY <1>15, <2>2, <2>3, ElsewhereStep DEF UserScales, IInv, Logs, pass
<1>16. ASSUME NEW s \in Servers, NEW available \in BOOLEAN, SetAvailable(s, available),
              budget' \in 0..MaxDisturbances
       PROVE  IInv' /\ pc' = pc
  <2>1. dc' \in [Servers -> Seq(BOOLEAN)] /\ \A t \in Servers : dc'[t] # <<>>
    BY <1>16, AppendedDC DEF SetAvailable, IInv
  <2> QED
    BY <1>16, <2>1, ElsewhereStep DEF SetAvailable, IInv, Rest, pass
<1>17. ASSUME NEW s \in Servers, DCFollows(s)
       PROVE  IInv' /\ pc' = pc
  <2> DEFINE b == s \in wanted
  <2>1. b \in BOOLEAN /\ budget' \in 0..MaxDisturbances
    BY <1>17 DEF DCFollows, IInv, Rest
  <2>2. SetAvailable(s, b)
    BY <1>17 DEF DCFollows
  <2> HIDE DEF b
  <2> QED
    BY <1>16, <2>1, <2>2
<1>18. ASSUME NEW s \in Servers, PodFails(s)
       PROVE  IInv' /\ pc' = pc
  BY <1>16, <1>18, DisturbType DEF PodFails, IInv
<1>19. ASSUME NEW s \in Servers, ServerRegisters(s)
       PROVE  IInv' /\ pc' = pc
  <2>1. PICK x \in States : Write(s, "USED", x)
    BY <1>19 DEF ServerRegisters
  <2>2. PICK e \in ConfigMap :
            /\ cm' = [cm EXCEPT ![s] = Append(@, e)]
            /\ e.version \notin VersionsIn(cm[s])
            /\ hand.object # None => e.version # hand.object.version
    BY <2>1, Written
  <2>3. budget' \in 0..MaxDisturbances /\ UNCHANGED <<wanted, dc, requests, pass>>
    BY <1>19, DisturbType DEF ServerRegisters, IInv
  <2> QED
    BY <2>2, <2>3, AppendStep DEF pass
<1>20. ASSUME NEW s \in Servers, ConfigMapDeleted(s)
       PROVE  IInv' /\ pc' = pc
  <2>1. budget' \in 0..MaxDisturbances /\ UNCHANGED <<wanted, dc, requests, pass>>
    BY <1>20, DisturbType DEF ConfigMapDeleted, IInv
  <2>2. cm' = [cm EXCEPT ![s] = Append(@, Absent)]
    BY <1>20 DEF ConfigMapDeleted
  <2> QED
    BY <2>1, <2>2, AppendStep DEF pass
<1> QED
  BY <1>1, <1>2, <1>3, <1>4, <1>5, <1>6, <1>7, <1>8, <1>9, <1>10, <1>11, <1>12,
     <1>13, <1>14, <1>15, <1>17, <1>18, <1>19, <1>20
  DEF Next, Operator, Failure, Runtime, Environment

-----------------------------------------------------------------------------
(* The theorems *)

LEMMA Invariance == Spec => []IInv
<1>1. IInv /\ [Next]_vars => IInv'
  BY NextInvariant
<1> QED
  BY InitInvariant, <1>1, PTL DEF Spec

\* Every reachable state is well typed, with as many servers and KieApps as one
\* likes: in particular a KieApp is never queued twice (checkKieServerConfigMap and
\* the work queue), and a pass has a config map in hand only while it relabels.
THEOREM TypeCorrect == Spec => []TypeOK
BY Invariance, InvariantTyped, PTL

\* Relabelling never undoes what a KIE server has stored in its config map, whatever
\* passes, servers, failures and restarts come between the read and the update
\* (checkKieServerConfigMap, UpdateObj).
THEOREM ServersStateIsKept == Spec => StateIsTheServers
<1> DEFINE A == \A s \in Servers :
          pc = "relabel" /\ pc' # pc /\ Api(cm[s]) # Absent /\ Api(cm[s])' # Absent =>
              Api(cm[s])'.state = Api(cm[s]).state
<1>1. ASSUME IInv, [Next]_vars PROVE A
  <2> SUFFICES ASSUME pc = "relabel", pc' # pc, NEW s \in Servers,
                      Api(cm[s]) # Absent, Api(cm[s])' # Absent
               PROVE  Api(cm[s])'.state = Api(cm[s]).state
    OBVIOUS
  <2>1. KeepsState /\ Api(cm[s])' = Api(cm'[s])
    BY <1>1, NextInvariant DEF Api
  <2> QED
    BY <2>1 DEF KeepsState
<1>2. IInv /\ [Next]_vars => [A]_vars
  BY <1>1
<1> QED
  BY Invariance, <1>2, PTL DEF Spec, StateIsTheServers
=============================================================================
