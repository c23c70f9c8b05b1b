----------------------- MODULE OperatorResourcesProofs -----------------------
(***************************************************************************)
(* Proofs about the operator's own resources, for any config maps, console   *)
(* objects, links and versions, and any number of disturbances.              *)
(***************************************************************************)
EXTENDS OperatorResources, VersionLogsProofs, FiniteSetTheorems

-----------------------------------------------------------------------------
(* Links *)

OneLink(publication) ==
    /\ \A i, j \in DOMAIN publication.links :
          IsConsoleLink(publication.links[i]) /\ IsConsoleLink(publication.links[j])
              => i = j
    /\ publication.described \in {0, 1}

LEMMA PublicationType ==
    ASSUME NEW p \in Publication
    PROVE  /\ p = [links |-> p.links, described |-> p.described]
           /\ p.links \in Seq(Link) /\ p.described \in Nat
           /\ DOMAIN p.links = 1..Len(p.links) /\ Len(p.links) \in Nat
BY DEF Publication

\* getConsoleLink replaces the host of the console's link, if there is one, and
\* prepends a link otherwise: where there was at most one there is one, and others
\* keep their place, counted from the end.
LEMMA LinkedProperties ==
    ASSUME NEW links \in Seq(Link), NEW host \in Hosts \cup {NoHost},
           \A i, j \in DOMAIN links :
              IsConsoleLink(links[i]) /\ IsConsoleLink(links[j]) => i = j
    PROVE  /\ Linked(links, host) \in Seq(Link)
           /\ OthersAmong(Linked(links, host)) = OthersAmong(links)
           /\ \A i, j \in DOMAIN Linked(links, host) :
                 /\ IsConsoleLink(Linked(links, host)[i])
                 /\ IsConsoleLink(Linked(links, host)[j])
                 => i = j
<1> DEFINE own == {i \in DOMAIN links : IsConsoleLink(links[i])}
           new == [name |-> ConsoleLink, host |-> host]
           result == Linked(links, host)
<1>1. DOMAIN links = 1..Len(links) /\ Len(links) \in Nat
  OBVIOUS
<1>2. new \in Link /\ IsConsoleLink(new)
  BY DEF Link, IsConsoleLink
<1>3. CASE own = {}
  <2>1. result = <<new>> \o links
    BY <1>3 DEF Linked
  <2>2. <<new>> \in Seq(Link) /\ Len(<<new>>) = 1 /\ <<new>>[1] = new
    BY <1>2
  <2> HIDE DEF new, result
  <2>3. /\ result \in Seq(Link)
        /\ Len(result) = Len(<<new>>) + Len(links)
        /\ \A i \in 1..(Len(<<new>>) + Len(links)) :
              result[i] = IF i <= Len(<<new>>) THEN <<new>>[i] ELSE links[i - Len(<<new>>)]
    BY <2>1, <2>2, ConcatProperties
  <2>4. /\ DOMAIN result = 1..(Len(links) + 1) /\ Len(result) = Len(links) + 1
        /\ result[1] = new
        /\ \A i \in 1..Len(links) : result[i + 1] = links[i]
    BY <1>1, <2>2, <2>3
  <2>5. \A i \in DOMAIN result : i # 1 => i - 1 \in DOMAIN links /\ result[i] = links[i - 1]
    BY <1>1, <2>4
  <2>6. \A i \in DOMAIN links : ~IsConsoleLink(links[i])
    BY <1>3
  <2>7. \A i \in DOMAIN result : IsConsoleLink(result[i]) => i = 1
    BY <2>5, <2>6
  <2>8. OthersAmong(result) \subseteq OthersAmong(links)
    <3> SUFFICES ASSUME NEW i \in DOMAIN result, ~IsConsoleLink(result[i])
                 PROVE  <<Len(result) - i, result[i]>> \in OthersAmong(links)
      BY DEF OthersAmong
    <3>1. i # 1
      BY <1>2, <2>4
    <3>2. i - 1 \in DOMAIN links /\ result[i] = links[i - 1]
      BY <2>5, <3>1
    <3>3. Len(result) - i = Len(links) - (i - 1)
      BY <1>1, <2>4
    <3> QED
      BY <3>2, <3>3 DEF OthersAmong
  <2>9. OthersAmong(links) \subseteq OthersAmong(result)
    <3> SUFFICES ASSUME NEW i \in DOMAIN links, ~IsConsoleLink(links[i])
                 PROVE  <<Len(links) - i, links[i]>> \in OthersAmong(result)
      BY DEF OthersAmong
    <3>1. i + 1 \in DOMAIN result /\ result[i + 1] = links[i]
      BY <1>1, <2>4
    <3>2. Len(result) - (i + 1) = Len(links) - i
      BY <1>1, <2>4
    <3> QED
      BY <3>1, <3>2 DEF OthersAmong
  <2> QED
    BY <2>3, <2>7, <2>8, <2>9 DEF result
<1>4. CASE own # {}
  <2> DEFINE k == CHOOSE i \in own : \A j \in own : i <= j
  <2>1. \E i \in own : \A j \in own : i <= j
    BY <1>1, <1>4
  <2>2. k \in own
    BY <2>1
  <2>3. result = [links EXCEPT ![k].host = host]
    BY <1>4 DEF Linked
  <2>4. k \in 1..Len(links) /\ IsConsoleLink(links[k]) /\ links[k] \in Link
    BY <1>1, <2>2
  <2> HIDE DEF k, own, result
  <2>5. [links[k] EXCEPT !.host = host] \in Link /\ IsConsoleLink([links[k] EXCEPT !.host = host])
    BY <2>4 DEF Link, IsConsoleLink
  <2>6. result = [links EXCEPT ![k] = [links[k] EXCEPT !.host = host]]
    BY <2>3
  <2>7. /\ result \in Seq(Link)
        /\ Len(result) = Len(links) /\ DOMAIN result = DOMAIN links
        /\ \A i \in DOMAIN links : i # k => result[i] = links[i]
        /\ IsConsoleLink(result[k])
    BY <1>1, <2>4, <2>5, <2>6, ExceptSeq
  <2>8. \A i \in DOMAIN links : IsConsoleLink(result[i]) <=> IsConsoleLink(links[i])
    BY <2>4, <2>7
  <2>9. OthersAmong(result) = OthersAmong(links)
    <3>1. {j \in DOMAIN result : ~IsConsoleLink(result[j])}
            = {j \in DOMAIN links : ~IsConsoleLink(links[j])}
      BY <2>7, <2>8
    <3>2. \A j \in DOMAIN links : ~IsConsoleLink(links[j]) => result[j] = links[j]
      BY <2>4, <2>7
    <3> QED
      BY <2>7, <3>1, <3>2 DEF OthersAmong
  <2> QED
    BY <2>7, <2>8, <2>9 DEF result
<1> QED
  BY <1>3, <1>4

\* updateCSVlinks keeps a publication in order.
LEMMA PublishedProperties ==
    ASSUME NEW p \in Publication, OneLink(p), NEW host \in Hosts \cup {NoHost}
    PROVE  /\ Published(p, host) \in Publication
           /\ OneLink(Published(p, host))
           /\ OthersAmong(Published(p, host).links) = OthersAmong(p.links)
<1>1. p.links \in Seq(Link) /\ p.described \in {0, 1}
  BY PublicationType DEF OneLink
<1>2. /\ Linked(p.links, host) \in Seq(Link)
      /\ OthersAmong(Linked(p.links, host)) = OthersAmong(p.links)
      /\ \A i, j \in DOMAIN Linked(p.links, host) :
            /\ IsConsoleLink(Linked(p.links, host)[i])
            /\ IsConsoleLink(Linked(p.links, host)[j])
            => i = j
  BY <1>1, LinkedProperties DEF OneLink
<1>3. /\ Published(p, host).links = Linked(p.links, host)
      /\ Published(p, host).described \in {0, 1}
  BY <1>1 DEF Published
<1> QED
  BY <1>2, <1>3 DEF OneLink, Published, Publication

\* A link of somebody else's, appended, is not taken for the console's.
LEMMA OtherLinkAppended ==
    ASSUME NEW p \in Publication, OneLink(p), NEW name \in OtherLinks, NEW host \in Hosts
    PROVE  LET q == [p EXCEPT !.links = Append(@, [name |-> name, host |-> host])]
           IN  q \in Publication /\ OneLink(q)
<1> DEFINE link == [name |-> name, host |-> host]
           longer == Append(p.links, link)
<1>1. p.links \in Seq(Link) /\ Len(p.links) \in Nat /\ DOMAIN p.links = 1..Len(p.links)
  BY PublicationType
<1>2. link \in Link /\ ~IsConsoleLink(link)
  BY ResourcesAssumption DEF Link, IsConsoleLink, ResourcesAssumption
<1> HIDE DEF link
<1>3. /\ longer \in Seq(Link) /\ Len(longer) = Len(p.links) + 1
      /\ \A i \in 1..Len(p.links) : longer[i] = p.links[i]
      /\ longer[Len(p.links) + 1] = link
  BY <1>1, <1>2, AppendProperties
<1> HIDE DEF longer
<1>4. \A i \in DOMAIN longer : i \in 1..Len(p.links) \/ i = Len(p.links) + 1
  BY <1>1, <1>3
<1>5. \A i, j \in DOMAIN longer :
          IsConsoleLink(longer[i]) /\ IsConsoleLink(longer[j]) => i = j
  BY <1>1, <1>2, <1>3, <1>4 DEF OneLink
<1>6. [p EXCEPT !.links = longer] = [links |-> longer, described |-> p.described]
  BY PublicationType
<1>7. /\ [p EXCEPT !.links = longer] \in Publication
      /\ OneLink([p EXCEPT !.links = longer])
  BY <1>3, <1>5, <1>6, PublicationType DEF OneLink, Publication
<1> QED
  BY <1>7 DEF longer, link

\* At most one link is at most one in number.
LEMMA OneLinkCounted ==
    ASSUME NEW p \in Publication, OneLink(p)
    PROVE  Cardinality({i \in DOMAIN p.links : IsConsoleLink(p.links[i])}) <= 1
<1> DEFINE own == {i \in DOMAIN p.links : IsConsoleLink(p.links[i])}
<1>1. CASE own = {}
  BY <1>1, FS_EmptySet
<1>2. CASE own # {}
  <2>1. PICK k : k \in own
    BY <1>2
  <2>2. own = {k}
    BY <2>1 DEF OneLink
  <2> QED
    BY <2>2, FS_Singleton
<1> QED
  BY <1>1, <1>2

-----------------------------------------------------------------------------
(* The inductive invariant *)

Store ==
    /\ store = [r \in Resources |-> store[r]]
    /\ \A r \in Resources : store[r] \in Seq(Entry(r) \cup {Absent}) /\ store[r] # <<>>

Control ==
    /\ operator \in [version : Operators, deployment : Deployments]
    /\ operator.deployment <= operator.version
    /\ retry \in BOOLEAN
    /\ rendered \in [ConfigMaps -> Templates \cup {None}]
    /\ budget \in 0..MaxDisturbances

Requests ==
    /\ requests \in Seq({"operator", "kieapp"})
    /\ \A i, j \in 1..Len(requests) : requests[i] = requests[j] => i = j

\* What the pass has in hand where.
Pass ==
    /\ pc \in {"idle", "configMaps", "backup", "overwrite", "console", "route",
               "csv", "link", "kieapp"}
    /\ pass = [request |-> pass.request, todo |-> pass.todo, existing |-> pass.existing,
               name |-> pass.name, version |-> pass.version, content |-> pass.content,
               next |-> pass.next]
    /\ pass.request \in {"operator", "kieapp", None}
    /\ pass.todo \subseteq ConfigMaps
    /\ pass.next \in 1..Len(ConsoleOrder) + 1
    /\ pc \in {"configMaps", "backup", "overwrite"} => pass.next = 1
    /\ pc = "console" => pass.next \in 1..Len(ConsoleOrder)
    /\ pc \in {"backup", "overwrite"} => pass.name \in Backups
    /\ pc = "backup" => pass.existing \in Templates
    /\ pc = "overwrite" => pass.content \in Templates
    /\ pc = "csv" => pass.content \in Hosts \cup {NoHost}
    /\ pc = "link" => pass.content \in Publication

CSVLog == store[ServiceVersion]

\* The CSV is never without an entry, nobody owns it, no version is repeated, and
\* every entry, those on their way to the cache included, has one link at most.
CSVInOrder ==
    /\ VersionsDiffer(CSVLog)
    /\ \A i \in 1..Len(CSVLog) :
          /\ CSVLog[i] # Absent
          /\ CSVLog[i].owner = None
          /\ OneLink(CSVLog[i].content)

\* What the pass is going to publish has one link, and comes from the entry at the
\* head of the log, or from one that is gone.
KnownPublication ==
    pc = "link" =>
        /\ OneLink(pass.content)
        /\ OnlyAtHead(CSVLog, pass.version)
        /\ Cached(CSVLog).version = pass.version =>
              OthersAmong(pass.content.links) = OthersAmong(Cached(CSVLog).content.links)

IInv ==
    Store /\ Control /\ Requests /\ Pass /\ CSVInOrder /\ KnownPublication

-----------------------------------------------------------------------------
(* Resources and what they hold *)

LEMMA Kinds ==
    /\ ConfigMaps \subseteq Resources /\ Backups \subseteq Resources
    /\ ConsoleObjects \subseteq Resources
    /\ Route \in ConsoleObjects /\ Route \in Resources
    /\ ServiceVersion \in Resources
    /\ ServiceVersion \notin ConfigMaps \cup Backups \cup ConsoleObjects
    /\ Len(ConsoleOrder) \in Nat \ {0}
    /\ \A i \in 1..Len(ConsoleOrder) : ConsoleOrder[i] \in ConsoleObjects
<1>1. Len(ConsoleOrder) \in Nat \ {0} /\ ConsoleOrder[Len(ConsoleOrder)] = Route
  BY ResourcesAssumption DEF ResourcesAssumption
<1>2. Len(ConsoleOrder) \in 1..Len(ConsoleOrder)
  BY <1>1
<1>3. Route \in ConsoleObjects
  BY <1>1, <1>2 DEF ConsoleObjects
<1> QED
  BY <1>1, <1>3, ResourcesAssumption DEF ResourcesAssumption, Resources, ConsoleObjects

LEMMA ContentKinds ==
    /\ \A r \in ConfigMaps \cup Backups : Content(r) = Templates
    /\ Content(Route) = Hosts \cup {NoHost}
    /\ \A r \in ConsoleObjects : r # Route => Content(r) = {None}
    /\ Content(ServiceVersion) = Publication
<1>1. /\ Route \in ConsoleObjects
      /\ \A r \in ConsoleObjects : r \notin ConfigMaps \cup Backups /\ r # ServiceVersion
      /\ ServiceVersion \notin ConfigMaps \cup Backups
  BY Kinds, ResourcesAssumption DEF ResourcesAssumption
<1>2. \A r \in ConfigMaps \cup Backups : Content(r) = Templates
  <2> SUFFICES ASSUME NEW r \in ConfigMaps \cup Backups PROVE Content(r) = Templates
    OBVIOUS
  <2>1. r # Route /\ r # ServiceVersion
    BY <1>1
  <2> QED
    BY <2>1 DEF Content
<1>3. Content(Route) = Hosts \cup {NoHost}
  BY <1>1 DEF Content
<1>4. Content(ServiceVersion) = Publication
  BY <1>1 DEF Content
<1>5. \A r \in ConsoleObjects : r # Route => Content(r) = {None}
  BY <1>1 DEF Content
<1> QED
  BY <1>2, <1>3, <1>4, <1>5

LEMMA EntryType ==
    ASSUME Store, NEW r \in Resources
    PROVE  /\ Cached(store[r]) # Absent => Cached(store[r]) \in Entry(r)
           /\ Api(store[r]) # Absent => Api(store[r]) \in Entry(r)
<1>1. Cached(store[r]) \in Entry(r) \cup {Absent} /\ Api(store[r]) \in Entry(r) \cup {Absent}
  BY LogEnds DEF Store, Cached
<1> QED
  BY <1>1

LEMMA CSVEntry ==
    ASSUME Store, CSVInOrder
    PROVE  \A e \in {Cached(CSVLog), Api(CSVLog)} :
              /\ e \in Entry(ServiceVersion) /\ e.owner = None
              /\ e.content \in Publication /\ OneLink(e.content)
<1>1. Len(CSVLog) \in Nat \ {0} /\ Cached(CSVLog) = CSVLog[1] /\ Api(CSVLog) = CSVLog[Len(CSVLog)]
  <2>1. CSVLog \in Seq(Entry(ServiceVersion) \cup {Absent}) /\ CSVLog # <<>>
    BY Kinds DEF Store, CSVLog
  <2> HIDE DEF CSVLog
  <2> QED
    BY <2>1 DEF Cached, Api
<1>2. 1 \in 1..Len(CSVLog) /\ Len(CSVLog) \in 1..Len(CSVLog)
  BY <1>1
<1>3. \A e \in {Cached(CSVLog), Api(CSVLog)} :
          e # Absent /\ e.owner = None /\ OneLink(e.content)
  BY <1>1, <1>2 DEF CSVInOrder
<1>4. \A e \in {Cached(CSVLog), Api(CSVLog)} : e \in Entry(ServiceVersion)
  BY <1>3, Kinds, EntryType DEF CSVLog
<1>5. \A e \in Entry(ServiceVersion) : e.content \in Publication
  BY ContentKinds DEF Entry
<1> QED
  BY <1>3, <1>4, <1>5

-----------------------------------------------------------------------------
(* What a step may do to the store *)

LEMMA AppendStore ==
    ASSUME Store, NEW r \in Resources, NEW e \in Entry(r) \cup {Absent},
           store' = [store EXCEPT ![r] = Append(@, e)]
    PROVE  /\ Store' /\ store'[r] = Append(store[r], e)
           /\ \A q \in Resources \ {r} : store'[q] = store[q]
<1>1. Append(store[r], e) \in Seq(Entry(r) \cup {Absent}) /\ Append(store[r], e) # <<>>
  BY AppendProperties DEF Store
<1>2. \A q \in Resources : store'[q] = IF q = r THEN Append(store[r], e) ELSE store[q]
  BY DEF Store
<1>3. store' = [q \in Resources |-> store'[q]]
  BY DEF Store
<1> QED
  BY <1>1, <1>2, <1>3 DEF Store

LEMMA TailStore ==
    ASSUME Store, NEW r \in Resources, Len(store[r]) > 1,
           store' = [store EXCEPT ![r] = Tail(@)]
    PROVE  /\ Store' /\ store'[r] = Tail(store[r])
           /\ \A q \in Resources \ {r} : store'[q] = store[q]
<1>1. store[r] \in Seq(Entry(r) \cup {Absent})
  BY DEF Store
<1>2. Tail(store[r]) \in Seq(Entry(r) \cup {Absent}) /\ Tail(store[r]) # <<>>
  BY <1>1, LogTail
<1>3. \A q \in Resources : store'[q] = IF q = r THEN Tail(store[r]) ELSE store[q]
  BY DEF Store
<1>4. store' = [q \in Resources |-> store'[q]]
  BY DEF Store
<1> QED
  BY <1>2, <1>3, <1>4 DEF Store

LEMMA RestartStore ==
    ASSUME NEW contents, \A r \in Resources : contents[r] \in Entry(r) \cup {Absent},
           store' = [r \in Resources |-> <<contents[r]>>]
    PROVE  Store' /\ \A r \in Resources : store'[r] = <<contents[r]>>
<1>1. \A r \in Resources : /\ <<contents[r]>> \in Seq(Entry(r) \cup {Absent})
                           /\ <<contents[r]>> # <<>>
  BY LogSingle
<1> QED
  BY <1>1 DEF Store

\* A write of fitting content appends a new entry, or finds nothing to change.
LEMMA WriteStore ==
    ASSUME Store, NEW r \in Resources, NEW o \in Deployments \cup {None},
           NEW c \in Content(r), Write(r, o, c)
    PROVE  \/ store' = store /\ Api(store[r]).content = c
           \/ \E e \in Entry(r) :
                 /\ store' = [store EXCEPT ![r] = Append(@, e)]
                 /\ e.owner = o /\ e.content = c
                 /\ r \notin ConfigMaps \cup ConsoleObjects =>
                       e.version \notin VersionsIn(store[r]) /\ e.version # pass.version
<1>1. CASE UNCHANGED store /\ Api(store[r]).content = c
  BY <1>1
<1>2. CASE \E v \in NewVersions(r) :
              store' = [store EXCEPT ![r] =
                          Append(@, [version |-> v, owner |-> o, content |-> c])]
  <2>1. PICK v \in NewVersions(r) :
            store' = [store EXCEPT ![r] =
                        Append(@, [version |-> v, owner |-> o, content |-> c])]
    BY <1>2
  <2>2. /\ v \in Versions \cup {None}
        /\ r \notin ConfigMaps \cup ConsoleObjects =>
              v \notin VersionsIn(store[r]) /\ v # pass.version
    BY FreshIsUnused DEF NewVersions
  <2>3. [version |-> v, owner |-> o, content |-> c] \in Entry(r)
    BY <2>2 DEF Entry
  <2> QED
    BY <2>1, <2>2, <2>3
<1> QED
  BY <1>1, <1>2 DEF Write

\* Writes to anything but the CSV leave the CSV alone.
LEMMA WriteElsewhere ==
    ASSUME Store, NEW r \in Resources, NEW o \in Deployments \cup {None},
           NEW c \in Content(r), Write(r, o, c) \/ Create(r, o, c), r # ServiceVersion
    PROVE  Store' /\ UNCHANGED CSVLog
<1>1. CASE UNCHANGED store
  BY <1>1 DEF Store, CSVLog
<1>2. CASE Write(r, o, c)
  <2>1. \/ store' = store
        \/ \E e \in Entry(r) : store' = [store EXCEPT ![r] = Append(@, e)]
    BY <1>2, WriteStore
  <2>2. CASE \E e \in Entry(r) : store' = [store EXCEPT ![r] = Append(@, e)]
    <3>1. PICK e \in Entry(r) : store' = [store EXCEPT ![r] = Append(@, e)]
      BY <2>2
    <3> QED
      BY <3>1, AppendStore, Kinds DEF CSVLog
  <2> QED
    BY <1>1, <2>1, <2>2
<1> QED
  BY <1>1, <1>2 DEF Create

-----------------------------------------------------------------------------
(* Steps that leave the CSV alone *)

LEMMA Bystander ==
    ASSUME IInv, Store', Control', Requests', Pass', UNCHANGED CSVLog,
           pc' # "link" \/ UNCHANGED <<pc, pass>>
    PROVE  IInv'
<1>1. CSVInOrder'
  BY DEF IInv, CSVInOrder
<1>2. KnownPublication'
  BY DEF IInv, KnownPublication
<1> QED
  BY <1>1, <1>2 DEF IInv

\* A step of the pass that touches neither the queue nor the CSV.
LEMMA PassStep ==
    ASSUME IInv, Store', UNCHANGED <<operator, requests, retry, rendered, CSVLog>>,
           budget' \in 0..MaxDisturbances, Pass', pc' # "link"
    PROVE  IInv'
<1>1. Control' /\ Requests'
  BY DEF IInv, Control, Requests
<1> QED
  BY <1>1, Bystander

\* A step that leaves the pass alone.
LEMMA OutsideStep ==
    ASSUME IInv, Store', Control', Requests', UNCHANGED <<pc, pass, CSVLog>>
    PROVE  IInv'
<1>1. Pass'
  BY DEF IInv, Pass
<1> QED
  BY <1>1, Bystander

LEMMA SameStore == ASSUME IInv, UNCHANGED store PROVE Store' /\ UNCHANGED CSVLog
BY DEF IInv, Store, CSVLog

LEMMA SameBudget == ASSUME IInv, UNCHANGED budget PROVE budget' \in 0..MaxDisturbances
BY DEF IInv, Control

LEMMA DisturbType == ASSUME IInv, NEW kind, Disturb(kind)
                     PROVE  budget' \in 0..MaxDisturbances
BY ResourcesAssumption DEF IInv, Control, Disturb, ResourcesAssumption

LEMMA QueueType == ASSUME Requests, NEW request \in {"operator", "kieapp"},
                          requests' = Queue(request)
                   PROVE  Requests'
<1>1. CASE \E i \in DOMAIN requests : requests[i] = request
  BY <1>1 DEF Queue, Requests
<1>2. CASE ~\E i \in DOMAIN requests : requests[i] = request
  <2>1. requests' = Append(requests, request)
    BY <1>2 DEF Queue
  <2>2. /\ Append(requests, request) \in Seq({"operator", "kieapp"})
        /\ Len(Append(requests, request)) = Len(requests) + 1
        /\ \A i \in 1..Len(requests) : Append(requests, request)[i] = requests[i]
        /\ Append(requests, request)[Len(requests) + 1] = request
        /\ DOMAIN requests = 1..Len(requests) /\ Len(requests) \in Nat
    BY AppendProperties DEF Requests
  <2>3. \A i \in 1..Len(requests') : i \in 1..Len(requests) \/ i = Len(requests) + 1
    BY <2>1, <2>2
  <2> QED
    BY <1>2, <2>1, <2>2, <2>3 DEF Requests
<1> QED
  BY <1>1, <1>2

\* Two requests at most are queued.
LEMMA QueueIsShort == ASSUME Requests PROVE Len(requests) <= 2
<1>1. Len(requests) \in Nat
      /\ \A i \in 1..Len(requests) : requests[i] \in {"operator", "kieapp"}
  BY DEF Requests
<1>2. ASSUME Len(requests) > 2 PROVE FALSE
  <2>1. 1 \in 1..Len(requests) /\ 2 \in 1..Len(requests) /\ 3 \in 1..Len(requests)
    BY <1>1, <1>2
  <2> QED
    BY <1>1, <2>1 DEF Requests
<1> QED
  BY <1>1, <1>2

LEMMA EveryRequestType == ASSUME requests' = EveryRequest PROVE Requests'
BY DEF EveryRequest, Requests

LEMMA NoPassType == ASSUME EndPass PROVE Pass' /\ pc' # "link"
<1>1. 1 \in 1..Len(ConsoleOrder) + 1
  BY Kinds
<1>2. /\ pass' = [request |-> pass'.request, todo |-> pass'.todo, existing |-> pass'.existing,
                  name |-> pass'.name, version |-> pass'.version,
                  content |-> pass'.content, next |-> pass'.next]
      /\ pass'.request = None /\ pass'.todo = {} /\ pass'.next = 1
  BY DEF EndPass, NoPass
<1> QED
  BY <1>1, <1>2 DEF EndPass, Pass

LEMMA LeaveBackupType ==
    ASSUME Pass, pc \in {"backup", "overwrite"}, LeaveBackup, pc' = "configMaps"
    PROVE  Pass'
BY DEF Pass, LeaveBackup

-----------------------------------------------------------------------------
(* CreateConfigMaps *)

LEMMA StartPassStep == ASSUME IInv, StartPass PROVE IInv'
<1>1. requests \in Seq({"operator", "kieapp"}) /\ requests # <<>>
  BY DEF IInv, Requests, StartPass
<1>2. /\ Head(requests) \in {"operator", "kieapp"}
      /\ Tail(requests) \in Seq({"operator", "kieapp"})
      /\ Len(Tail(requests)) = Len(requests) - 1
      /\ \A i \in 1..Len(Tail(requests)) : Tail(requests)[i] = requests[i + 1]
      /\ Len(requests) \in Nat
  BY <1>1, HeadTailProperties
<1>3. \A i \in 1..Len(Tail(requests)) : i + 1 \in 1..Len(requests)
  BY <1>2
<1>4. \A i, j \in 1..Len(Tail(requests)) :
          Tail(requests)[i] = Tail(requests)[j] => i = j
  <2> SUFFICES ASSUME NEW i \in 1..Len(Tail(requests)), NEW j \in 1..Len(Tail(requests)),
                      Tail(requests)[i] = Tail(requests)[j]
               PROVE  i = j
    OBVIOUS
  <2>1. requests[i + 1] = requests[j + 1]
    BY <1>2
  <2>2. i + 1 = j + 1
    BY <1>3, <2>1 DEF IInv, Requests
  <2> QED
    BY <2>2
<1>5. Requests'
  BY <1>2, <1>4 DEF StartPass, Requests
<1>6. Pass'
  <2>1. /\ pass' = [request |-> Head(requests), todo |-> ConfigMaps, existing |-> None,
                    name |-> None, version |-> None, content |-> None, next |-> 1]
        /\ pc' = "configMaps"
    BY DEF StartPass, NoPass
  <2>2. 1 \in 1..Len(ConsoleOrder) + 1
    BY Kinds
  <2> QED
    BY <1>2, <2>1, <2>2 DEF Pass
<1>7. Control' /\ Store' /\ UNCHANGED CSVLog /\ pc' # "link"
  BY SameStore DEF StartPass, IInv, Control
<1> QED
  BY <1>5, <1>6, <1>7, Bystander

LEMMA ShippedType == ASSUME Control
                     PROVE  Shipped \in Templates /\ operator.deployment \in Deployments
                            /\ operator.version \in Operators
BY DEF Control, Shipped, Templates, Deployments

LEMMA ConfigMapStep ==
    ASSUME IInv, NEW c \in pass.todo,
           CreateConfigMap(c) \/ KeepConfigMap(c) \/ FindDifferences(c)
    PROVE  IInv'
<1>1. c \in ConfigMaps /\ c \in Resources /\ c # ServiceVersion
  BY Kinds DEF IInv, Pass
<1>2. Shipped \in Content(c) /\ operator.deployment \in Deployments
  BY <1>1, ShippedType, ContentKinds DEF IInv
<1>3. CASE CreateConfigMap(c)
  <2>1. Store' /\ UNCHANGED CSVLog
    BY <1>1, <1>2, <1>3, WriteElsewhere DEF CreateConfigMap, IInv
  <2>2. Pass' /\ pc' # "link"
    BY <1>3 DEF CreateConfigMap, Step, IInv, Pass
  <2> QED
    BY <1>3, <2>1, <2>2, SameBudget, PassStep DEF CreateConfigMap, Step
<1>4. CASE KeepConfigMap(c)
  <2>1. Pass' /\ pc' # "link"
    BY <1>4 DEF KeepConfigMap, Step, IInv, Pass
  <2> QED
    BY <1>4, <2>1, SameStore, SameBudget, PassStep DEF KeepConfigMap, Step
<1>5. CASE FindDifferences(c)
  <2>1. Cached(store[c]) \in Entry(c)
    BY <1>1, <1>5, EntryType DEF FindDifferences, IInv
  <2>2. Cached(store[c]).content \in Templates
    BY <1>1, <2>1, ContentKinds DEF Entry
  <2>3. <<c, operator.version>> \in Backups
    BY <1>1, ShippedType DEF Backups, IInv
  <2> DEFINE found == Cached(store[c]).content
             name == <<c, operator.version>>
  <2>4. /\ pass' = [pass EXCEPT !.todo = @ \ {c}, !.existing = found, !.name = name]
        /\ pc = "configMaps" /\ pc' = "backup"
    BY <1>5 DEF FindDifferences, Step
  <2> HIDE DEF found, name
  <2>5. Pass'
    BY <2>2, <2>3, <2>4 DEF IInv, Pass, found, name
  <2> QED
    BY <1>5, <2>4, <2>5, SameStore, SameBudget, PassStep DEF FindDifferences, Step
<1> QED
  BY <1>3, <1>4, <1>5

LEMMA BackupStep ==
    ASSUME IInv, CreateBackup \/ KeepBackup \/ ReadBackup \/ OverwriteBackup
    PROVE  IInv'
<1>1. CASE CreateBackup
  <2>1. /\ pc = "backup" /\ pass.name \in Backups /\ pass.name \in Resources
        /\ pass.name # ServiceVersion
        /\ pass.existing \in Content(pass.name)
    BY <1>1, Kinds, ContentKinds DEF CreateBackup, Step, IInv, Pass
  <2>2. Store' /\ UNCHANGED CSVLog
    BY <1>1, <2>1, WriteElsewhere DEF CreateBackup, IInv
  <2>3. Pass' /\ pc' # "link"
    BY <1>1, <2>1, LeaveBackupType DEF CreateBackup, Step, IInv
  <2> QED
    BY <1>1, <2>2, <2>3, SameBudget, PassStep DEF CreateBackup, Step
<1>2. CASE KeepBackup
  <2>1. Pass' /\ pc' # "link"
    BY <1>2, LeaveBackupType DEF KeepBackup, Step, IInv
  <2> QED
    BY <1>2, <2>1, SameStore, SameBudget, PassStep DEF KeepBackup, Step
<1>3. CASE ReadBackup
  <2> DEFINE v == Cached(store[pass.name]).version
  <2>1. pc = "backup" /\ pc' = "overwrite"
        /\ pass' = [pass EXCEPT !.version = v, !.content = pass.existing]
    BY <1>3 DEF ReadBackup, Step
  <2> HIDE DEF v
  <2>2. Pass'
    BY <2>1 DEF IInv, Pass
  <2> QED
    BY <1>3, <2>1, <2>2, SameStore, SameBudget, PassStep DEF ReadBackup, Step
<1>4. CASE OverwriteBackup
  <2>1. /\ pc = "overwrite" /\ pass.name \in Backups /\ pass.name \in Resources
        /\ pass.name # ServiceVersion
        /\ pass.content \in Content(pass.name)
    BY <1>4, Kinds, ContentKinds DEF OverwriteBackup, Step, IInv, Pass
  <2>2. Store' /\ UNCHANGED CSVLog
    BY <1>4, <2>1, WriteElsewhere, SameStore DEF OverwriteBackup, IInv
  <2>3. Pass' /\ pc' # "link"
    BY <1>4, <2>1, LeaveBackupType DEF OverwriteBackup, Step, IInv
  <2> QED
    BY <1>4, <2>2, <2>3, SameBudget, PassStep DEF OverwriteBackup, Step
<1> QED
  BY <1>1, <1>2, <1>3, <1>4

-----------------------------------------------------------------------------
(* The console, and the rest of the pass *)

LEMMA NextObject ==
    ASSUME IInv, pc = "console"
    PROVE  LET o == ConsoleOrder[pass.next]
           IN  /\ o \in Resources /\ o # ServiceVersion
               /\ operator.deployment \in Deployments
               /\ (IF o = Route THEN NoHost ELSE None) \in Content(o)
<1> DEFINE o == ConsoleOrder[pass.next]
<1>1. pass.next \in 1..Len(ConsoleOrder)
  BY DEF IInv, Pass
<1>2. o \in ConsoleObjects /\ o \in Resources /\ o # ServiceVersion
  BY <1>1, Kinds
<1>3. operator.deployment \in Deployments
  BY ShippedType DEF IInv
<1>4. (IF o = Route THEN NoHost ELSE None) \in Content(o)
  BY <1>2, ContentKinds
<1> QED
  BY <1>2, <1>3, <1>4

LEMMA ConsoleStep ==
    ASSUME IInv, DeployConsole \/ CreateConsoleObject \/ FindHost \/ GiveUpWaiting
    PROVE  IInv'
<1>1. CASE DeployConsole
  <2>1. Pass' /\ pc' # "link"
    BY <1>1, Kinds DEF DeployConsole, Step, IInv, Pass
  <2> QED
    BY <1>1, <2>1, SameStore, SameBudget, PassStep DEF DeployConsole, Step
<1>2. CASE CreateConsoleObject
  <2>1. Store' /\ UNCHANGED CSVLog
    BY <1>2, NextObject, WriteElsewhere DEF CreateConsoleObject, Step, IInv
  <2>2. /\ pc = "console" /\ pass' = [pass EXCEPT !.next = @ + 1]
        /\ pc' = IF pass.next = Len(ConsoleOrder) THEN "route" ELSE "console"
    BY <1>2 DEF CreateConsoleObject, Step
  <2>3. pass.next \in 1..Len(ConsoleOrder) /\ Len(ConsoleOrder) \in Nat
    BY <2>2, Kinds DEF IInv, Pass
  <2>4. /\ pass.next + 1 \in 1..Len(ConsoleOrder) + 1
        /\ pass.next # Len(ConsoleOrder) => pass.next + 1 \in 1..Len(ConsoleOrder)
    BY <2>3
  <2>5. Pass' /\ pc' # "link"
    BY <2>2, <2>4 DEF IInv, Pass
  <2> QED
    BY <1>2, <2>1, <2>5, SameBudget, PassStep DEF CreateConsoleObject, Step
<1>3. CASE FindHost
  <2>1. Cached(store[Route]) \in Entry(Route)
    BY <1>3, Kinds, EntryType DEF FindHost, HasHost, IInv
  <2> DEFINE host == Cached(store[Route]).content
  <2>2. host \in Hosts \cup {NoHost}
    BY <2>1, ContentKinds DEF Entry
  <2>3. pass' = [pass EXCEPT !.content = host] /\ pc' = "csv"
    BY <1>3 DEF FindHost, Step
  <2> HIDE DEF host
  <2>4. Pass'
    BY <2>2, <2>3 DEF IInv, Pass
  <2> QED
    BY <1>3, <2>3, <2>4, SameStore, SameBudget, PassStep DEF FindHost, Step
<1>4. CASE GiveUpWaiting
  <2>1. Pass' /\ pc' # "link"
    BY <1>4 DEF GiveUpWaiting, Step, IInv, Pass
  <2> QED
    BY <1>4, <2>1, SameStore, SameBudget, PassStep DEF GiveUpWaiting, Step
<1> QED
  BY <1>1, <1>2, <1>3, <1>4

LEMMA RestOfPassStep == ASSUME IInv, NoKieApp \/ RenderTemplates PROVE IInv'
<1>1. CASE NoKieApp
  BY <1>1, NoPassType, SameStore, SameBudget, PassStep DEF NoKieApp
<1>2. CASE RenderTemplates
  <2>1. Pass' /\ pc' # "link" /\ Store' /\ UNCHANGED CSVLog
    BY <1>2, NoPassType, SameStore DEF RenderTemplates
  <2>2. Control'
    <3>1. CASE \E c \in ConfigMaps : Cached(store[c]) = Absent
      BY <1>2, <3>1 DEF RenderTemplates, IInv, Control
    <3>2. CASE ~\E c \in ConfigMaps : Cached(store[c]) = Absent
      <4>1. \A c \in ConfigMaps : Cached(store[c]).content \in Templates
        BY <3>2, Kinds, EntryType, ContentKinds DEF IInv, Entry
      <4>2. rendered' = [c \in ConfigMaps |-> Cached(store[c]).content]
            /\ UNCHANGED <<operator, retry, budget>>
        BY <1>2, <3>2 DEF RenderTemplates
      <4>3. rendered' \in [ConfigMaps -> Templates \cup {None}]
        BY <4>1, <4>2
      <4> QED
        BY <4>2, <4>3 DEF IInv, Control
    <3> QED
      BY <3>1, <3>2
  <2>3. Requests'
    BY <1>2 DEF RenderTemplates, IInv, Requests
  <2> QED
    BY <2>1, <2>2, <2>3, Bystander
<1> QED
  BY <1>1, <1>2

-----------------------------------------------------------------------------
(* Calls that fail *)

LEMMA FailureStep ==
    ASSUME IInv, \/ DeploymentNotFound \/ BackupFails \/ ConsoleFails \/ CSVFails
                 \/ \E c \in pass.todo : ConfigMapFails(c)
    PROVE  IInv'
<1>1. CASE DeploymentNotFound
  <2>1. Pass' /\ pc' # "link"
    BY <1>1 DEF DeploymentNotFound, Fails, IInv, Pass
  <2> QED
    BY <1>1, <2>1, SameStore, DisturbType, PassStep DEF DeploymentNotFound, Fails
<1>2. CASE BackupFails
  <2>1. Pass' /\ pc' # "link"
    BY <1>2, LeaveBackupType DEF BackupFails, Fails, IInv
  <2> QED
    BY <1>2, <2>1, SameStore, DisturbType, PassStep DEF BackupFails, Fails
<1>3. CASE ConsoleFails
  <2>1. Pass' /\ pc' # "link"
    BY <1>3 DEF ConsoleFails, Fails, IInv, Pass
  <2>2. Store' /\ UNCHANGED CSVLog
    BY <1>3, NextObject, WriteElsewhere, SameStore DEF ConsoleFails, Fails, IInv
  <2> QED
    BY <1>3, <2>1, <2>2, DisturbType, PassStep DEF ConsoleFails, Fails
<1>4. CASE CSVFails
  <2>1. Pass' /\ pc' # "link"
    BY <1>4 DEF CSVFails, Fails, IInv, Pass
  <2> QED
    BY <1>4, <2>1, SameStore, DisturbType, PassStep DEF CSVFails, Fails
<1>5. CASE \E c \in pass.todo : ConfigMapFails(c)
  <2>1. PICK c \in pass.todo : ConfigMapFails(c)
    BY <1>5
  <2>2. Pass' /\ pc' # "link"
    BY <2>1 DEF ConfigMapFails, Fails, IInv, Pass
  <2> QED
    BY <2>1, <2>2, SameStore, DisturbType, PassStep DEF ConfigMapFails, Fails
<1> QED
  BY <1>1, <1>2, <1>3, <1>4, <1>5

-----------------------------------------------------------------------------
(* Users and the platform, but for the CSV *)

LEMMA OutsideWriteStep ==
    ASSUME IInv, NEW r \in Resources, r # ServiceVersion,
           NEW o \in Deployments \cup {None}, NEW c \in Content(r),
           Write(r, o, c), Elsewhere, budget' \in 0..MaxDisturbances
    PROVE  IInv'
<1>1. Store' /\ UNCHANGED CSVLog
  BY WriteElsewhere DEF IInv
<1>2. Control' /\ Requests' /\ UNCHANGED <<pc, pass>>
  BY DEF Elsewhere, IInv, Control, Requests
<1> QED
  BY <1>1, <1>2, OutsideStep

LEMMA RemoveStep ==
    ASSUME IInv, NEW r \in Resources, r # ServiceVersion, Remove(r), Elsewhere,
           budget' \in 0..MaxDisturbances
    PROVE  IInv'
<1>1. Store' /\ UNCHANGED CSVLog
  BY AppendStore, Kinds DEF Remove, IInv, CSVLog
<1>2. Control' /\ Requests' /\ UNCHANGED <<pc, pass>>
  BY DEF Elsewhere, IInv, Control, Requests
<1> QED
  BY <1>1, <1>2, OutsideStep

LEMMA EnvironmentStep ==
    ASSUME IInv, \/ RouterAssignsHost
                 \/ \E c \in ConfigMaps : UserEditsTemplates(c)
                 \/ \E r \in Resources : UserDeletes(r) \/ CollectGarbage(r)
    PROVE  IInv'
<1>1. CASE RouterAssignsHost
  <2>1. Route \in Resources /\ Route # ServiceVersion /\ Api(store[Route]) \in Entry(Route)
    BY <1>1, Kinds, EntryType DEF RouterAssignsHost, IInv
  <2>2. PICK host \in Hosts : Write(Route, Api(store[Route]).owner, host)
    BY <1>1 DEF RouterAssignsHost
  <2>3. Api(store[Route]).owner \in Deployments \cup {None} /\ host \in Content(Route)
    BY <2>1, ContentKinds DEF Entry
  <2> QED
    BY <1>1, <2>1, <2>2, <2>3, SameBudget, OutsideWriteStep DEF RouterAssignsHost
<1>2. CASE \E c \in ConfigMaps : UserEditsTemplates(c)
  <2>1. PICK c \in ConfigMaps : UserEditsTemplates(c)
    BY <1>2
  <2>2. c \in Resources /\ c # ServiceVersion /\ Api(store[c]) \in Entry(c)
    BY <2>1, Kinds, EntryType DEF UserEditsTemplates, IInv
  <2>3. PICK data \in UserData : Write(c, Api(store[c]).owner, data)
    BY <2>1 DEF UserEditsTemplates
  <2>4. Api(store[c]).owner \in Deployments \cup {None} /\ data \in Content(c)
    BY <2>2, ContentKinds DEF Entry, Templates
  <2> QED
    BY <2>1, <2>2, <2>3, <2>4, DisturbType, OutsideWriteStep DEF UserEditsTemplates
<1>3. CASE \E r \in Resources : UserDeletes(r) \/ CollectGarbage(r)
  <2>1. PICK r \in Resources : UserDeletes(r) \/ CollectGarbage(r)
    BY <1>3
  <2>2. CASE UserDeletes(r)
    BY <2>2, DisturbType, RemoveStep DEF UserDeletes
  <2>3. CASE CollectGarbage(r)
    <3>1. Api(CSVLog).owner = None
      BY CSVEntry DEF IInv
    <3>2. r # ServiceVersion
      BY <2>3, <3>1 DEF CollectGarbage, CSVLog
    <3> QED
      BY <2>3, <3>2, SameBudget, RemoveStep DEF CollectGarbage
  <2> QED
    BY <2>1, <2>2, <2>3
<1> QED
  BY <1>1, <1>2, <1>3

-----------------------------------------------------------------------------
(* Steps that read or write the CSV *)

LEMMA CSVLogType ==
    ASSUME Store
    PROVE  CSVLog \in Seq(Entry(ServiceVersion) \cup {Absent}) /\ CSVLog # <<>>
BY Kinds DEF Store, CSVLog

\* What is read from the head of the log is known.
LEMMA ReadCSVStep == ASSUME IInv, ReadCSV PROVE IInv'
<1> DEFINE found == Cached(CSVLog)
           wanted == Published(found.content, pass.content)
<1>1. /\ found \in Entry(ServiceVersion) /\ found.content \in Publication
      /\ OneLink(found.content)
  BY CSVEntry DEF IInv
<1>2. Store' /\ UNCHANGED CSVLog
  BY SameStore DEF ReadCSV
<1>3. CASE Step("csv", "kieapp") /\ pass' = [pass EXCEPT !.content = None]
  <2>1. Pass' /\ pc' # "link"
    BY <1>3 DEF Step, IInv, Pass
  <2> QED
    BY <1>2, <1>3, <2>1, SameBudget, PassStep DEF Step
<1>4. CASE /\ Step("csv", "link")
           /\ pass' = [pass EXCEPT !.version = found.version, !.content = wanted]
  <2>1. pass.content \in Hosts \cup {NoHost}
    BY <1>4 DEF Step, IInv, Pass
  <2>2. /\ wanted \in Publication /\ OneLink(wanted)
        /\ OthersAmong(wanted.links) = OthersAmong(found.content.links)
    BY <1>1, <2>1, PublishedProperties
  <2>3. CSVLog \in Seq(Entry(ServiceVersion) \cup {Absent}) /\ CSVLog # <<>>
    BY CSVLogType DEF IInv
  <2>4. found # Absent
    BY <1>1, Kinds, SentinelsAssumption DEF SentinelsAssumption
  <2>5. OnlyAtHead(CSVLog, found.version)
    BY <2>3, <2>4, HeadOnlyAtHead DEF IInv, CSVInOrder, Cached
  <2> HIDE DEF wanted, found
  <2>6. Pass' /\ pass'.version = found.version /\ pass'.content = wanted
    BY <1>4, <2>2 DEF Step, IInv, Pass
  <2>7. KnownPublication'
    BY <1>2, <2>2, <2>5, <2>6 DEF KnownPublication, found
  <2>8. Control' /\ Requests' /\ CSVInOrder'
    BY <1>2, <1>4 DEF Step, IInv, Control, Requests, CSVInOrder
  <2> QED
    BY <1>2, <2>6, <2>7, <2>8 DEF IInv
<1> QED
  BY <1>3, <1>4 DEF ReadCSV, CSVLog

\* A new publication with one link at most keeps the log in order.
LEMMA CSVAppended ==
    ASSUME IInv, NEW e \in Entry(ServiceVersion),
           store' = [store EXCEPT ![ServiceVersion] = Append(@, e)],
           e.owner = None, OneLink(e.content), e.version \notin VersionsIn(CSVLog)
    PROVE  /\ Store' /\ CSVInOrder' /\ Api(CSVLog') = e
           /\ CSVLog' = Append(CSVLog, e)
<1>1. Store' /\ CSVLog' = Append(CSVLog, e)
  BY AppendStore, Kinds DEF IInv, CSVLog
<1>2. CSVLog \in Seq(Entry(ServiceVersion) \cup {Absent}) /\ CSVLog # <<>>
  BY CSVLogType DEF IInv
<1>3. e # Absent
  BY Kinds, SentinelsAssumption DEF SentinelsAssumption
<1>4. VersionsDiffer(CSVLog') /\ Api(CSVLog') = e
  BY <1>1, <1>2, LogAppend DEF IInv, CSVInOrder
<1>5. /\ Len(CSVLog') = Len(CSVLog) + 1 /\ Len(CSVLog) \in Nat
      /\ \A i \in 1..Len(CSVLog) : CSVLog'[i] = CSVLog[i]
      /\ CSVLog'[Len(CSVLog) + 1] = e
  BY <1>1, <1>2, AppendProperties
<1>6. \A i \in 1..Len(CSVLog') : i \in 1..Len(CSVLog) \/ i = Len(CSVLog) + 1
  BY <1>5
<1>7. \A i \in 1..Len(CSVLog') :
          /\ CSVLog'[i] # Absent /\ CSVLog'[i].owner = None
          /\ OneLink(CSVLog'[i].content)
  BY <1>3, <1>5, <1>6 DEF IInv, CSVInOrder
<1> QED
  BY <1>1, <1>4, <1>7 DEF CSVInOrder

\* An update that is accepted was made from what is published.
LEMMA UpdateCSVStep ==
    ASSUME IInv, UpdateCSV PROVE IInv' /\ OthersLinks' = OthersLinks
<1>1. /\ pc = "link" /\ pc' = "kieapp" /\ UNCHANGED <<operator, requests, retry, rendered, budget>>
      /\ pass' = [pass EXCEPT !.version = None, !.content = None]
  BY DEF UpdateCSV, Step
<1>2. Pass' /\ Control' /\ Requests' /\ KnownPublication'
  BY <1>1 DEF IInv, Pass, Control, Requests, KnownPublication
<1>3. OthersLinks = OthersAmong(Api(CSVLog).content.links)
  BY DEF OthersLinks, CSV, CSVLog
<1>4. OthersLinks' = OthersAmong(Api(CSVLog').content.links)
  BY DEF OthersLinks, CSV, CSVLog, OthersAmong, Api
<1>5. CASE UNCHANGED store
  <2>1. Store' /\ UNCHANGED CSVLog
    BY <1>5, SameStore
  <2>2. CSVInOrder'
    BY <2>1 DEF IInv, CSVInOrder
  <2> QED
    BY <1>2, <1>3, <1>4, <2>1, <2>2 DEF IInv
<1>6. CASE Accepts(ServiceVersion) /\ Write(ServiceVersion, None, pass.content)
  <2>1. /\ pass.content \in Content(ServiceVersion) /\ OneLink(pass.content)
        /\ OnlyAtHead(CSVLog, pass.version)
        /\ Cached(CSVLog).version = pass.version =>
              OthersAmong(pass.content.links) = OthersAmong(Cached(CSVLog).content.links)
    BY <1>1, ContentKinds DEF IInv, Pass, KnownPublication
  <2>2. CSVLog \in Seq(Entry(ServiceVersion) \cup {Absent}) /\ CSVLog # <<>>
    BY CSVLogType DEF IInv
  <2>3. Api(CSVLog) # Absent /\ Api(CSVLog).version = pass.version
    BY <1>6 DEF Accepts, CSVLog
  <2>4. Cached(CSVLog) = Api(CSVLog)
    BY <2>1, <2>2, <2>3, CurrentIsDelivered DEF Cached
  <2>5. OthersAmong(pass.content.links) = OthersLinks
    BY <1>3, <2>1, <2>3, <2>4
  <2>6. ServiceVersion \in Resources /\ ServiceVersion \notin ConfigMaps \cup ConsoleObjects
        /\ None \in Deployments \cup {None}
    BY Kinds
  <2>7. CASE \E e \in Entry(ServiceVersion) :
               /\ store' = [store EXCEPT ![ServiceVersion] = Append(@, e)]
               /\ e.owner = None /\ e.content = pass.content
               /\ e.version \notin VersionsIn(CSVLog)
    <3>1. PICK e \in Entry(ServiceVersion) :
             /\ store' = [store EXCEPT ![ServiceVersion] = Append(@, e)]
             /\ e.owner = None /\ e.content = pass.content
             /\ e.version \notin VersionsIn(CSVLog)
      BY <2>7
    <3>2. Store' /\ CSVInOrder' /\ Api(CSVLog') = e
      BY <2>1, <3>1, CSVAppended
    <3> QED
      BY <1>2, <1>4, <2>5, <3>1, <3>2 DEF IInv
  <2> QED
    BY <1>5, <1>6, <2>1, <2>6, <2>7, WriteStore DEF IInv, CSVLog
<1> QED
  BY <1>5, <1>6 DEF UpdateCSV

\* Others publish: what the pass has in hand is stale then, and will be refused.
LEMMA RepublishStep == ASSUME IInv, Republish PROVE IInv'
<1> DEFINE old == Api(CSVLog)
<1>1. old.content \in Publication /\ OneLink(old.content)
  BY CSVEntry DEF IInv
<1>2. PICK p \in Publication : OneLink(p) /\ Write(ServiceVersion, None, p)
  <2>1. CASE Write(ServiceVersion, None, [links |-> <<>>, described |-> 0])
    <3>1. <<>> \in Seq(Link)
      BY EmptySeq
    <3>2. /\ [links |-> <<>>, described |-> 0] \in Publication
          /\ OneLink([links |-> <<>>, described |-> 0])
      BY <3>1 DEF Publication, OneLink
    <3> QED
      BY <2>1, <3>2
  <2>2. CASE \E name \in OtherLinks, host \in Hosts :
                Write(ServiceVersion, None,
                      [old.content EXCEPT !.links =
                          Append(@, [name |-> name, host |-> host])])
    <3>1. PICK name \in OtherLinks, host \in Hosts :
                Write(ServiceVersion, None,
                      [old.content EXCEPT !.links =
                          Append(@, [name |-> name, host |-> host])])
      BY <2>2
    <3> DEFINE q == [old.content EXCEPT !.links =
                        Append(@, [name |-> name, host |-> host])]
    <3>2. q \in Publication /\ OneLink(q)
      BY <1>1, OtherLinkAppended
    <3> HIDE DEF q
    <3>3. Write(ServiceVersion, None, q)
      BY <3>1 DEF q
    <3> QED
      BY <3>2, <3>3
  <2> QED
    BY <2>1, <2>2 DEF Republish, CSVLog
<1>3. budget' \in 0..MaxDisturbances /\ Elsewhere
  BY DisturbType DEF Republish
<1>4. Control' /\ Requests' /\ UNCHANGED <<pc, pass>> /\ Pass'
  BY <1>3 DEF Elsewhere, IInv, Control, Requests, Pass
<1>5. CASE UNCHANGED store
  BY <1>4, <1>5, SameStore, OutsideStep
<1>6. CASE \E e \in Entry(ServiceVersion) :
             /\ store' = [store EXCEPT ![ServiceVersion] = Append(@, e)]
             /\ e.owner = None /\ e.content = p
             /\ e.version \notin VersionsIn(CSVLog) /\ e.version # pass.version
  <2>1. PICK e \in Entry(ServiceVersion) :
             /\ store' = [store EXCEPT ![ServiceVersion] = Append(@, e)]
             /\ e.owner = None /\ e.content = p
             /\ e.version \notin VersionsIn(CSVLog) /\ e.version # pass.version
    BY <1>6
  <2>2. Store' /\ CSVInOrder' /\ CSVLog' = Append(CSVLog, e)
    BY <1>2, <2>1, CSVAppended
  <2>3. CSVLog \in Seq(Entry(ServiceVersion) \cup {Absent}) /\ CSVLog # <<>>
    BY CSVLogType DEF IInv
  <2>4. Cached(Append(CSVLog, e)) = Cached(CSVLog)
    <3> HIDE DEF CSVLog
    <3> QED
      BY <2>3 DEF Cached
  <2>5. OnlyAtHead(CSVLog, pass.version) => OnlyAtHead(Append(CSVLog, e), pass.version)
    BY <2>1, <2>3, AppendKeepsHead
  <2>6. KnownPublication'
    BY <1>4, <2>2, <2>4, <2>5 DEF IInv, KnownPublication
  <2> QED
    BY <1>4, <2>2, <2>6 DEF IInv
<1>7. ServiceVersion \in Resources /\ p \in Content(ServiceVersion)
      /\ ServiceVersion \notin ConfigMaps \cup ConsoleObjects
  BY Kinds, ContentKinds
<1> QED
  BY <1>2, <1>5, <1>6, <1>7, WriteStore DEF IInv, CSVLog

\* An event of the CSV: its cache moves past what the pass has in hand.
LEMMA DeliverStep == ASSUME IInv, NEW r \in Resources, Deliver(r) PROVE IInv'
<1>1. Store' /\ store'[r] = Tail(store[r]) /\ \A q \in Resources \ {r} : store'[q] = store[q]
  BY TailStore DEF Deliver, IInv
<1>2. Control' /\ UNCHANGED <<pc, pass>> /\ Pass'
  BY DEF Deliver, IInv, Control, Pass
<1>3. Requests'
  <2>1. CASE requests' = Queue("operator")
    BY <2>1, QueueType DEF IInv
  <2>2. CASE requests' = requests
    BY <2>2 DEF IInv, Requests
  <2> QED
    BY <2>1, <2>2 DEF Deliver
<1>4. CASE r # ServiceVersion
  <2>1. UNCHANGED CSVLog
    BY <1>1, <1>4, Kinds DEF CSVLog
  <2> QED
    BY <1>1, <1>2, <1>3, <2>1, OutsideStep
<1>5. CASE r = ServiceVersion
  <2>1. CSVLog' = Tail(CSVLog) /\ Len(CSVLog) > 1
    BY <1>1, <1>5 DEF CSVLog, Deliver
  <2>2. CSVLog \in Seq(Entry(ServiceVersion) \cup {Absent})
    BY CSVLogType DEF IInv
  <2> DEFINE log == CSVLog
             rest == Tail(CSVLog)
  <2>3. /\ VersionsDiffer(log) => VersionsDiffer(rest)
        /\ rest \in Seq(Entry(ServiceVersion) \cup {Absent}) /\ rest # <<>>
        /\ \A v : OnlyAtHead(log, v) => OnlyAtHead(rest, v)
        /\ \A v : OnlyAtHead(log, v) /\ Head(rest) # Absent => Head(rest).version # v
    BY <2>1, <2>2, LogTail
  <2>4. /\ Len(rest) = Len(log) - 1 /\ Len(log) \in Nat
        /\ \A i \in 1..Len(rest) : rest[i] = log[i + 1]
    <3> HIDE DEF CSVLog
    <3> QED
      BY <2>1, <2>2, HeadTailProperties
  <2> HIDE DEF log, rest
  <2>5. \A i \in 1..Len(rest) :
            rest[i] # Absent /\ rest[i].owner = None /\ OneLink(rest[i].content)
    <3> SUFFICES ASSUME NEW i \in 1..Len(rest)
                 PROVE  rest[i] # Absent /\ rest[i].owner = None /\ OneLink(rest[i].content)
      OBVIOUS
    <3>1. i + 1 \in 1..Len(log) /\ rest[i] = log[i + 1]
      BY <2>4
    <3> QED
      BY <3>1 DEF IInv, CSVInOrder, log
  <2>6. CSVInOrder'
    BY <2>1, <2>3, <2>5 DEF IInv, CSVInOrder, log, rest
  <2>7. Head(rest) # Absent
    <3>1. Head(rest) = rest[1] /\ 1 \in 1..Len(rest)
      BY <2>1, <2>3, <2>4 DEF log
    <3> QED
      BY <2>5, <3>1
  <2>8. KnownPublication'
    BY <1>2, <2>1, <2>3, <2>7 DEF IInv, KnownPublication, Cached, log, rest
  <2> QED
    BY <1>1, <1>2, <1>3, <2>6, <2>8 DEF IInv
<1> QED
  BY <1>4, <1>5

\* A started process knows what is published, and has nothing in hand.
LEMMA RestartStep ==
    ASSUME IInv, NEW contents, \A r \in Resources : contents[r] \in Entry(r) \cup {Absent},
           contents[ServiceVersion] # Absent, contents[ServiceVersion].owner = None,
           OneLink(contents[ServiceVersion].content),
           Restart(contents), Control'
    PROVE  IInv'
<1> DEFINE csv == contents[ServiceVersion]
<1>1. Store' /\ CSVLog' = <<csv>>
  BY RestartStore, Kinds DEF Restart, CSVLog
<1>2. Requests' /\ Pass' /\ pc' # "link"
  BY EveryRequestType, NoPassType DEF Restart
<1>3. VersionsDiffer(<<csv>>) /\ Len(<<csv>>) = 1 /\ <<csv>>[1] = csv
  BY DEF VersionsDiffer
<1>4. CSVInOrder'
  <2> HIDE DEF csv
  <2>1. \A i \in 1..Len(CSVLog') : CSVLog'[i] = csv
    BY <1>1, <1>3
  <2> QED
    BY <1>1, <1>3, <2>1 DEF CSVInOrder, csv
<1> QED
  BY <1>1, <1>2, <1>4 DEF IInv, KnownPublication

LEMMA ApiContentsType ==
    ASSUME IInv
    PROVE  /\ \A r \in Resources : ApiContents[r] \in Entry(r) \cup {Absent}
           /\ ApiContents[ServiceVersion] # Absent
           /\ ApiContents[ServiceVersion].owner = None
           /\ OneLink(ApiContents[ServiceVersion].content)
<1>1. \A r \in Resources : ApiContents[r] = Api(store[r])
  BY DEF ApiContents
<1>2. \A r \in Resources : Api(store[r]) \in Entry(r) \cup {Absent}
  BY EntryType DEF IInv
<1>3. /\ Api(CSVLog) \in Entry(ServiceVersion) /\ Api(CSVLog).owner = None
      /\ OneLink(Api(CSVLog).content)
  BY CSVEntry DEF IInv
<1>4. Api(CSVLog) # Absent
  BY <1>3, Kinds, SentinelsAssumption DEF SentinelsAssumption
<1> QED
  BY <1>1, <1>2, <1>3, <1>4, Kinds DEF CSVLog

LEMMA FirstPublicationsType ==
    ASSUME NEW csv \in FirstPublications
    PROVE  /\ csv \in Entry(ServiceVersion) /\ csv # Absent
           /\ csv.owner = None /\ OneLink(csv.content)
<1>1. <<>> \in Seq(Link)
  BY EmptySeq
<1> DEFINE p == [links |-> <<>>, described |-> 0]
<1>2. p \in Publication /\ OneLink(p)
  BY <1>1 DEF Publication, OneLink
<1>3. PICK v \in FreshVersions({}) : csv = [version |-> v, owner |-> None, content |-> p]
  BY DEF FirstPublications
<1> HIDE DEF p
<1>4. v \in Versions
  BY FreshIsUnused
<1>5. csv \in Entry(ServiceVersion) /\ csv.owner = None /\ csv.content = p
  BY <1>2, <1>3, <1>4, ContentKinds DEF Entry
<1> QED
  BY <1>2, <1>5, Kinds, SentinelsAssumption DEF SentinelsAssumption

LEMMA CrashStep == ASSUME IInv, Crash PROVE IInv'
<1>1. Control'
  BY DisturbType DEF Crash, Restart, IInv, Control
<1> QED
  BY <1>1, ApiContentsType, RestartStep DEF Crash

LEMMA UpgradeStep == ASSUME IInv, Upgrade PROVE IInv'
<1>1. budget' \in 0..MaxDisturbances /\ UNCHANGED rendered /\ operator.version < MaxOperator
  BY DisturbType DEF Upgrade
<1>2. /\ operator.version \in 1..MaxOperator /\ operator.deployment \in 1..MaxOperator
      /\ operator.deployment <= operator.version
  BY DEF IInv, Control, Operators, Deployments
<1>3. /\ operator.version + 1 \in Operators /\ operator.deployment + 1 \in Deployments
      /\ operator.deployment <= operator.version + 1
      /\ operator.deployment + 1 <= operator.version + 1
  BY <1>1, <1>2, ResourcesAssumption DEF ResourcesAssumption, Operators, Deployments
<1>4. CASE /\ operator' = [operator EXCEPT !.version = @ + 1]
           /\ Restart(ApiContents)
  <2>1. Control'
    BY <1>1, <1>3, <1>4 DEF Restart, IInv, Control
  <2> QED
    BY <1>4, <2>1, ApiContentsType, RestartStep
<1>5. CASE /\ operator' = [version |-> operator.version + 1,
                           deployment |-> operator.deployment + 1]
           /\ \E csv \in FirstPublications :
                 Restart([ApiContents EXCEPT ![ServiceVersion] = csv])
  <2>1. PICK csv \in FirstPublications :
                 Restart([ApiContents EXCEPT ![ServiceVersion] = csv])
    BY <1>5
  <2> DEFINE contents == [ApiContents EXCEPT ![ServiceVersion] = csv]
  <2>2. \A r \in Resources :
            contents[r] = IF r = ServiceVersion THEN csv ELSE ApiContents[r]
    BY DEF ApiContents
  <2>3. /\ \A r \in Resources : contents[r] \in Entry(r) \cup {Absent}
        /\ contents[ServiceVersion] = csv
    BY <2>2, ApiContentsType, FirstPublicationsType, Kinds
  <2> HIDE DEF contents
  <2>4. Restart(contents)
    BY <2>1 DEF contents
  <2>5. Control'
    BY <1>1, <1>3, <1>5, <2>1 DEF Restart, IInv, Control
  <2> QED
    BY <2>3, <2>4, <2>5, FirstPublicationsType, RestartStep
<1> QED
  BY <1>4, <1>5 DEF Upgrade

-----------------------------------------------------------------------------
(* Invariance *)

LEMMA InitInvariant == Init => IInv
<1> SUFFICES ASSUME Init PROVE IInv
  OBVIOUS
<1> DEFINE data == CHOOSE d \in UserData : TRUE
<1>1. data \in UserData
  BY ResourcesAssumption DEF ResourcesAssumption
<1>2. 1 \in Operators
  BY ResourcesAssumption DEF ResourcesAssumption, Operators
<1>3. PICK old \in {Absent, [version |-> None, owner |-> 1, content |-> data]},
           csv \in FirstPublications :
        store = [r \in Resources |->
                   IF r \in ConfigMaps THEN <<old>>
                   ELSE IF r = ServiceVersion THEN <<csv>> ELSE <<Absent>>]
  BY DEF Init
<1> HIDE DEF data
<1> DEFINE contents == [r \in Resources |->
                          IF r \in ConfigMaps THEN old
                          ELSE IF r = ServiceVersion THEN csv ELSE Absent]
<1>4. \A r \in ConfigMaps : old \in Entry(r) \cup {Absent}
  BY <1>1, <1>2, ContentKinds DEF Entry, Templates, Deployments
<1>5. \A r \in Resources : contents[r] \in Entry(r) \cup {Absent}
  BY <1>4, FirstPublicationsType
<1>6. contents[ServiceVersion] = csv
  BY Kinds
<1>7. \A r \in Resources : store[r] = <<contents[r]>>
  BY <1>3
<1>8. store = [r \in Resources |-> store[r]]
  BY <1>3
<1> HIDE DEF contents
<1>9. Store
  <2>1. \A r \in Resources : /\ <<contents[r]>> \in Seq(Entry(r) \cup {Absent})
                             /\ <<contents[r]>> # <<>>
    BY <1>5, LogSingle
  <2> QED
    BY <1>7, <1>8, <2>1 DEF Store
<1>10. CSVInOrder
  <2>1. CSVLog = <<csv>>
    BY <1>6, <1>7, Kinds DEF CSVLog
  <2>2. VersionsDiffer(<<csv>>) /\ Len(<<csv>>) = 1 /\ <<csv>>[1] = csv
    BY DEF VersionsDiffer
  <2>3. \A i \in 1..Len(CSVLog) : CSVLog[i] = csv
    BY <2>1, <2>2
  <2> QED
    BY <2>1, <2>2, <2>3, FirstPublicationsType DEF CSVInOrder
<1>11. Control
  <2>1. operator \in [version : Operators, deployment : Deployments]
        /\ operator.deployment <= operator.version
    BY <1>2 DEF Init, Deployments
  <2>2. rendered \in [ConfigMaps -> Templates \cup {None}] /\ retry \in BOOLEAN
    BY DEF Init
  <2>3. budget \in 0..MaxDisturbances
    BY ResourcesAssumption DEF Init, ResourcesAssumption
  <2> QED
    BY <2>1, <2>2, <2>3 DEF Control
<1>12. Requests
  BY DEF Init, EveryRequest, Requests
<1>13. Pass
  <2>1. 1 \in 1..Len(ConsoleOrder) + 1
    BY Kinds
  <2> QED
    BY <2>1 DEF Init, NoPass, Pass
<1>14. KnownPublication
  BY DEF Init, KnownPublication
<1> QED
  BY <1>9, <1>10, <1>11, <1>12, <1>13, <1>14 DEF IInv

LEMMA RuntimeStep == ASSUME IInv, RetryExpires \/ Resync PROVE IInv'
<1>1. Requests'
  BY QueueType, EveryRequestType DEF IInv, RetryExpires, Resync
<1>2. Control' /\ Store' /\ UNCHANGED <<pc, pass, CSVLog>>
  BY SameStore DEF RetryExpires, Resync, IInv, Control
<1> QED
  BY <1>1, <1>2, OutsideStep

\* The invariant is inductive, and only two steps lead from the link to the KieApp:
\* the update, and its failure.
LEMMA NextInvariant ==
    ASSUME IInv, [Next]_vars
    PROVE  IInv' /\ (pc = "link" /\ pc' = "kieapp" => OthersLinks' = OthersLinks)
<1>1. CASE UpdateCSV
  BY <1>1, UpdateCSVStep
<1>2. CASE CSVFails
  <2>1. UNCHANGED store
    BY <1>2 DEF CSVFails
  <2>2. OthersLinks' = OthersLinks
    BY <2>1 DEF OthersLinks, OthersAmong, CSV, Api
  <2> QED
    BY <1>2, <2>2, FailureStep
<1>3. CASE ReadCSV
  BY <1>3, ReadCSVStep DEF ReadCSV, Step
<1>4. CASE StartPass
  BY <1>4, StartPassStep DEF StartPass
<1>5. CASE \E c \in pass.todo : CreateConfigMap(c) \/ KeepConfigMap(c) \/ FindDifferences(c)
  BY <1>5, ConfigMapStep
     DEF CreateConfigMap, KeepConfigMap, FindDifferences, Step
<1>6. CASE CreateBackup \/ KeepBackup \/ ReadBackup \/ OverwriteBackup
  BY <1>6, BackupStep DEF CreateBackup, KeepBackup, ReadBackup, OverwriteBackup, Step
<1>7. CASE DeployConsole \/ CreateConsoleObject \/ FindHost \/ GiveUpWaiting
  BY <1>7, ConsoleStep DEF DeployConsole, CreateConsoleObject, FindHost, GiveUpWaiting, Step
<1>8. CASE NoKieApp \/ RenderTemplates
  BY <1>8, RestOfPassStep DEF NoKieApp, RenderTemplates
<1>9. CASE DeploymentNotFound \/ BackupFails \/ ConsoleFails
  BY <1>9, FailureStep DEF DeploymentNotFound, BackupFails, ConsoleFails, Fails
<1>10. CASE \E c \in pass.todo : ConfigMapFails(c)
  BY <1>10, FailureStep DEF ConfigMapFails, Fails
<1>11. CASE Crash \/ Upgrade
  BY <1>11, CrashStep, UpgradeStep DEF Crash, Upgrade, Restart, EndPass
<1>12. CASE RetryExpires \/ Resync
  BY <1>12, RuntimeStep DEF RetryExpires, Resync
<1>13. CASE \E r \in Resources : Deliver(r)
  BY <1>13, DeliverStep DEF Deliver
<1>14. CASE RouterAssignsHost
  BY <1>14, EnvironmentStep DEF RouterAssignsHost, Elsewhere
<1>15. CASE Republish
  BY <1>15, RepublishStep DEF Republish, Elsewhere
<1>16. CASE \E c \in ConfigMaps : UserEditsTemplates(c)
  BY <1>16, EnvironmentStep DEF UserEditsTemplates, Elsewhere
<1>17. CASE \E r \in Resources : UserDeletes(r) \/ CollectGarbage(r)
  BY <1>17, EnvironmentStep DEF UserDeletes, CollectGarbage, Elsewhere
<1>18. CASE UNCHANGED vars
  <2>1. Store' /\ Control' /\ Requests' /\ UNCHANGED <<pc, pass, CSVLog>>
    BY <1>18 DEF vars, IInv, Store, Control, Requests, CSVLog
  <2> QED
    BY <2>1, OutsideStep
<1> QED
  BY <1>1, <1>2, <1>3, <1>4, <1>5, <1>6, <1>7, <1>8, <1>9, <1>10, <1>11, <1>12, <1>13,
     <1>14, <1>15, <1>16, <1>17, <1>18
     DEF Next, Operator, Failure, Runtime, Environment

LEMMA InvariantTyped == IInv => TypeOK
<1> SUFFICES ASSUME IInv PROVE TypeOK
  OBVIOUS
<1>1. Len(requests) <= 2
  BY QueueIsShort DEF IInv
<1>2. pc \in {"overwrite", "link"} =>
          pass.content \in Content(IF pc = "link" THEN ServiceVersion ELSE pass.name)
  BY ContentKinds DEF IInv, Pass
<1> QED
  BY <1>1, <1>2 DEF IInv, Store, Control, Requests, Pass, TypeOK

LEMMA InvariantIsInvariant == Spec => []IInv
<1>1. IInv /\ [Next]_vars => IInv'
  BY NextInvariant
<1> QED
  BY <1>1, InitInvariant, PTL DEF Spec

\* Every variable keeps its type: in particular a request is queued at most once,
\* and a pass never leaves the list of the console's objects.
THEOREM TypeCorrect == Spec => []TypeOK
BY InvariantIsInvariant, InvariantTyped, PTL

\* However passes, failures, crashes, upgrades and others' publications of the CSV
\* follow each other, and however stale the cache is that updateCSVlinks reads, the
\* CSV never has a second link to the console or a second mention of it.
THEOREM OneLinkToTheConsole == Spec => []OneConsoleLink
<1>1. IInv => OneConsoleLink
  <2> SUFFICES ASSUME IInv PROVE OneConsoleLink
    OBVIOUS
  <2>1. CSV \in Publication /\ OneLink(CSV)
    BY CSVEntry DEF IInv, CSV, CSVLog
  <2>2. Cardinality({i \in DOMAIN CSV.links : IsConsoleLink(CSV.links[i])}) <= 1
    BY <2>1, OneLinkCounted
  <2>3. CSV.described <= 1
    BY <2>1 DEF OneLink
  <2> QED
    BY <2>2, <2>3 DEF OneConsoleLink
<1> QED
  BY <1>1, InvariantIsInvariant, PTL

\* The update of the CSV, made from a cached copy and written back whole, neither
\* loses nor moves a link that somebody else has published.
THEOREM OthersLinksAreKept == Spec => OthersLinksKept
<1>1. IInv /\ [Next]_vars => [pc = "link" /\ pc' = "kieapp" => OthersLinks' = OthersLinks]_vars
  BY NextInvariant
<1> QED
  BY <1>1, InvariantIsInvariant, PTL DEF Spec, OthersLinksKept
=============================================================================
