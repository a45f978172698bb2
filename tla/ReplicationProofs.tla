-------------------------- MODULE ReplicationProofs --------------------------
(***************************************************************************)
(* Proofs about Replication, for all workers, keys, puts and hash          *)
(* functions, every number of buckets and every size of a connection: its  *)
(* types, that nothing a worker undertook to send is skipped unless two of *)
(* its threads mixed their messages, that the end of an export is read     *)
(* after its data, and that data from a peer replaces a STORE at most.     *)
(*                                                                         *)
(* None of them is inductive alone.  The module states, part by part, what *)
(* they rest on, and what a step does to each part; Framed says which      *)
(* actions change which variable, so that a part is looked at in the       *)
(* actions that touch it only.  Each part has a lemma                      *)
(*    parts it needs /\ part /\ Framed => part'                            *)
(* and ReplicationInvariant, at the end, is the conjunction.               *)
(***************************************************************************)
EXTENDS Replication, SequenceTheorems, TLAPS

-----------------------------------------------------------------------------
(* Sequences.                                                              *)

\* What a sequence carries, and that its length is a number.
LEMMA Carried ==
    ASSUME NEW S, NEW s \in Seq(S)
    PROVE  /\ Len(s) \in Nat
           /\ DOMAIN s = 1 .. Len(s)
           /\ \A i \in 1 .. Len(s) : s[i] \in S
           /\ \A x : x \in Range(s) <=> \E i \in 1 .. Len(s) : s[i] = x
BY LenProperties, ElementOfSeq DEF Range

\* The same, with a name for the length.
LEMMA CarriedTo ==
    ASSUME NEW S, NEW s \in Seq(S), NEW n, Len(s) = n
    PROVE  \A x : x \in Range(s) <=> \E i \in 1 .. n : s[i] = x
BY Carried

\* A function on 1 .. n is a sequence.
LEMMA FunctionsAreSequences ==
    ASSUME NEW n \in Nat, NEW S, NEW f \in [1 .. n -> S]
    PROVE  f \in Seq(S) /\ Len(f) = n
BY SMT

\* Appending adds one element at the end.
LEMMA Appended ==
    ASSUME NEW S, NEW s \in Seq(S), NEW x \in S
    PROVE  /\ Append(s, x) \in Seq(S)
           /\ Len(Append(s, x)) = Len(s) + 1
           /\ \A i \in 1 .. Len(s) : Append(s, x)[i] = s[i]
           /\ Append(s, x)[Len(s) + 1] = x
           /\ Range(Append(s, x)) = Range(s) \cup {x}
<1> DEFINE t == Append(s, x)
<1>1. /\ t \in Seq(S) /\ Len(t) = Len(s) + 1
      /\ \A i \in 1 .. Len(s) : t[i] = s[i]
      /\ t[Len(s) + 1] = x
    BY AppendProperties
<1>2. /\ Len(s) \in Nat
      /\ \A y : y \in Range(s) <=> \E i \in 1 .. Len(s) : s[i] = y
    BY Carried
<1> HIDE DEF t
<1>3. \A y : y \in Range(t) <=> \E i \in 1 .. Len(s) + 1 : t[i] = y
    BY <1>1, CarriedTo
<1>4. Range(t) = Range(s) \cup {x}
    BY <1>1, <1>2, <1>3
<1> QED BY <1>1, <1>4 DEF t

\* A sequence is its head and its tail.
LEMMA Taken ==
    ASSUME NEW S, NEW s \in Seq(S), s # << >>
    PROVE  /\ Head(s) = s[1] /\ Head(s) \in S
           /\ Len(s) \in Nat \ {0}
           /\ Tail(s) \in Seq(S)
           /\ Len(Tail(s)) = Len(s) - 1
           /\ \A i \in 1 .. Len(s) - 1 : Tail(s)[i] = s[i + 1]
           /\ Range(s) = Range(Tail(s)) \cup {Head(s)}
<1> DEFINE t == Tail(s)
<1>1. /\ Head(s) = s[1] /\ Head(s) \in S
      /\ t \in Seq(S) /\ Len(t) = Len(s) - 1
      /\ \A i \in 1 .. Len(s) - 1 : t[i] = s[i + 1]
    BY HeadTailProperties
<1>2. Len(s) \in Nat \ {0}
    BY EmptySeq
<1> HIDE DEF t
<1>3. /\ \A y : y \in Range(s) <=> \E i \in 1 .. Len(s) : s[i] = y
      /\ \A y : y \in Range(t) <=> \E i \in 1 .. Len(s) - 1 : t[i] = y
    BY <1>1, CarriedTo
<1>4. \A i \in 1 .. Len(s) : i = 1 \/ \E j \in 1 .. Len(s) - 1 : j + 1 = i
    <2> SUFFICES ASSUME NEW i \in 1 .. Len(s), i # 1
                 PROVE  \E j \in 1 .. Len(s) - 1 : j + 1 = i
        OBVIOUS
    <2>1. i - 1 \in 1 .. Len(s) - 1 /\ (i - 1) + 1 = i
        BY <1>2
    <2> QED BY <2>1
<1>5. \A j \in 1 .. Len(s) - 1 : j + 1 \in 1 .. Len(s)
    BY <1>2
<1>6. 1 \in 1 .. Len(s)
    BY <1>2
<1>7. Range(s) \subseteq Range(t) \cup {Head(s)}
    <2> SUFFICES ASSUME NEW x \in Range(s), x # Head(s) PROVE x \in Range(t)
        OBVIOUS
    <2>1. PICK i \in 1 .. Len(s) : s[i] = x /\ i # 1
        BY <1>1, <1>3
    <2>2. PICK j \in 1 .. Len(s) - 1 : j + 1 = i
        BY <1>4, <2>1
    <2>3. t[j] = x
        BY <1>1, <2>1, <2>2
    <2> QED BY <1>3, <2>3
<1>8. Range(t) \cup {Head(s)} \subseteq Range(s)
    BY <1>1, <1>3, <1>5, <1>6
<1> QED BY <1>1, <1>2, <1>7, <1>8 DEF t

\* Removing from a list takes away that element and no other one.
LEMMA Removed ==
    ASSUME NEW S, NEW s \in Seq(S), NEW i \in 1 .. Len(s)
    PROVE  /\ RemoveAt(s, i) \in Seq(S)
           /\ Range(RemoveAt(s, i)) \subseteq Range(s)
           /\ Range(s) \subseteq Range(RemoveAt(s, i)) \cup {s[i]}
<1> DEFINE a == SubSeq(s, 1, i - 1)
           b == SubSeq(s, i + 1, Len(s))
           m == Len(s)
           t == a \o b
<1>1. m \in Nat /\ i \in 1 .. m /\ (\A j \in 1 .. m : s[j] \in S)
      /\ \A x : x \in Range(s) <=> \E j \in 1 .. m : s[j] = x
    BY Carried
<1>2. a \in Seq(S) /\ Len(a) = i - 1 /\ \A j \in 1 .. i - 1 : a[j] = s[j]
    <2>1. i - 1 \in 0 .. m
        BY <1>1
    <2> QED BY <1>1, <2>1, SubSeqProperties
<1>3. b \in Seq(S) /\ Len(b) = m - i /\ \A j \in 1 .. m - i : b[j] = s[i + j]
    <2>1. i + 1 \in Int /\ m \in Int /\ \A j \in i + 1 .. m : s[j] \in S
        BY <1>1
    <2>2. /\ b \in Seq(S) /\ Len(b) = IF i + 1 <= m THEN m - (i + 1) + 1 ELSE 0
          /\ \A j \in 1 .. m - (i + 1) + 1 : b[j] = s[i + 1 + j - 1]
        BY <2>1, SubSeqProperties
    <2> HIDE DEF b, m
    <2>3. m - (i + 1) + 1 = m - i /\ Len(b) = m - i
        BY <1>1, <2>2
    <2>4. \A j \in 1 .. m - i : i + 1 + j - 1 = i + j
        BY <1>1
    <2> QED BY <2>2, <2>3, <2>4
<1> HIDE DEF a, b, m
<1>4. /\ t \in Seq(S) /\ Len(t) = (i - 1) + (m - i)
      /\ \A j \in 1 .. (i - 1) + (m - i) : t[j] = IF j <= i - 1 THEN a[j] ELSE b[j - (i - 1)]
    <2>1. /\ t \in Seq(S) /\ Len(t) = Len(a) + Len(b)
          /\ \A j \in 1 .. Len(a) + Len(b) : t[j] = IF j <= Len(a) THEN a[j] ELSE b[j - Len(a)]
        BY <1>2, <1>3, ConcatProperties
    <2> HIDE DEF t
    <2> QED BY <1>2, <1>3, <2>1
<1>5. \A x : x \in Range(t) <=> \E j \in 1 .. (i - 1) + (m - i) : t[j] = x
    <2> HIDE DEF t
    <2> QED BY <1>4, CarriedTo
<1> HIDE DEF t
<1>6. \A j \in 1 .. i - 1 : j \in 1 .. (i - 1) + (m - i) /\ t[j] = s[j] /\ j \in 1 .. m
    BY <1>1, <1>2, <1>4
<1>7. \A j \in 1 .. m - i : /\ (i - 1) + j \in 1 .. (i - 1) + (m - i)
                            /\ t[(i - 1) + j] = s[i + j]
                            /\ i + j \in 1 .. m
    <2> SUFFICES ASSUME NEW j \in 1 .. m - i
                 PROVE  /\ (i - 1) + j \in 1 .. (i - 1) + (m - i)
                        /\ t[(i - 1) + j] = s[i + j]
                        /\ i + j \in 1 .. m
        OBVIOUS
    <2>1. (i - 1) + j \in 1 .. (i - 1) + (m - i) /\ ~((i - 1) + j <= i - 1)
          /\ ((i - 1) + j) - (i - 1) = j /\ i + j \in 1 .. m
        BY <1>1
    <2>2. t[(i - 1) + j] = b[((i - 1) + j) - (i - 1)]
        BY <1>4, <2>1
    <2> QED BY <1>3, <2>1, <2>2
<1>8. \A j \in 1 .. (i - 1) + (m - i) : j \in 1 .. i - 1 \/ j - (i - 1) \in 1 .. m - i
    BY <1>1
<1>9. Range(t) \subseteq Range(s)
    <2> SUFFICES ASSUME NEW x \in Range(t) PROVE x \in Range(s)
        OBVIOUS
    <2>1. PICK j \in 1 .. (i - 1) + (m - i) : t[j] = x
        BY <1>5
    <2>2. CASE j \in 1 .. i - 1
        BY <1>1, <1>6, <2>1, <2>2
    <2>3. CASE j - (i - 1) \in 1 .. m - i
        <3>1. (i - 1) + (j - (i - 1)) = j
            BY <1>1, <2>1
        <3> QED BY <1>1, <1>7, <2>1, <2>3, <3>1
    <2> QED BY <1>8, <2>2, <2>3
<1>10. Range(s) \subseteq Range(t) \cup {s[i]}
    <2> SUFFICES ASSUME NEW x \in Range(s), x # s[i] PROVE x \in Range(t)
        OBVIOUS
    <2>1. PICK j \in 1 .. m : s[j] = x /\ j # i
        BY <1>1
    <2>2. j \in 1 .. i - 1 \/ (j - i \in 1 .. m - i /\ i + (j - i) = j)
        BY <1>1, <2>1
    <2> QED BY <1>5, <1>6, <1>7, <2>1, <2>2
<1>11. RemoveAt(s, i) = t
    BY DEF RemoveAt, a, b, t, m
<1> QED BY <1>4, <1>9, <1>10, <1>11

-----------------------------------------------------------------------------
(* Types.  They need two facts: a broadcast has something to send, and an  *)
(* export thread that is not idle has a target.                            *)

CastsItems == \A w \in Workers : receiver[w].casting => receiver[w].item # Nothing

\* The export thread is idle without a target, and what it has still to send
\* of a bucket is stored in that bucket.
ExporterCoherent ==
    \A w \in Workers :
       /\ exporter[w].pc = "idle" => exporter[w] = Idle
       /\ exporter[w].pc # "idle" => exporter[w].target \in Workers
       /\ exporter[w].pc = "start" => exporter[w].bucket = 1 /\ exporter[w].todo = {}
       /\ exporter[w].todo \subseteq InBucket(w, exporter[w].bucket - 1)

\* Changing one entry of a table of tables.
LEMMA PairUpdated ==
    ASSUME NEW A, NEW B, NEW T, NEW f \in [A -> [B -> T]], NEW w \in A, NEW v \in B,
           NEW c \in T, NEW g, g = [f EXCEPT ![w][v] = c]
    PROVE  /\ g \in [A -> [B -> T]]
           /\ \A x \in A, y \in B : g[x][y] = IF x = w /\ y = v THEN c ELSE f[x][y]
OBVIOUS

\* The types of the parts of the state.
LEMMA WorkerTypes ==
    ASSUME TypeOK, NEW w \in Workers
    PROVE  /\ inbox[w] \in Seq(Inbound)
           /\ table[w] \in [Keys -> Puts \cup {None}]
           /\ peers[w] \in Seq(Workers)
           /\ backlog[w] \in Seq(Workers)
           /\ exports[w] \in Seq(Workers)
           /\ serving[w] \in Workers \cup {None}
           /\ listener[w] \in Items
           /\ Stored(w) \subseteq Keys
BY DEF TypeOK, Stored

LEMMA ReceiverTypes ==
    ASSUME TypeOK, NEW w \in Workers
    PROVE  /\ receiver[w] \in [casting : BOOLEAN, item : Items,
                               next : Nat \ {0}, lost : Seq(Workers)]
           /\ receiver[w].casting \in BOOLEAN
           /\ receiver[w].item \in Items
           /\ receiver[w].next \in Nat \ {0}
           /\ receiver[w].lost \in Seq(Workers)
<1>1. receiver[w] \in [casting : BOOLEAN, item : Items, next : Nat \ {0}, lost : Seq(Workers)]
    BY DEF TypeOK
<1> QED BY <1>1

LEMMA ExporterTypes ==
    ASSUME TypeOK, NEW w \in Workers
    PROVE  /\ exporter[w] \in [pc : {"idle", "start", "buckets"}, target : Workers \cup {None},
                               bucket : 1 .. Buckets + 1, todo : SUBSET Keys]
           /\ exporter[w].pc \in {"idle", "start", "buckets"}
           /\ exporter[w].target \in Workers \cup {None}
           /\ exporter[w].bucket \in 1 .. Buckets + 1
           /\ exporter[w].todo \subseteq Keys
<1>1. exporter[w] \in [pc : {"idle", "start", "buckets"}, target : Workers \cup {None},
                       bucket : 1 .. Buckets + 1, todo : SUBSET Keys]
    BY DEF TypeOK
<1> QED BY <1>1

LEMMA PairTypes ==
    ASSUME TypeOK, NEW w \in Workers, NEW v \in Workers
    PROVE  /\ link[w][v] \in {"none", "open", "closed"}
           /\ chan[w][v] \in Seq(Messages)
           /\ Len(chan[w][v]) \in Nat
           /\ Len(chan[w][v]) <= Buffer
           /\ due[w][v] \subseteq Keys
           /\ snapshot[w][v] \subseteq Keys
<1>1. /\ link \in [Workers -> [Workers -> {"none", "open", "closed"}]]
      /\ due \in [Workers -> [Workers -> SUBSET Keys]]
      /\ snapshot \in [Workers -> [Workers -> SUBSET Keys]]
    BY DEF TypeOK
<1>2. chan \in [Workers -> [Workers -> Seq(Messages)]]
    BY DEF TypeOK
<1>3. \A x, y \in Workers : Len(chan[x][y]) <= Buffer
    BY DEF TypeOK
<1>4. chan[w][v] \in Seq(Messages)
    BY <1>2
<1> QED BY <1>1, <1>3, <1>4, LenProperties

LEMMA TypeInit == Init => TypeOK
<1> SUFFICES ASSUME Init PROVE TypeOK
    OBVIOUS
<1> USE ReplicationAssumption
<1>1. Quiet \in [casting : BOOLEAN, item : Items, next : Nat \ {0}, lost : Seq(Workers)]
    BY DEF Quiet, Items
<1>2. Idle \in [pc : {"idle", "start", "buckets"}, target : Workers \cup {None},
                bucket : 1 .. Buckets + 1, todo : SUBSET Keys]
    BY DEF Idle
<1>3. /\ chan \in [Workers -> [Workers -> Seq(Messages)]]
      /\ \A w, v \in Workers : Len(chan[w][v]) <= Buffer
    BY DEF Init, Pairs
<1> QED BY <1>1, <1>2, <1>3 DEF Init, TypeOK, Pairs, Items

\* Messages to a worker have the fields of their type.
LEMMA InboundFields ==
    /\ \A m \in Inbound : m.type = "entry" => m.peer \in Workers /\ m.export \in BOOLEAN
    /\ \A m \in Inbound : m.type = "store" => m.key \in Keys /\ m.put \in Puts
BY DEF Inbound

LEMMA JoinType == ASSUME TypeOK, NEW w \in Workers, Join(w) PROVE TypeOK'
<1>1. list' \in Seq(Workers)
    BY AppendProperties DEF Join, TypeOK
<1> QED BY <1>1 DEF Join, TypeOK, receiverVars, streamVars, listenerVars, exportVars, historyVars

LEMMA DispatchType ==
    ASSUME TypeOK, NEW w \in Workers, NEW k \in Keys, NEW p \in Puts, Dispatch(w, k, p)
    PROVE  TypeOK'
<1>1. Store(k, p) \in Inbound
    BY DEF Store, Inbound
<1>2. Append(inbox[w], Store(k, p)) \in Seq(Inbound)
    BY <1>1, AppendProperties DEF TypeOK
<1> QED BY <1>2
        DEF Dispatch, TypeOK, receiverVars, streamVars, listenerVars, exportVars, historyVars

LEMMA RemoveWorkerType == ASSUME TypeOK, NEW w \in Workers, RemoveWorker(w) PROVE TypeOK'
<1>1. list' \in Seq(Workers)
    BY Removed DEF RemoveWorker, TypeOK
<1> QED BY <1>1
        DEF RemoveWorker, TypeOK, receiverVars, streamVars, listenerVars, exportVars, historyVars

LEMMA IntroduceType == ASSUME TypeOK, NEW w \in Workers, Introduce(w) PROVE TypeOK'
<1> DEFINE entries == [i \in 1 .. Len(list) |-> Entry(list[i], FALSE)]
<1>1. entries \in Seq(Inbound)
    <2>1. Len(list) \in Nat /\ \A i \in 1 .. Len(list) : Entry(list[i], FALSE) \in Inbound
        BY Carried DEF TypeOK, Entry, Inbound
    <2>2. entries \in [1 .. Len(list) -> Inbound]
        BY <2>1
    <2> QED BY <2>1, <2>2, SeqDef
<1>2. inbox[w] \o entries \in Seq(Inbound)
    BY <1>1, ConcatProperties DEF TypeOK
<1>3. \A v \in Workers, b \in BOOLEAN : Append(inbox[v], Entry(w, b)) \in Seq(Inbound)
    <2>1. \A b \in BOOLEAN : Entry(w, b) \in Inbound
        BY DEF Entry, Inbound
    <2> QED BY <2>1, AppendProperties DEF TypeOK
<1>4. inbox' \in [Workers -> Seq(Inbound)]
    <2> HIDE DEF entries
    <2>1. /\ inbox' = [v \in Workers |->
                       IF v \notin Members \cap alive THEN inbox[v]
                       ELSE IF v = w THEN inbox[w] \o entries
                       ELSE Append(inbox[v], Entry(w, v = list[IF list[1] = w THEN 2 ELSE 1]))]
        BY DEF Introduce, entries
    <2>2. \A v \in Workers : inbox[v] \in Seq(Inbound)
        BY DEF TypeOK
    <2>3. \A v \in Workers : (v = list[IF list[1] = w THEN 2 ELSE 1]) \in BOOLEAN
        OBVIOUS
    <2> QED BY <1>2, <1>3, <2>1, <2>2, <2>3
<1> QED BY <1>4
        DEF Introduce, TypeOK, receiverVars, streamVars, listenerVars, exportVars, historyVars

LEMMA StopType == ASSUME TypeOK, NEW w \in Workers, Stop(w) PROVE TypeOK'
<1> USE ReplicationAssumption
<1>1. Quiet \in [casting : BOOLEAN, item : Items, next : Nat \ {0}, lost : Seq(Workers)]
    BY DEF Quiet, Items
<1>2. Idle \in [pc : {"idle", "start", "buckets"}, target : Workers \cup {None},
                bucket : 1 .. Buckets + 1, todo : SUBSET Keys]
    BY DEF Idle
<1>3. /\ chan' \in [Workers -> [Workers -> Seq(Messages)]]
      /\ \A u, v \in Workers : Len(chan'[u][v]) <= Buffer
    <2>1. PICK keep \in BOOLEAN :
              chan' = [u \in Workers |-> [v \in Workers |->
                         IF v = w \/ (u = w /\ ~keep) THEN << >> ELSE chan[u][v]]]
        BY DEF Stop
    <2>2. << >> \in Seq(Messages) /\ Len(<< >>) <= Buffer
        OBVIOUS
    <2>3. /\ \A u, v \in Workers : chan[u][v] \in Seq(Messages)
          /\ \A u, v \in Workers : Len(chan[u][v]) <= Buffer
        BY PairTypes
    <2>4. chan' \in [Workers -> [Workers -> Seq(Messages)]]
        BY <2>1, <2>2, <2>3
    <2>5. ASSUME NEW u \in Workers, NEW v \in Workers
          PROVE  chan'[u][v] = << >> \/ chan'[u][v] = chan[u][v]
        BY <2>1
    <2> QED BY <2>2, <2>3, <2>4, <2>5
<1>4. /\ inbox' \in [Workers -> Seq(Inbound)]
      /\ receiver' \in [Workers -> [casting : BOOLEAN, item : Items,
                                    next : Nat \ {0}, lost : Seq(Workers)]]
      /\ exporter' \in [Workers -> [pc : {"idle", "start", "buckets"},
                                    target : Workers \cup {None},
                                    bucket : 1 .. Buckets + 1, todo : SUBSET Keys]]
    BY <1>1, <1>2 DEF Stop, TypeOK
<1>5. /\ peers' \in [Workers -> Seq(Workers)] /\ exports' \in [Workers -> Seq(Workers)]
      /\ backlog' \in [Workers -> Seq(Workers)] /\ serving' \in [Workers -> Workers \cup {None}]
      /\ listener' \in [Workers -> Items]
    BY DEF Stop, TypeOK, Items
<1>6. /\ link' \in [Workers -> [Workers -> {"none", "open", "closed"}]]
      /\ table' \in [Workers -> [Keys -> Puts \cup {None}]]
      /\ due' \in [Workers -> [Workers -> SUBSET Keys]]
    BY DEF Stop, TypeOK
<1>7. sending' \in [Workers -> SUBSET {"receiver", "exporter"}]
    BY DEF Stop, TypeOK
<1> QED BY <1>3, <1>4, <1>5, <1>6, <1>7 DEF Stop, TypeOK, balancerVars

\* What the head of a worker's messages gives, and the rest.
LEMMA ReadsType ==
    ASSUME TypeOK, NEW w \in Workers, NEW type, Reads(w, type)
    PROVE  /\ inbox' \in [Workers -> Seq(Inbound)]
           /\ Head(inbox[w]) \in Inbound
           /\ type = "entry" => /\ Head(inbox[w]).peer \in Workers
                                /\ Head(inbox[w]).export \in BOOLEAN
           /\ type = "store" => /\ Head(inbox[w]).key \in Keys
                                /\ Head(inbox[w]).put \in Puts
<1>1. inbox[w] \in Seq(Inbound) /\ inbox[w] # << >>
    BY DEF Reads, TypeOK
<1>2. Head(inbox[w]) \in Inbound /\ Tail(inbox[w]) \in Seq(Inbound)
    BY <1>1, Taken
<1> QED BY <1>2, InboundFields DEF Reads, TypeOK

LEMMA AddPeerType == ASSUME TypeOK, NEW w \in Workers, AddPeer(w) PROVE TypeOK'
<1> DEFINE v == Head(inbox[w]).peer
<1>1. Reads(w, "entry")
    BY DEF AddPeer
<1>2. inbox' \in [Workers -> Seq(Inbound)] /\ v \in Workers
    BY <1>1, ReadsType
<1>3. /\ Append(peers[w], v) \in Seq(Workers)
      /\ Append(backlog[v], w) \in Seq(Workers)
      /\ Append(exports[w], v) \in Seq(Workers)
    BY <1>2, AppendProperties DEF TypeOK
<1>4. due[w][v] \cup Stored(w) \in SUBSET Keys
    BY <1>2, PairTypes, WorkerTypes
<1> HIDE DEF v
<1>5. /\ peers' \in [Workers -> Seq(Workers)]
      /\ backlog' \in [Workers -> Seq(Workers)]
      /\ exports' \in [Workers -> Seq(Workers)]
    BY <1>2, <1>3 DEF AddPeer, TypeOK, v
<1>6. link' \in [Workers -> [Workers -> {"none", "open", "closed"}]]
    <2>1. PICK x \in {"none", "open", "closed"} : link' = [link EXCEPT ![w][v] = x]
        BY <1>2, PairTypes DEF AddPeer, v
    <2>2. link \in [Workers -> [Workers -> {"none", "open", "closed"}]]
        BY DEF TypeOK
    <2> QED BY <1>2, <2>1, <2>2
<1>7. due' \in [Workers -> [Workers -> SUBSET Keys]]
    <2>1. PICK D \in SUBSET Keys : due' = [due EXCEPT ![w][v] = D]
        BY <1>2, <1>4, PairTypes DEF AddPeer, v
    <2> QED BY <1>2, <2>1 DEF TypeOK
<1> QED BY <1>2, <1>5, <1>6, <1>7 DEF AddPeer, TypeOK, balancerVars, listenerVars

LEMMA StoreRequestType == ASSUME TypeOK, NEW w \in Workers, StoreRequest(w) PROVE TypeOK'
<1> DEFINE m == Head(inbox[w])
<1>1. Reads(w, "store")
    BY DEF StoreRequest
<1>2. inbox' \in [Workers -> Seq(Inbound)] /\ m.key \in Keys /\ m.put \in Puts
    BY <1>1, ReadsType
<1> HIDE DEF m
<1>3. table' \in [Workers -> [Keys -> Puts \cup {None}]]
    BY <1>2 DEF StoreRequest, TypeOK, m
<1>4. [casting |-> TRUE, item |-> [key |-> m.key, put |-> m.put], next |-> 1, lost |-> << >>]
         \in [casting : BOOLEAN, item : Items, next : Nat \ {0}, lost : Seq(Workers)]
    BY <1>2 DEF Items
<1>5. receiver' \in [Workers -> [casting : BOOLEAN, item : Items,
                                 next : Nat \ {0}, lost : Seq(Workers)]]
    BY <1>4 DEF StoreRequest, TypeOK, m
<1>6. due' \in [Workers -> [Workers -> SUBSET Keys]]
    <2> DEFINE row == [v \in Workers |-> IF v \in Connected(w) THEN due[w][v] \cup {m.key}
                                         ELSE due[w][v]]
    <2>1. row \in [Workers -> SUBSET Keys]
        BY <1>2, PairTypes
    <2>2. due' = [due EXCEPT ![w] = row]
        BY DEF StoreRequest, m
    <2> HIDE DEF row
    <2> QED BY <2>1, <2>2 DEF TypeOK
<1> QED BY <1>2, <1>3, <1>5, <1>6
        DEF StoreRequest, TypeOK, balancerVars, streamVars, listenerVars, exportVars

\* A message that goes on a connection leaves it within its bound.
LEMMA SendsType ==
    ASSUME TypeOK, NEW w \in Workers, NEW v \in Workers, NEW m \in Messages, Sends(w, v, m)
    PROVE  /\ chan' \in [Workers -> [Workers -> Seq(Messages)]]
           /\ \A x, y \in Workers : Len(chan'[x][y]) <= Buffer
<1>1. chan[w][v] \in Seq(Messages) /\ Len(chan[w][v]) \in Nat /\ Buffer \in Nat
    BY ReplicationAssumption, LenProperties DEF TypeOK
<1>2. /\ Append(chan[w][v], m) \in Seq(Messages)
      /\ Len(Append(chan[w][v], m)) = Len(chan[w][v]) + 1
    BY <1>1, AppendProperties
<1>3. CASE <<w, v>> \in mixed'
    BY <1>3 DEF Sends, TypeOK
<1>4. CASE <<w, v>> \notin mixed'
    <2>1. chan' = [chan EXCEPT ![w][v] = Append(chan[w][v], m)]
        BY <1>4 DEF Sends
    <2>2. chan' \in [Workers -> [Workers -> Seq(Messages)]]
        BY <1>2, <2>1 DEF TypeOK
    <2>3. ASSUME NEW x \in Workers, NEW y \in Workers
          PROVE  chan'[x][y] = IF x = w /\ y = v THEN Append(chan[w][v], m) ELSE chan[x][y]
        BY <2>1 DEF TypeOK
    <2>4. Len(Append(chan[w][v], m)) <= Buffer
        BY <1>1, <1>2 DEF Sends
    <2> QED BY <2>2, <2>3, <2>4 DEF TypeOK
<1> QED BY <1>3, <1>4

\* The two halves of a message.
LEMMA MixesType ==
    ASSUME TypeOK, NEW w \in Workers, NEW v \in Workers, Mixes(w, v)
    PROVE  mixed' \subseteq Workers \X Workers
BY DEF Mixes, TypeOK

LEMMA HeaderType ==
    ASSUME TypeOK, NEW w \in Workers, NEW v \in Workers, NEW thread \in {"receiver", "exporter"},
           SendHeader(w, thread, v)
    PROVE  /\ sending' \in [Workers -> SUBSET {"receiver", "exporter"}]
           /\ mixed' \subseteq Workers \X Workers
<1>1. sending[w] \cup {thread} \in SUBSET {"receiver", "exporter"}
    BY DEF TypeOK
<1>2. sending' = [sending EXCEPT ![w] = sending[w] \cup {thread}]
    BY DEF SendHeader
<1>3. sending' \in [Workers -> SUBSET {"receiver", "exporter"}]
    BY <1>1, <1>2 DEF TypeOK
<1> QED BY <1>3, MixesType DEF SendHeader

LEMMA PayloadType ==
    ASSUME TypeOK, NEW w \in Workers, NEW thread, sending' = [sending EXCEPT ![w] = @ \ {thread}]
    PROVE  sending' \in [Workers -> SUBSET {"receiver", "exporter"}]
<1>1. sending[w] \ {thread} \in SUBSET {"receiver", "exporter"}
    BY DEF TypeOK
<1> QED BY <1>1 DEF TypeOK

\* The peer a broadcast has come to.
LEMMA NextPeerType ==
    ASSUME TypeOK, NEW w \in Workers, receiver[w].next <= Len(peers[w])
    PROVE  peers[w][receiver[w].next] \in Workers
<1>1. receiver[w].next \in Nat \ {0} /\ peers[w] \in Seq(Workers)
    BY ReceiverTypes, WorkerTypes
<1> QED BY <1>1, Carried

LEMMA NotifyHeaderType == ASSUME TypeOK, NEW w \in Workers, NotifyHeader(w) PROVE TypeOK'
<1> DEFINE v == peers[w][receiver[w].next]
<1>1. v \in Workers
    BY NextPeerType DEF NotifyHeader
<1>2. SendHeader(w, "receiver", v)
    BY DEF NotifyHeader
<1>3. /\ sending' \in [Workers -> SUBSET {"receiver", "exporter"}]
      /\ mixed' \subseteq Workers \X Workers
    BY <1>1, <1>2, HeaderType
<1> QED BY <1>3 DEF NotifyHeader, TypeOK, balancerVars, receiverVars, listenerVars, exportVars,
                    historyVars

LEMMA NotifyType ==
    ASSUME TypeOK, CastsItems, NEW w \in Workers, Notify(w) PROVE TypeOK'
<1> DEFINE i == receiver[w].next
           v == peers[w][i]
           m == Data("notify", receiver[w].item.key, receiver[w].item.put)
<1>1. i \in 1 .. Len(peers[w]) /\ v \in Workers
    <2>1. i \in Nat \ {0} /\ i <= Len(peers[w]) /\ peers[w] \in Seq(Workers)
        BY DEF Notify, TypeOK
    <2> QED BY <2>1, Carried
<1>2. m \in Messages
    <2>1. receiver[w].item \in [key : Keys, put : Puts]
        BY DEF Notify, CastsItems, TypeOK, Items
    <2> QED BY <2>1 DEF Data, Messages
<1>3. Append(receiver[w].lost, v) \in Seq(Workers)
    BY <1>1, AppendProperties DEF TypeOK
<1>4. i + 1 \in Nat \ {0}
    BY DEF TypeOK
<1> HIDE DEF i, v, m
<1>5. receiver' \in [Workers -> [casting : BOOLEAN, item : Items,
                                 next : Nat \ {0}, lost : Seq(Workers)]]
    <2>1. \/ receiver' = [receiver EXCEPT ![w].next = i + 1]
          \/ receiver' = [receiver EXCEPT ![w].next = i + 1, ![w].lost = Append(@, v)]
        BY DEF Notify, i, v
    <2>2. PICK r \in [casting : BOOLEAN, item : Items, next : Nat \ {0}, lost : Seq(Workers)] :
              receiver' = [receiver EXCEPT ![w] = r]
        <3> DEFINE r == receiver[w]
        <3>1. r \in [casting : BOOLEAN, item : Items, next : Nat \ {0}, lost : Seq(Workers)]
            BY ReceiverTypes
        <3>2. CASE receiver' = [receiver EXCEPT ![w].next = i + 1]
            <4>1. receiver' = [receiver EXCEPT ![w] = [r EXCEPT !.next = i + 1]]
                BY <3>2
            <4> HIDE DEF r
            <4>2. [r EXCEPT !.next = i + 1]
                     \in [casting : BOOLEAN, item : Items, next : Nat \ {0}, lost : Seq(Workers)]
                BY <1>4, <3>1
            <4> QED BY <4>1, <4>2
        <3>3. CASE receiver' = [receiver EXCEPT ![w].next = i + 1, ![w].lost = Append(@, v)]
            <4>1. receiver' = [receiver EXCEPT ![w] =
                                  [r EXCEPT !.next = i + 1, !.lost = Append(receiver[w].lost, v)]]
                BY <3>3 DEF TypeOK
            <4> HIDE DEF r
            <4>2. [r EXCEPT !.next = i + 1, !.lost = Append(receiver[w].lost, v)]
                     \in [casting : BOOLEAN, item : Items, next : Nat \ {0}, lost : Seq(Workers)]
                BY <1>3, <1>4, <3>1
            <4> QED BY <4>1, <4>2
        <3> QED BY <2>1, <3>2, <3>3
    <2> QED BY <2>2 DEF TypeOK
<1>6. /\ chan' \in [Workers -> [Workers -> Seq(Messages)]]
      /\ \A x, y \in Workers : Len(chan'[x][y]) <= Buffer
    <2>1. Sends(w, v, m) \/ UNCHANGED chan
        BY DEF Notify, SendPayload, i, v, m
    <2>2. CASE Sends(w, v, m)
        BY <1>1, <1>2, <2>2, SendsType DEF i, v
    <2>3. CASE UNCHANGED chan
        BY <2>3 DEF TypeOK
    <2> QED BY <2>1, <2>2, <2>3
<1>7. sending' \in [Workers -> SUBSET {"receiver", "exporter"}] /\ mixed' = mixed
    <2>1. sending' = [sending EXCEPT ![w] = @ \ {"receiver"}] /\ mixed' = mixed
        BY DEF Notify, SendPayload
    <2> QED BY <2>1, PayloadType
<1> QED BY <1>5, <1>6, <1>7
        DEF Notify, TypeOK, balancerVars, listenerVars, exportVars, historyVars

LEMMA EndBroadcastType == ASSUME TypeOK, NEW w \in Workers, EndBroadcast(w) PROVE TypeOK'
<1> DEFINE r == [receiver[w] EXCEPT !.casting = FALSE, !.item = Nothing, !.next = 1]
<1>1. r \in [casting : BOOLEAN, item : Items, next : Nat \ {0}, lost : Seq(Workers)]
    <2>1. Nothing \in Items
        BY DEF Items
    <2> DEFINE N == Nat \ {0}
    <2>2. receiver[w] \in [casting : BOOLEAN, item : Items, next : N, lost : Seq(Workers)]
        BY ReceiverTypes
    <2>3. 1 \in N
        OBVIOUS
    <2> HIDE DEF N
    <2>4. r \in [casting : BOOLEAN, item : Items, next : N, lost : Seq(Workers)]
        BY ONLY <2>1, <2>2, <2>3
    <2> QED BY <2>4 DEF N
<1>2. receiver' = [receiver EXCEPT ![w] = r]
    BY DEF EndBroadcast, TypeOK
<1> HIDE DEF r
<1>3. receiver' \in [Workers -> [casting : BOOLEAN, item : Items,
                                 next : Nat \ {0}, lost : Seq(Workers)]]
    BY <1>1, <1>2 DEF TypeOK
<1> QED BY <1>3 DEF EndBroadcast, TypeOK, balancerVars, streamVars, listenerVars,
                          exportVars, historyVars

LEMMA RemovePeerType == ASSUME TypeOK, NEW w \in Workers, RemoveDisconnectedPeer(w) PROVE TypeOK'
<1> DEFINE v == Head(receiver[w].lost)
           r == [receiver[w] EXCEPT !.lost = Tail(receiver[w].lost)]
<1>1. v \in Workers /\ Tail(receiver[w].lost) \in Seq(Workers)
    BY ReceiverTypes, Taken DEF RemoveDisconnectedPeer
<1>2. r \in [casting : BOOLEAN, item : Items, next : Nat \ {0}, lost : Seq(Workers)]
    BY <1>1, ReceiverTypes
<1>3. receiver' = [receiver EXCEPT ![w] = r]
    BY DEF RemoveDisconnectedPeer
<1>4. peers' \in [Workers -> Seq(Workers)]
    <2>1. PICK i \in 1 .. Len(peers[w]) : peers' = [peers EXCEPT ![w] = RemoveAt(peers[w], i)]
        BY DEF RemoveDisconnectedPeer
    <2>2. RemoveAt(peers[w], i) \in Seq(Workers)
        BY WorkerTypes, Removed
    <2> QED BY <2>1, <2>2 DEF TypeOK
<1>5. link' \in [Workers -> [Workers -> {"none", "open", "closed"}]]
    <2>1. link \in [Workers -> [Workers -> {"none", "open", "closed"}]]
        BY DEF TypeOK
    <2>2. link' = [link EXCEPT ![w][v] = "closed"]
        BY DEF RemoveDisconnectedPeer
    <2> HIDE DEF v
    <2> QED BY <1>1, <2>1, <2>2
<1> HIDE DEF r
<1>6. receiver' \in [Workers -> [casting : BOOLEAN, item : Items,
                                 next : Nat \ {0}, lost : Seq(Workers)]]
    BY <1>2, <1>3 DEF TypeOK
<1> QED BY <1>4, <1>5, <1>6 DEF RemoveDisconnectedPeer, TypeOK, balancerVars, listenerVars,
                                      exportVars, historyVars

\* The next message of the connection a listener serves.
LEMMA ReadyTypes ==
    ASSUME TypeOK, NEW v \in Workers, Ready(v)
    PROVE  /\ serving[v] \in Workers
           /\ chan[serving[v]][v] \in Seq(Messages) /\ chan[serving[v]][v] # << >>
           /\ Head(chan[serving[v]][v]) \in Messages
           /\ Head(chan[serving[v]][v]).put # None =>
                 [key |-> Head(chan[serving[v]][v]).key,
                  put |-> Head(chan[serving[v]][v]).put] \in Items
<1>1. serving[v] \in Workers /\ chan[serving[v]][v] # << >>
    BY WorkerTypes DEF Ready
<1>2. chan[serving[v]][v] \in Seq(Messages)
    BY <1>1, PairTypes
<1>3. Head(chan[serving[v]][v]) \in Messages
    BY <1>1, <1>2, Taken
<1> QED BY <1>1, <1>2, <1>3 DEF Messages, Items

\* Reading takes the first message off the connection.
LEMMA ReadingType ==
    ASSUME TypeOK, NEW v \in Workers, Ready(v),
           chan' = [chan EXCEPT ![serving[v]][v] = Tail(@)]
    PROVE  /\ chan' \in [Workers -> [Workers -> Seq(Messages)]]
           /\ \A x, y \in Workers : Len(chan'[x][y]) <= Buffer
<1> DEFINE u == serving[v]
           c == Tail(chan[u][v])
<1>1. u \in Workers /\ chan[u][v] \in Seq(Messages) /\ chan[u][v] # << >>
    BY ReadyTypes
<1>2. c \in Seq(Messages) /\ Len(c) <= Buffer
    <2>1. c \in Seq(Messages) /\ Len(c) = Len(chan[u][v]) - 1
        BY <1>1, Taken
    <2>2. Len(chan[u][v]) \in Nat /\ Len(chan[u][v]) <= Buffer
        BY <1>1, PairTypes
    <2> HIDE DEF c
    <2> QED BY <2>1, <2>2, ReplicationAssumption
<1>3. chan' = [chan EXCEPT ![u][v] = c]
    OBVIOUS
<1>4. chan \in [Workers -> [Workers -> Seq(Messages)]]
    BY DEF TypeOK
<1> HIDE DEF c, u
<1>5. /\ chan' \in [Workers -> [Workers -> Seq(Messages)]]
      /\ \A x, y \in Workers : chan'[x][y] = IF x = u /\ y = v THEN c ELSE chan[x][y]
    BY ONLY <1>1, <1>2, <1>3, <1>4, PairUpdated, v \in Workers
<1>6. \A x, y \in Workers : Len(chan[x][y]) <= Buffer
    BY PairTypes
<1> QED BY <1>2, <1>5, <1>6

LEMMA ListenType ==
    ASSUME TypeOK, NEW v \in Workers,
           \/ Accept(v) \/ ReceiveEntry(v) \/ ReceiveMark(v) \/ SetEntry(v)
           \/ Disconnect(v) \/ Misread(v)
    PROVE  TypeOK'
<1>1. CASE Accept(v)
    <2>1. Head(backlog[v]) \in Workers /\ Tail(backlog[v]) \in Seq(Workers)
        BY <1>1, WorkerTypes, Taken DEF Accept
    <2>2. serving' \in [Workers -> Workers \cup {None}] /\ backlog' \in [Workers -> Seq(Workers)]
        BY <1>1, <2>1 DEF Accept, TypeOK
    <2> QED BY <1>1, <2>2 DEF Accept, TypeOK, balancerVars, receiverVars, exportVars, historyVars
<1>2. CASE ReceiveEntry(v)
    <2>1. Ready(v) /\ chan' = [chan EXCEPT ![serving[v]][v] = Tail(@)]
        BY <1>2 DEF ReceiveEntry
    <2>2. listener' \in [Workers -> Items]
        <3>1. [key |-> Head(chan[serving[v]][v]).key,
               put |-> Head(chan[serving[v]][v]).put] \in Items
            BY <1>2, <2>1, ReadyTypes DEF ReceiveEntry
        <3>2. Nothing \in Items
            BY DEF Items
        <3> QED BY <1>2, <3>1, <3>2 DEF ReceiveEntry, TypeOK
    <2> QED BY <1>2, <2>1, <2>2, ReadingType
            DEF ReceiveEntry, TypeOK, balancerVars, receiverVars, exportVars, historyVars
<1>3. CASE ReceiveMark(v)
    <2>1. Ready(v) /\ chan' = [chan EXCEPT ![serving[v]][v] = Tail(@)]
        BY <1>3 DEF ReceiveMark
    <2> QED BY <1>3, <2>1, ReadingType
            DEF ReceiveMark, TypeOK, balancerVars, receiverVars, listenerVars, exportVars,
                historyVars
<1>4. CASE SetEntry(v)
    <2>1. listener[v] \in [key : Keys, put : Puts]
        BY <1>4, WorkerTypes DEF SetEntry, Items
    <2>2. table' \in [Workers -> [Keys -> Puts \cup {None}]] /\ listener' \in [Workers -> Items]
        BY <1>4, <2>1 DEF SetEntry, TypeOK, Items
    <2> QED BY <1>4, <2>2
            DEF SetEntry, TypeOK, balancerVars, receiverVars, streamVars, exportVars, historyVars
<1>5. CASE Disconnect(v)
    <2>1. serving' \in [Workers -> Workers \cup {None}]
        BY <1>5 DEF Disconnect, TypeOK
    <2> QED BY <1>5, <2>1
            DEF Disconnect, TypeOK, balancerVars, receiverVars, streamVars, exportVars, historyVars
<1>6. CASE Misread(v)
    <2>1. \/ \E k \in Keys, p \in Puts :
                /\ listener' = [listener EXCEPT ![v] = [key |-> k, put |-> p]]
                /\ UNCHANGED serving
          \/ serving' = [serving EXCEPT ![v] = None] /\ UNCHANGED listener
        BY <1>6 DEF Misread
    <2>2. \A k \in Keys, p \in Puts : [key |-> k, put |-> p] \in Items
        BY DEF Items
    <2>3. serving' \in [Workers -> Workers \cup {None}] /\ listener' \in [Workers -> Items]
        <3>1. ASSUME NEW e \in Items, listener' = [listener EXCEPT ![v] = e], UNCHANGED serving
              PROVE  /\ serving' \in [Workers -> Workers \cup {None}]
                     /\ listener' \in [Workers -> Items]
            BY <3>1 DEF TypeOK
        <3>2. CASE serving' = [serving EXCEPT ![v] = None] /\ UNCHANGED listener
            BY <3>2 DEF TypeOK
        <3> QED BY <2>1, <2>2, <3>1, <3>2
    <2> QED BY <1>6, <2>3
            DEF Misread, TypeOK, balancerVars, receiverVars, streamVars, exportVars, historyVars
<1> QED BY <1>1, <1>2, <1>3, <1>4, <1>5, <1>6

\* The entries of a bucket are stored.
LEMMA BucketStored ==
    ASSUME NEW w \in Workers, NEW b
    PROVE  InBucket(w, b) \subseteq Stored(w) /\ InBucket(w, b) \subseteq Keys
BY DEF InBucket, Stored

LEMMA ExportType ==
    ASSUME TypeOK, ExporterCoherent, NEW w \in Workers, Exports(w)
    PROVE  TypeOK'
<1> DEFINE E == [pc : {"idle", "start", "buckets"}, target : Workers \cup {None},
                 bucket : 1 .. Buckets + 1, todo : SUBSET Keys]
           e == exporter[w]
           v == exporter[w].target
<1>0. e \in E /\ Idle \in E /\ Buckets \in Nat /\ 1 \in 1 .. Buckets + 1
    BY ReplicationAssumption, ExporterTypes DEF Idle
<1>1. ASSUME NEW x \in E, exporter' = [exporter EXCEPT ![w] = x]
      PROVE  exporter' \in [Workers -> E]
    BY <1>1 DEF TypeOK
<1> HIDE DEF E, e
<1>2. CASE TakeExport(w)
    <2>1. exports[w] \in Seq(Workers) /\ exports[w] # << >>
        BY <1>2, WorkerTypes DEF TakeExport
    <2>2. Head(exports[w]) \in Workers /\ Tail(exports[w]) \in Seq(Workers)
        BY <2>1, Taken
    <2>3. exports' \in [Workers -> Seq(Workers)]
        BY <1>2, <2>2 DEF TakeExport, TypeOK
    <2>4. [pc |-> "start", target |-> Head(exports[w]), bucket |-> 1, todo |-> {}] \in E
        BY <1>0, <2>2 DEF E
    <2>5. exporter' \in [Workers -> E]
        BY <1>0, <1>1, <1>2, <2>4 DEF TakeExport
    <2> QED BY <1>2, <2>3, <2>5
            DEF E, TakeExport, TypeOK, balancerVars, receiverVars, streamVars, listenerVars,
                historyVars
<1>3. CASE SendStart(w)
    <2>1. v \in Workers /\ Mark("start") \in Messages
        BY <1>3, ExporterTypes DEF SendStart, ExporterCoherent, Mark, Messages
    <2>2. /\ chan' \in [Workers -> [Workers -> Seq(Messages)]]
          /\ \A x, y \in Workers : Len(chan'[x][y]) <= Buffer
        BY <1>3, <2>1, SendsType DEF SendStart, SendPayload
    <2>3. exporter' \in [Workers -> E]
        <3>1. [e EXCEPT !.pc = "buckets"] \in E
            BY <1>0 DEF E
        <3> QED BY <1>1, <1>3, <3>1 DEF SendStart, e
    <2>4. snapshot' \in [Workers -> [Workers -> SUBSET Keys]]
        <3>1. snapshot \in [Workers -> [Workers -> SUBSET Keys]] /\ Stored(w) \in SUBSET Keys
            BY WorkerTypes DEF TypeOK
        <3>2. snapshot' = [snapshot EXCEPT ![w][v] = Stored(w)]
            BY <1>3 DEF SendStart
        <3> HIDE DEF v
        <3> QED BY <2>1, <3>1, <3>2, PairUpdated
    <2>5. sending' \in [Workers -> SUBSET {"receiver", "exporter"}] /\ mixed' = mixed
        BY <1>3, PayloadType DEF SendStart, SendPayload
    <2> QED BY <1>3, <2>2, <2>3, <2>4, <2>5
            DEF E, SendStart, TypeOK, balancerVars, receiverVars, listenerVars
<1>4. CASE EnterBucket(w)
    <2> DEFINE b == exporter[w].bucket
    <2>1. InBucket(w, b) \in SUBSET Keys /\ b + 1 \in 1 .. Buckets + 1
        BY <1>0, <1>4, BucketStored, ExporterTypes DEF EnterBucket
    <2>2. [e EXCEPT !.bucket = b + 1, !.todo = InBucket(w, b)] \in E
        <3> HIDE DEF b
        <3> QED BY <1>0, <2>1 DEF E
    <2>3. exporter' = [exporter EXCEPT ![w] = [e EXCEPT !.bucket = b + 1, !.todo = InBucket(w, b)]]
        BY <1>4 DEF EnterBucket, e, TypeOK
    <2>4. exporter' \in [Workers -> E]
        BY <1>1, <2>2, <2>3
    <2> QED BY <1>4, <2>4
            DEF E, EnterBucket, TypeOK, balancerVars, receiverVars, streamVars, listenerVars,
                historyVars
<1>5. CASE SendEntry(w)
    <2>1. PICK k \in exporter[w].todo :
              /\ SendPayload(w, "exporter", v, Data("entry", k, table[w][k]))
              /\ exporter' = [exporter EXCEPT ![w].todo = @ \ {k}]
        BY <1>5 DEF SendEntry
    <2>2. k \in Stored(w) /\ k \in Keys
        BY BucketStored DEF ExporterCoherent
    <2>3. table[w][k] \in Puts
        BY <2>2, WorkerTypes DEF Stored
    <2>4. Data("entry", k, table[w][k]) \in Messages
        BY <2>2, <2>3 DEF Data, Messages
    <2>5. v \in Workers
        BY <2>1, ExporterTypes DEF ExporterCoherent, Idle
    <2>6. /\ chan' \in [Workers -> [Workers -> Seq(Messages)]]
          /\ \A x, y \in Workers : Len(chan'[x][y]) <= Buffer
        BY <2>1, <2>4, <2>5, SendsType DEF SendPayload
    <2>7. exporter' \in [Workers -> E]
        <3>1. [e EXCEPT !.todo = e.todo \ {k}] \in E
            BY <1>0 DEF E
        <3>2. exporter' = [exporter EXCEPT ![w] = [e EXCEPT !.todo = e.todo \ {k}]]
            BY <2>1 DEF e
        <3> QED BY <1>1, <3>1, <3>2
    <2>8. sending' \in [Workers -> SUBSET {"receiver", "exporter"}] /\ mixed' = mixed
        BY <2>1, PayloadType DEF SendPayload
    <2> QED BY <1>5, <2>6, <2>7, <2>8
            DEF E, SendEntry, TypeOK, balancerVars, receiverVars, listenerVars, historyVars
<1>6. CASE SendEnd(w)
    <2>1. v \in Workers /\ Mark("end") \in Messages
        BY <1>6, ExporterTypes DEF SendEnd, ExporterCoherent, Mark, Messages
    <2>2. /\ chan' \in [Workers -> [Workers -> Seq(Messages)]]
          /\ \A x, y \in Workers : Len(chan'[x][y]) <= Buffer
        BY <1>6, <2>1, SendsType DEF SendEnd
    <2>3. exporter' \in [Workers -> E]
        BY <1>0, <1>1, <1>6 DEF SendEnd
    <2>4. mixed' \subseteq Workers \X Workers
        BY <1>6, <2>1, MixesType DEF SendEnd
    <2> QED BY <1>6, <2>2, <2>3, <2>4
            DEF E, SendEnd, TypeOK, balancerVars, receiverVars, listenerVars, historyVars
<1>7. CASE ExportFails(w)
    <2>1. exporter' \in [Workers -> E]
        BY <1>0, <1>1, <1>7 DEF ExportFails
    <2>2. sending' \in [Workers -> SUBSET {"receiver", "exporter"}]
        BY <1>7, PayloadType DEF ExportFails
    <2> QED BY <1>7, <2>1, <2>2
            DEF E, ExportFails, TypeOK, balancerVars, receiverVars, listenerVars, historyVars
<1>8. CASE ExportHeader(w)
    <2>1. v \in Workers
        BY <1>8, ExporterTypes DEF ExportHeader, ExporterCoherent, Idle
    <2>2. /\ sending' \in [Workers -> SUBSET {"receiver", "exporter"}]
          /\ mixed' \subseteq Workers \X Workers
        BY <1>8, <2>1, HeaderType DEF ExportHeader
    <2> QED BY <1>8, <2>2
            DEF ExportHeader, TypeOK, balancerVars, receiverVars, listenerVars, exportVars,
                historyVars
<1> QED BY <1>2, <1>3, <1>4, <1>5, <1>6, <1>7, <1>8 DEF Exports

LEMMA UnchangedType == ASSUME TypeOK, UNCHANGED vars PROVE TypeOK'
BY DEF TypeOK, vars, balancerVars, receiverVars, streamVars, listenerVars, exportVars, historyVars

LEMMA TypeStep == ASSUME TypeOK, CastsItems, ExporterCoherent, [Next]_vars PROVE TypeOK'
<1>1. CASE UNCHANGED vars
    BY <1>1, UnchangedType
<1>2. ASSUME NEW w \in Workers, Registers(w) \/ Receives(w) \/ Listens(w) \/ Exports(w) \/ Stop(w)
      PROVE  TypeOK'
    <2>1. CASE Registers(w)
        BY <2>1, JoinType, IntroduceType, RemoveWorkerType DEF Registers
    <2>2. CASE Receives(w)
        BY <2>2, AddPeerType, StoreRequestType, NotifyHeaderType, NotifyType, EndBroadcastType,
           RemovePeerType DEF Receives
    <2>3. CASE Listens(w)
        BY <2>3, ListenType DEF Listens
    <2> QED BY <1>2, <2>1, <2>2, <2>3, ExportType, StopType
<1> QED BY <1>1, <1>2, DispatchType DEF Next

-----------------------------------------------------------------------------
(* What the steps leave alone.                                             *)

StageStep == \E w \in Workers : Join(w) \/ Introduce(w) \/ RemoveWorker(w)
AtStep == \E w \in Workers, k \in Keys, p \in Puts : Dispatch(w, k, p)
AliveStep == \E w \in Workers : Stop(w)
InboxStep == \/ \E w \in Workers : Introduce(w) \/ Stop(w) \/ AddPeer(w) \/ StoreRequest(w)
             \/ \E w \in Workers, k \in Keys, p \in Puts : Dispatch(w, k, p)
TableStep == \E w \in Workers : Stop(w) \/ StoreRequest(w) \/ SetEntry(w)
ReceiverStep ==
    \E w \in Workers : \/ Stop(w) \/ StoreRequest(w)
                       \/ Notify(w) \/ EndBroadcast(w) \/ RemoveDisconnectedPeer(w)
PeersStep == \E w \in Workers : Stop(w) \/ AddPeer(w) \/ RemoveDisconnectedPeer(w)
ChanStep ==
    \E w \in Workers : \/ Stop(w) \/ Notify(w) \/ ReceiveEntry(w)
                       \/ ReceiveMark(w) \/ SendStart(w) \/ SendEntry(w) \/ SendEnd(w)
BacklogStep == \E w \in Workers : Stop(w) \/ AddPeer(w) \/ Accept(w)
ServingStep == \E w \in Workers : Stop(w) \/ Accept(w) \/ Disconnect(w) \/ Misread(w)
ListenerStep == \E w \in Workers : Stop(w) \/ ReceiveEntry(w) \/ SetEntry(w) \/ Misread(w)
ExportsStep == \E w \in Workers : Stop(w) \/ AddPeer(w) \/ TakeExport(w)
ExporterStep ==
    \E w \in Workers : \/ Stop(w) \/ TakeExport(w) \/ SendStart(w)
                       \/ EnterBucket(w) \/ SendEntry(w) \/ SendEnd(w) \/ ExportFails(w)
DueStep == \E w \in Workers : Stop(w) \/ AddPeer(w) \/ StoreRequest(w)
SnapshotStep == \E w \in Workers : SendStart(w)

\* Each variable is changed by these steps only, and what is mixed stays so.
Framed == /\ stage' = stage \/ StageStep
          /\ at' = at \/ AtStep
          /\ alive' = alive \/ AliveStep
          /\ inbox' = inbox \/ InboxStep
          /\ table' = table \/ TableStep
          /\ receiver' = receiver \/ ReceiverStep
          /\ peers' = peers \/ PeersStep
          /\ link' = link \/ PeersStep
          /\ chan' = chan \/ ChanStep
          /\ backlog' = backlog \/ BacklogStep
          /\ serving' = serving \/ ServingStep
          /\ listener' = listener \/ ListenerStep
          /\ exports' = exports \/ ExportsStep
          /\ exporter' = exporter \/ ExporterStep
          /\ due' = due \/ DueStep
          /\ snapshot' = snapshot \/ SnapshotStep
          /\ mixed \subseteq mixed'

LEMMA Frames == [Next]_vars => Framed
<1> SUFFICES ASSUME [Next]_vars PROVE Framed
    OBVIOUS
<1>0. CASE UNCHANGED vars
    BY <1>0 DEF Framed, vars, balancerVars, receiverVars, streamVars, listenerVars, exportVars,
                historyVars
<1>1. ASSUME NEW w \in Workers, Join(w) PROVE Framed
    BY <1>1 DEF Framed, Join, receiverVars, streamVars, listenerVars, exportVars, historyVars,
                    StageStep
<1>2. ASSUME NEW w \in Workers, Introduce(w) PROVE Framed
    BY <1>2 DEF Framed, Introduce, receiverVars, streamVars, listenerVars, exportVars,
                    historyVars, InboxStep, StageStep
<1>3. ASSUME NEW w \in Workers, RemoveWorker(w) PROVE Framed
    BY <1>3 DEF Framed, RemoveWorker, receiverVars, streamVars, listenerVars, exportVars,
                    historyVars, StageStep
<1>4. ASSUME NEW w \in Workers, Stop(w) PROVE Framed
    BY <1>4 DEF Framed, Stop, balancerVars, AliveStep, BacklogStep, ChanStep, DueStep,
                    ExporterStep, ExportsStep, InboxStep, ListenerStep, PeersStep, ReceiverStep,
                    ServingStep, TableStep
<1>5. ASSUME NEW w \in Workers, AddPeer(w) PROVE Framed
    BY <1>5 DEF Framed, AddPeer, balancerVars, listenerVars, BacklogStep, DueStep, ExportsStep,
                    InboxStep, PeersStep, Reads
<1>6. ASSUME NEW w \in Workers, StoreRequest(w) PROVE Framed
    BY <1>6 DEF Framed, StoreRequest, balancerVars, streamVars, listenerVars, exportVars,
                    DueStep, InboxStep, ReceiverStep, TableStep, Reads
<1>7. ASSUME NEW w \in Workers, Notify(w) PROVE Framed
    BY <1>7 DEF Framed, Notify, SendPayload, balancerVars, listenerVars, exportVars, historyVars, ChanStep,
                    ReceiverStep
<1>8. ASSUME NEW w \in Workers, EndBroadcast(w) PROVE Framed
    BY <1>8 DEF Framed, EndBroadcast, balancerVars, streamVars, listenerVars, exportVars,
                    historyVars, ReceiverStep
<1>9. ASSUME NEW w \in Workers, RemoveDisconnectedPeer(w) PROVE Framed
    BY <1>9 DEF Framed, RemoveDisconnectedPeer, balancerVars, listenerVars, exportVars,
                    historyVars, PeersStep, ReceiverStep
<1>10. ASSUME NEW w \in Workers, Accept(w) PROVE Framed
    BY <1>10 DEF Framed, Accept, balancerVars, receiverVars, exportVars, historyVars,
                    BacklogStep, ServingStep
<1>11. ASSUME NEW w \in Workers, ReceiveEntry(w) PROVE Framed
    BY <1>11 DEF Framed, ReceiveEntry, balancerVars, receiverVars, exportVars, historyVars,
                    ChanStep, ListenerStep
<1>12. ASSUME NEW w \in Workers, ReceiveMark(w) PROVE Framed
    BY <1>12 DEF Framed, ReceiveMark, balancerVars, receiverVars, listenerVars, exportVars,
                    historyVars, ChanStep
<1>13. ASSUME NEW w \in Workers, SetEntry(w) PROVE Framed
    BY <1>13 DEF Framed, SetEntry, balancerVars, receiverVars, streamVars, exportVars,
                    historyVars, ListenerStep, TableStep
<1>14. ASSUME NEW w \in Workers, Disconnect(w) PROVE Framed
    BY <1>14 DEF Framed, Disconnect, balancerVars, receiverVars, streamVars, exportVars,
                    historyVars, ServingStep
<1>15. ASSUME NEW w \in Workers, TakeExport(w) PROVE Framed
    BY <1>15 DEF Framed, TakeExport, balancerVars, receiverVars, streamVars, listenerVars,
                    historyVars, ExporterStep, ExportsStep
<1>16. ASSUME NEW w \in Workers, SendStart(w) PROVE Framed
    BY <1>16 DEF Framed, SendStart, SendPayload, balancerVars, receiverVars, listenerVars, ChanStep,
                    ExporterStep, SnapshotStep
<1>17. ASSUME NEW w \in Workers, EnterBucket(w) PROVE Framed
    BY <1>17 DEF Framed, EnterBucket, balancerVars, receiverVars, streamVars, listenerVars,
                    historyVars, ExporterStep
<1>18. ASSUME NEW w \in Workers, SendEntry(w) PROVE Framed
    BY <1>18 DEF Framed, SendEntry, SendPayload, balancerVars, receiverVars, listenerVars, historyVars,
                    ChanStep, ExporterStep
<1>19. ASSUME NEW w \in Workers, SendEnd(w) PROVE Framed
    BY <1>19 DEF Framed, SendEnd, Mixes, balancerVars, receiverVars, listenerVars, historyVars,
                    ChanStep, ExporterStep
<1>20. ASSUME NEW w \in Workers, ExportFails(w) PROVE Framed
    BY <1>20 DEF Framed, ExportFails, balancerVars, receiverVars, listenerVars, historyVars,
                    ExporterStep
<1>21. ASSUME NEW w \in Workers, NEW k \in Keys, NEW p \in Puts, Dispatch(w, k, p) PROVE Framed
    BY <1>21 DEF Framed, Dispatch, receiverVars, streamVars, listenerVars, exportVars,
                    historyVars, AtStep, InboxStep
<1>22. ASSUME NEW w \in Workers, NotifyHeader(w) PROVE Framed
    BY <1>22 DEF Framed, NotifyHeader, SendHeader, Mixes, balancerVars, receiverVars,
                    listenerVars, exportVars, historyVars
<1>23. ASSUME NEW w \in Workers, ExportHeader(w) PROVE Framed
    BY <1>23 DEF Framed, ExportHeader, SendHeader, Mixes, balancerVars, receiverVars,
                    listenerVars, exportVars, historyVars
<1>24. ASSUME NEW w \in Workers, Misread(w) PROVE Framed
    BY <1>24 DEF Framed, Misread, balancerVars, receiverVars, streamVars, exportVars,
                    historyVars, ListenerStep, ServingStep
<1> QED
    BY <1>0, <1>1, <1>2, <1>3, <1>4, <1>5, <1>6, <1>7, <1>8, <1>9, <1>10,
       <1>11, <1>12, <1>13, <1>14, <1>15, <1>16, <1>17, <1>18, <1>19, <1>20, <1>21, <1>22,
       <1>23, <1>24
    DEF Next, Registers, Receives, Listens, Exports

-----------------------------------------------------------------------------
(* What the steps of a receiver do to its place in BroadcastData.          *)

\* Quiet is the place outside BroadcastData.
LEMMA QuietFields == ~Quiet.casting /\ Quiet.lost = << >> /\ Quiet.casting \in BOOLEAN
BY DEF Quiet

LEMMA StopEffect ==
    ASSUME TypeOK, NEW w \in Workers, Stop(w)
    PROVE  /\ ~receiver'[w].casting /\ receiver'[w].lost = << >>
           /\ \A u \in Workers : u # w => receiver'[u] = receiver[u]
BY QuietFields DEF Stop, TypeOK

LEMMA StoreRequestEffect ==
    ASSUME TypeOK, NEW w \in Workers, StoreRequest(w)
    PROVE  /\ Head(inbox[w]) \in Inbound
           /\ Head(inbox[w]).type = "store"
           /\ Head(inbox[w]).key \in Keys /\ Head(inbox[w]).put \in Puts
           /\ receiver'[w].casting /\ receiver'[w].next = 1 /\ receiver'[w].lost = << >>
           /\ receiver'[w].item = [key |-> Head(inbox[w]).key, put |-> Head(inbox[w]).put]
           /\ \A u \in Workers : u # w => receiver'[u] = receiver[u]
           /\ w \in alive /\ ~receiver[w].casting /\ receiver[w].lost = << >>
<1>1. Reads(w, "store")
    BY DEF StoreRequest
<1>2. /\ Head(inbox[w]) \in Inbound /\ Head(inbox[w]).type = "store"
      /\ Head(inbox[w]).key \in Keys /\ Head(inbox[w]).put \in Puts
    BY <1>1, ReadsType DEF Reads
<1> DEFINE r == [casting |-> TRUE,
                 item |-> [key |-> Head(inbox[w]).key, put |-> Head(inbox[w]).put],
                 next |-> 1, lost |-> << >>]
<1>3. receiver' = [receiver EXCEPT ![w] = r]
    BY DEF StoreRequest
<1>4. /\ r.casting /\ r.next = 1 /\ r.lost = << >>
      /\ r.item = [key |-> Head(inbox[w]).key, put |-> Head(inbox[w]).put]
    OBVIOUS
<1> HIDE DEF r
<1>5. receiver'[w] = r /\ \A u \in Workers : u # w => receiver'[u] = receiver[u]
    BY <1>3 DEF TypeOK
<1> QED BY <1>1, <1>2, <1>4, <1>5 DEF Reads

LEMMA NotifyEffect ==
    ASSUME TypeOK, NEW w \in Workers, Notify(w)
    PROVE  /\ receiver[w].casting /\ receiver'[w].casting
           /\ receiver'[w].item = receiver[w].item
           /\ receiver[w].next \in 1 .. Len(peers[w])
           /\ receiver'[w].next = receiver[w].next + 1
           /\ peers[w][receiver[w].next] \in Workers
           /\ \/ receiver'[w].lost = receiver[w].lost
              \/ /\ receiver'[w].lost = Append(receiver[w].lost, peers[w][receiver[w].next])
                 /\ ~Heard(w, peers[w][receiver[w].next])
                 /\ link[w][peers[w][receiver[w].next]] = "open"
           /\ \A u \in Workers : u # w => receiver'[u] = receiver[u]
<1> DEFINE i == receiver[w].next
           v == peers[w][i]
           r == receiver[w]
<1>1. i \in Nat \ {0} /\ i <= Len(peers[w]) /\ peers[w] \in Seq(Workers) /\ r.casting
    BY ReceiverTypes, WorkerTypes DEF Notify
<1>2. i \in 1 .. Len(peers[w]) /\ v \in Workers
    BY <1>1, Carried
<1>3. r \in [casting : BOOLEAN, item : Items, next : Nat \ {0}, lost : Seq(Workers)]
    BY ReceiverTypes
<1>4. \/ receiver' = [receiver EXCEPT ![w] = [r EXCEPT !.next = i + 1]]
      \/ /\ receiver' = [receiver EXCEPT ![w] =
                            [r EXCEPT !.next = i + 1, !.lost = Append(r.lost, v)]]
         /\ ~Heard(w, v) /\ link[w][v] = "open"
    BY DEF Notify, TypeOK
<1>5. receiver \in [Workers -> [casting : BOOLEAN, item : Items,
                                next : Nat \ {0}, lost : Seq(Workers)]]
    BY DEF TypeOK
<1> HIDE DEF i, v, r
<1>6. CASE receiver' = [receiver EXCEPT ![w] = [r EXCEPT !.next = i + 1]]
    <2>1. receiver'[w] = [r EXCEPT !.next = i + 1]
        BY <1>5, <1>6
    <2>2. /\ receiver'[w].casting = r.casting /\ receiver'[w].item = r.item
          /\ receiver'[w].next = i + 1 /\ receiver'[w].lost = r.lost
        BY <1>3, <2>1
    <2> QED BY <1>1, <1>2, <1>5, <1>6, <2>2 DEF i, v, r
<1>7. CASE /\ receiver' = [receiver EXCEPT ![w] =
                              [r EXCEPT !.next = i + 1, !.lost = Append(r.lost, v)]]
           /\ ~Heard(w, v) /\ link[w][v] = "open"
    <2>1. receiver'[w] = [r EXCEPT !.next = i + 1, !.lost = Append(r.lost, v)]
        BY <1>5, <1>7
    <2>2. /\ receiver'[w].casting = r.casting /\ receiver'[w].item = r.item
          /\ receiver'[w].next = i + 1 /\ receiver'[w].lost = Append(r.lost, v)
        BY <1>3, <2>1
    <2> QED BY <1>1, <1>2, <1>5, <1>7, <2>2 DEF i, v, r
<1> QED BY <1>4, <1>6, <1>7

LEMMA EndBroadcastEffect ==
    ASSUME TypeOK, NEW w \in Workers, EndBroadcast(w)
    PROVE  /\ ~receiver'[w].casting /\ receiver'[w].lost = receiver[w].lost
           /\ receiver[w].next > Len(peers[w])
           /\ \A u \in Workers : u # w => receiver'[u] = receiver[u]
<1> DEFINE r == receiver[w]
<1>1. r \in [casting : BOOLEAN, item : Items, next : Nat \ {0}, lost : Seq(Workers)]
    BY ReceiverTypes
<1>2. receiver' = [receiver EXCEPT ![w] =
                      [r EXCEPT !.casting = FALSE, !.item = Nothing, !.next = 1]]
    BY DEF EndBroadcast, TypeOK
<1> HIDE DEF r
<1>3. /\ receiver'[w] = [r EXCEPT !.casting = FALSE, !.item = Nothing, !.next = 1]
      /\ \A u \in Workers : u # w => receiver'[u] = receiver[u]
    BY <1>2 DEF TypeOK
<1>4. ~receiver'[w].casting /\ receiver'[w].lost = r.lost
    BY <1>1, <1>3
<1> QED BY <1>3, <1>4 DEF EndBroadcast, r

LEMMA RemovePeerEffect ==
    ASSUME TypeOK, NEW w \in Workers, RemoveDisconnectedPeer(w)
    PROVE  LET v == Head(receiver[w].lost)
           IN  /\ v \in Workers /\ v \in Range(receiver[w].lost)
               /\ ~receiver[w].casting /\ ~receiver'[w].casting
               /\ receiver'[w].item = receiver[w].item
               /\ Range(receiver'[w].lost) \subseteq Range(receiver[w].lost)
               /\ \A u \in Workers : u # w => receiver'[u] = receiver[u] /\ peers'[u] = peers[u]
               /\ Range(peers'[w]) \subseteq Range(peers[w])
               /\ Range(peers[w]) \subseteq Range(peers'[w]) \cup {v}
               /\ link'[w][v] = "closed"
               /\ \A x, y \in Workers : x # w \/ y # v => link'[x][y] = link[x][y]
<1> DEFINE v == Head(receiver[w].lost)
           r == receiver[w]
<1>1. receiver[w].lost \in Seq(Workers) /\ receiver[w].lost # << >>
    BY ReceiverTypes DEF RemoveDisconnectedPeer
<1>2. /\ v \in Workers /\ v \in Range(receiver[w].lost)
      /\ Range(Tail(receiver[w].lost)) \subseteq Range(receiver[w].lost)
    BY <1>1, Taken
<1>3. PICK i \in 1 .. Len(peers[w]) :
          peers[w][i] = v /\ peers' = [peers EXCEPT ![w] = RemoveAt(peers[w], i)]
    BY DEF RemoveDisconnectedPeer
<1>4. /\ Range(RemoveAt(peers[w], i)) \subseteq Range(peers[w])
      /\ Range(peers[w]) \subseteq Range(RemoveAt(peers[w], i)) \cup {v}
    BY <1>3, WorkerTypes, Removed
<1>5. peers'[w] = RemoveAt(peers[w], i) /\ \A u \in Workers : u # w => peers'[u] = peers[u]
    BY <1>3 DEF TypeOK
<1>6. receiver' = [receiver EXCEPT ![w] = [r EXCEPT !.lost = Tail(r.lost)]] /\ ~r.casting
    BY DEF RemoveDisconnectedPeer
<1>7. r \in [casting : BOOLEAN, item : Items, next : Nat \ {0}, lost : Seq(Workers)]
    BY ReceiverTypes
<1>8. /\ link' = [link EXCEPT ![w][v] = "closed"]
      /\ link \in [Workers -> [Workers -> {"none", "open", "closed"}]]
    BY DEF RemoveDisconnectedPeer, TypeOK
<1> HIDE DEF r
<1>9. /\ receiver'[w] = [r EXCEPT !.lost = Tail(r.lost)]
      /\ \A u \in Workers : u # w => receiver'[u] = receiver[u]
    BY <1>6 DEF TypeOK
<1>10. /\ ~receiver'[w].casting /\ receiver'[w].item = r.item
       /\ receiver'[w].lost = Tail(r.lost)
    BY <1>6, <1>7, <1>9
<1>11. /\ Range(receiver'[w].lost) \subseteq Range(receiver[w].lost)
       /\ receiver'[w].item = receiver[w].item /\ ~receiver[w].casting
    BY <1>2, <1>6, <1>10 DEF r
<1> HIDE DEF v
<1>12. /\ link'[w][v] = "closed"
       /\ \A x, y \in Workers : x # w \/ y # v => link'[x][y] = link[x][y]
    BY <1>2, <1>8, PairUpdated
<1>13. /\ Range(peers'[w]) \subseteq Range(peers[w])
       /\ Range(peers[w]) \subseteq Range(peers'[w]) \cup {v}
    BY <1>4, <1>5
<1> QED BY <1>2, <1>5, <1>9, <1>10, <1>11, <1>12, <1>13 DEF v

-----------------------------------------------------------------------------
(* The receiver: what it sends, and whom it gives up.                      *)

LEMMA CastsStep == TypeOK /\ CastsItems /\ Framed => CastsItems'
<1> SUFFICES ASSUME TypeOK, CastsItems, Framed, receiver' # receiver,
                    NEW u \in Workers, receiver'[u].casting
             PROVE  receiver'[u].item # Nothing
    BY DEF CastsItems
<1>1. PICK w \in Workers : \/ Stop(w) \/ StoreRequest(w) \/ Notify(w) \/ EndBroadcast(w)
                           \/ RemoveDisconnectedPeer(w)
    BY DEF Framed, ReceiverStep
<1>2. CASE u # w
    <2>1. receiver'[u] = receiver[u]
        BY <1>1, <1>2, StopEffect, StoreRequestEffect, NotifyEffect, EndBroadcastEffect,
           RemovePeerEffect
    <2> QED BY <2>1 DEF CastsItems
<1>3. CASE u = w /\ StoreRequest(w)
    <2>1. /\ receiver'[w].item = [key |-> Head(inbox[w]).key, put |-> Head(inbox[w]).put]
          /\ Head(inbox[w]).key \in Keys
        BY <1>3, StoreRequestEffect
    <2>2. receiver'[w].item.key \in Keys
        BY <2>1
    <2> QED BY <1>3, <2>2, ReplicationAssumption DEF Nothing
<1>4. CASE u = w /\ Notify(w)
    BY <1>4, NotifyEffect DEF CastsItems
<1> QED BY <1>1, <1>2, <1>3, <1>4, StopEffect, EndBroadcastEffect, RemovePeerEffect

\* Nobody is started again.
LEMMA AliveStepEffect ==
    ASSUME Framed
    PROVE  /\ alive' \subseteq alive
           /\ \A w \in Workers : Stop(w) => alive' = alive \ {w}
BY DEF Framed, AliveStep, Stop

LEMMA StillAlive ==
    ASSUME TypeOK, Framed, NEW w \in alive'
    PROVE  w \in Workers /\ w \in alive /\ ~Stop(w)
BY AliveStepEffect DEF TypeOK

\* No two messages from w to v were mixed.
Whole(w, v) == <<w, v>> \notin mixed

LEMMA WholeBefore == ASSUME Framed, NEW w, NEW v, Whole(w, v)' PROVE Whole(w, v)
BY DEF Framed, Whole

\* A connection is read by the peer's listener, or waits for it, as long as it
\* is open or something is on it.
LinksServed == \A w, v \in alive :
                  Whole(w, v) /\ link[w][v] = "open" => serving[v] = w \/ w \in Range(backlog[v])

LEMMA LinksHeard ==
    ASSUME LinksServed, NEW w \in alive, NEW v \in alive, Whole(w, v), link[w][v] = "open"
    PROVE  Heard(w, v)
BY DEF LinksServed, Heard

\* Only a peer that ended, or one messages to which were mixed, is given up.
LostAreGone == \A w, v \in alive : Whole(w, v) => v \notin Range(receiver[w].lost)

LEMMA LostStep == TypeOK /\ LostAreGone /\ LinksServed /\ Framed => LostAreGone'
<1> SUFFICES ASSUME TypeOK, LostAreGone, LinksServed, Framed, NEW u \in alive', NEW v \in alive',
                    Whole(u, v)'
             PROVE  v \notin Range(receiver'[u].lost)
    BY DEF LostAreGone
<1>1. u \in Workers /\ u \in alive /\ ~Stop(u) /\ v \in Workers /\ v \in alive /\ Whole(u, v)
    BY StillAlive, WholeBefore
<1>2. v \notin Range(receiver[u].lost)
    BY <1>1 DEF LostAreGone
<1>3. CASE receiver'[u] = receiver[u]
    BY <1>2, <1>3
<1>4. CASE receiver'[u] # receiver[u]
    <2>1. PICK w \in Workers : \/ Stop(w) \/ StoreRequest(w) \/ Notify(w) \/ EndBroadcast(w)
                               \/ RemoveDisconnectedPeer(w)
        BY <1>4 DEF Framed, ReceiverStep
    <2>2. u = w
        <3>1. CASE Stop(w) \/ StoreRequest(w) \/ EndBroadcast(w)
            BY <1>1, <1>4, <3>1, StopEffect, StoreRequestEffect, EndBroadcastEffect
        <3>2. CASE Notify(w)
            BY <1>1, <1>4, <3>2, NotifyEffect
        <3>3. CASE RemoveDisconnectedPeer(w)
            BY <1>1, <1>4, <3>3, RemovePeerEffect
        <3> QED BY <2>1, <3>1, <3>2, <3>3
    <2>3. CASE StoreRequest(w)
        <3>1. receiver'[u].lost = << >>
            BY <2>2, <2>3, StoreRequestEffect
        <3> QED BY <3>1 DEF Range
    <2>4. CASE Notify(w)
        <3>1. receiver[w].lost \in Seq(Workers) /\ peers[w][receiver[w].next] \in Workers
            BY <2>4, ReceiverTypes, NotifyEffect
        <3>2. Range(Append(receiver[w].lost, peers[w][receiver[w].next]))
                 = Range(receiver[w].lost) \cup {peers[w][receiver[w].next]}
            BY <3>1, Appended
        <3>3. \/ receiver'[w].lost = receiver[w].lost
              \/ /\ receiver'[w].lost = Append(receiver[w].lost, peers[w][receiver[w].next])
                 /\ ~Heard(w, peers[w][receiver[w].next])
                 /\ link[w][peers[w][receiver[w].next]] = "open"
            BY <2>4, NotifyEffect
        <3>4. link[w][v] = "open" => Heard(w, v)
            BY <1>1, <2>2, LinksHeard
        <3> QED BY <1>2, <2>2, <3>2, <3>3, <3>4
    <2>5. CASE EndBroadcast(w)
        BY <1>2, <2>2, <2>5, EndBroadcastEffect
    <2>6. CASE RemoveDisconnectedPeer(w)
        BY <1>2, <2>2, <2>6, RemovePeerEffect
    <2> QED BY <1>1, <2>1, <2>2, <2>3, <2>4, <2>5, <2>6
<1> QED BY <1>3, <1>4

-----------------------------------------------------------------------------
(* The hash tables.                                                        *)

LEMMA StoreTable ==
    ASSUME TypeOK, NEW w \in Workers, StoreRequest(w)
    PROVE  \A x \in Workers, y \in Keys :
              table'[x][y] = IF x = w /\ y = Head(inbox[w]).key THEN Head(inbox[w]).put
                             ELSE table[x][y]
<1> DEFINE k == Head(inbox[w]).key
           p == Head(inbox[w]).put
<1>1. k \in Keys /\ p \in Puts \cup {None}
    BY StoreRequestEffect
<1>2. /\ table' = [table EXCEPT ![w][k] = p]
      /\ table \in [Workers -> [Keys -> Puts \cup {None}]]
    BY DEF StoreRequest, TypeOK
<1> HIDE DEF k, p
<1>3. \A x \in Workers, y \in Keys : table'[x][y] = IF x = w /\ y = k THEN p ELSE table[x][y]
    BY ONLY <1>1, <1>2, PairUpdated, w \in Workers
<1> QED BY <1>3 DEF k, p

LEMMA SetEntryTable ==
    ASSUME TypeOK, NEW v \in Workers, SetEntry(v)
    PROVE  /\ listener[v].key \in Keys /\ listener[v].put \in Puts
           /\ \A x \in Workers, y \in Keys :
                 table'[x][y] = IF x = v /\ y = listener[v].key THEN listener[v].put
                                ELSE table[x][y]
           /\ listener'[v] = Nothing
           /\ \A u \in Workers : u # v => listener'[u] = listener[u]
<1> DEFINE k == listener[v].key
           p == listener[v].put
<1>1. k \in Keys /\ p \in Puts
    BY WorkerTypes DEF SetEntry, Items
<1>2. /\ table' = [table EXCEPT ![v][k] = p]
      /\ table \in [Workers -> [Keys -> Puts \cup {None}]]
    BY DEF SetEntry, TypeOK
<1>3. p \in Puts \cup {None}
    BY <1>1
<1> HIDE DEF k, p
<1>4. \A x \in Workers, y \in Keys : table'[x][y] = IF x = v /\ y = k THEN p ELSE table[x][y]
    BY ONLY <1>1, <1>2, <1>3, PairUpdated, v \in Workers
<1>5. listener'[v] = Nothing /\ \A u \in Workers : u # v => listener'[u] = listener[u]
    BY DEF SetEntry, TypeOK
<1> QED BY <1>1, <1>4, <1>5 DEF k, p

\* What a worker has stored it keeps as long as it runs.
LEMMA StoredGrows ==
    ASSUME TypeOK, Framed, NEW u \in Workers, ~Stop(u)
    PROVE  Stored(u) \subseteq Stored(u)'
<1>1. CASE table' = table
    BY <1>1 DEF Stored
<1>2. ASSUME NEW w \in Workers, StoreRequest(w) PROVE Stored(u) \subseteq Stored(u)'
    <2>1. Head(inbox[w]).put \in Puts
        BY <1>2, StoreRequestEffect
    <2>2. \A y \in Keys : table'[u][y] \in {table[u][y], Head(inbox[w]).put}
        BY <1>2, StoreTable
    <2> QED BY <2>1, <2>2, ReplicationAssumption DEF Stored
<1>3. ASSUME NEW w \in Workers, SetEntry(w) PROVE Stored(u) \subseteq Stored(u)'
    <2>1. listener[w].put \in Puts
        BY <1>3, SetEntryTable
    <2>2. \A y \in Keys : table'[u][y] \in {table[u][y], listener[w].put}
        BY <1>3, SetEntryTable
    <2> QED BY <2>1, <2>2, ReplicationAssumption DEF Stored
<1>4. ASSUME NEW w \in Workers, Stop(w), w # u PROVE Stored(u) \subseteq Stored(u)'
    BY <1>4 DEF Stop, TypeOK, Stored
<1> QED BY <1>1, <1>2, <1>3, <1>4 DEF Framed, TableStep

-----------------------------------------------------------------------------
(* What the steps of an export thread do.                                  *)

IdleFields == /\ Idle.pc = "idle" /\ Idle.target = None
              /\ Idle.todo = {} /\ Idle.bucket = 1

LEMMA IdleIsSo == IdleFields
BY DEF Idle, IdleFields

LEMMA TakeExportEffect ==
    ASSUME TypeOK, NEW w \in Workers, TakeExport(w)
    PROVE  /\ exporter[w].pc = "idle"
           /\ exports[w] # << >> /\ exports[w] \in Seq(Workers)
           /\ Head(exports[w]) \in Workers
           /\ exports'[w] = Tail(exports[w])
           /\ \A u \in Workers : u # w => exports'[u] = exports[u] /\ exporter'[u] = exporter[u]
           /\ \/ /\ exporter'[w] = Idle
                 /\ Stored(w) = {} \/ Head(exports[w]) \notin Connected(w)
              \/ /\ exporter'[w].pc = "start" /\ exporter'[w].target = Head(exports[w])
                 /\ exporter'[w].bucket = 1 /\ exporter'[w].todo = {}
                 /\ Head(exports[w]) \in Connected(w)
           /\ table' = table
<1> DEFINE e == [pc |-> "start", target |-> Head(exports[w]), bucket |-> 1, todo |-> {}]
<1>1. exports[w] \in Seq(Workers) /\ exports[w] # << >> /\ Head(exports[w]) \in Workers
    BY WorkerTypes, Taken DEF TakeExport
<1>2. /\ e.pc = "start" /\ e.target = Head(exports[w]) /\ e.bucket = 1 /\ e.todo = {}
    OBVIOUS
<1>3. exporter' = [exporter EXCEPT ![w] =
          IF Stored(w) # {} /\ Head(exports[w]) \in Connected(w) THEN e ELSE Idle]
    BY DEF TakeExport
<1> HIDE DEF e
<1>4. /\ exporter'[w] = IF Stored(w) # {} /\ Head(exports[w]) \in Connected(w) THEN e ELSE Idle
      /\ \A u \in Workers : u # w => exporter'[u] = exporter[u]
    BY <1>3 DEF TypeOK
<1>5. /\ exports'[w] = Tail(exports[w])
      /\ \A u \in Workers : u # w => exports'[u] = exports[u]
    BY DEF TakeExport, TypeOK
<1> QED BY <1>1, <1>2, <1>4, <1>5 DEF TakeExport

LEMMA SendStartEffect ==
    ASSUME TypeOK, NEW w \in Workers, SendStart(w)
    PROVE  /\ exporter[w].pc = "start" /\ exporter'[w].pc = "buckets"
           /\ exporter'[w].target = exporter[w].target
           /\ exporter'[w].bucket = exporter[w].bucket
           /\ exporter'[w].todo = exporter[w].todo
           /\ \A u \in Workers : u # w => exporter'[u] = exporter[u]
           /\ table' = table
<1> DEFINE e == exporter[w]
<1>1. e \in [pc : {"idle", "start", "buckets"}, target : Workers \cup {None},
             bucket : 1 .. Buckets + 1, todo : SUBSET Keys]
    BY ExporterTypes
<1>2. exporter' = [exporter EXCEPT ![w] = [e EXCEPT !.pc = "buckets"]]
    BY DEF SendStart
<1> HIDE DEF e
<1>3. /\ exporter'[w] = [e EXCEPT !.pc = "buckets"]
      /\ \A u \in Workers : u # w => exporter'[u] = exporter[u]
    BY <1>2 DEF TypeOK
<1>4. /\ exporter'[w].pc = "buckets" /\ exporter'[w].target = e.target
      /\ exporter'[w].bucket = e.bucket /\ exporter'[w].todo = e.todo
    BY <1>1, <1>3
<1> QED BY <1>3, <1>4 DEF e, SendStart

LEMMA EnterBucketEffect ==
    ASSUME TypeOK, NEW w \in Workers, EnterBucket(w)
    PROVE  /\ exporter[w].pc = "buckets" /\ exporter'[w].pc = "buckets"
           /\ exporter'[w].target = exporter[w].target
           /\ exporter[w].todo = {}
           /\ exporter'[w].bucket = exporter[w].bucket + 1
           /\ exporter'[w].todo = InBucket(w, exporter[w].bucket)
           /\ \A u \in Workers : u # w => exporter'[u] = exporter[u]
           /\ table' = table
<1> DEFINE e == exporter[w]
           b == exporter[w].bucket
           s == InBucket(w, exporter[w].bucket)
<1>1. e \in [pc : {"idle", "start", "buckets"}, target : Workers \cup {None},
             bucket : 1 .. Buckets + 1, todo : SUBSET Keys]
    BY ExporterTypes
<1>2. exporter' = [exporter EXCEPT ![w] = [e EXCEPT !.bucket = b + 1, !.todo = s]]
    BY DEF EnterBucket, TypeOK
<1> HIDE DEF e, b, s
<1>3. /\ exporter'[w] = [e EXCEPT !.bucket = b + 1, !.todo = s]
      /\ \A u \in Workers : u # w => exporter'[u] = exporter[u]
    BY <1>2 DEF TypeOK
<1>4. /\ exporter'[w].pc = e.pc /\ exporter'[w].target = e.target
      /\ exporter'[w].bucket = b + 1 /\ exporter'[w].todo = s
    BY <1>1, <1>3
<1> QED BY <1>3, <1>4 DEF e, b, s, EnterBucket

LEMMA SendEntryEffect ==
    ASSUME TypeOK, ExporterCoherent, NEW w \in Workers, SendEntry(w)
    PROVE  /\ exporter[w].pc = "buckets" /\ exporter[w].target \in Workers
           /\ exporter'[w].pc = exporter[w].pc /\ exporter'[w].target = exporter[w].target
           /\ exporter'[w].bucket = exporter[w].bucket
           /\ \E k \in exporter[w].todo :
                 /\ exporter'[w].todo = exporter[w].todo \ {k}
                 /\ Sends(w, exporter[w].target, Data("entry", k, table[w][k]))
                 /\ k \in Stored(w) /\ k \in Keys /\ table[w][k] \in Puts
           /\ \A u \in Workers : u # w => exporter'[u] = exporter[u]
           /\ table' = table
<1> DEFINE e == exporter[w]
<1>1. e \in [pc : {"idle", "start", "buckets"}, target : Workers \cup {None},
             bucket : 1 .. Buckets + 1, todo : SUBSET Keys]
    BY ExporterTypes
<1>2. PICK k \in exporter[w].todo :
          /\ exporter' = [exporter EXCEPT ![w] = [e EXCEPT !.todo = e.todo \ {k}]]
          /\ Sends(w, exporter[w].target, Data("entry", k, table[w][k]))
    BY DEF SendEntry, SendPayload
<1>3. k \in Stored(w) /\ k \in Keys
    BY BucketStored DEF ExporterCoherent
<1>4. table[w][k] \in Puts
    BY <1>3, WorkerTypes DEF Stored
<1>5. e.pc = "buckets" /\ e.target \in Workers
    BY <1>1, <1>2, IdleIsSo DEF ExporterCoherent, IdleFields
<1> HIDE DEF e
<1>6. /\ exporter'[w] = [e EXCEPT !.todo = e.todo \ {k}]
      /\ \A u \in Workers : u # w => exporter'[u] = exporter[u]
    BY <1>2 DEF TypeOK
<1>7. /\ exporter'[w].pc = e.pc /\ exporter'[w].target = e.target
      /\ exporter'[w].bucket = e.bucket /\ exporter'[w].todo = e.todo \ {k}
    BY <1>1, <1>6
<1>8. table' = table
    BY DEF SendEntry
<1> QED BY <1>2, <1>3, <1>4, <1>5, <1>6, <1>7, <1>8 DEF e

LEMMA ExportEndEffect ==
    ASSUME TypeOK, NEW w \in Workers, SendEnd(w) \/ ExportFails(w)
    PROVE  /\ exporter'[w] = Idle
           /\ \A u \in Workers : u # w => exporter'[u] = exporter[u]
           /\ table' = table
BY DEF SendEnd, ExportFails, TypeOK

LEMMA ExporterStepCoherent == TypeOK /\ ExporterCoherent /\ Framed => ExporterCoherent'
<1> DEFINE Coherent(u) ==
               /\ exporter[u].pc = "idle" => exporter[u] = Idle
               /\ exporter[u].pc # "idle" => exporter[u].target \in Workers
               /\ exporter[u].pc = "start" => exporter[u].bucket = 1 /\ exporter[u].todo = {}
               /\ exporter[u].todo \subseteq InBucket(u, exporter[u].bucket - 1)
<1> SUFFICES ASSUME TypeOK, ExporterCoherent, Framed, NEW u \in Workers PROVE Coherent(u)'
    BY DEF ExporterCoherent
<1>1. Coherent(u)
    BY DEF ExporterCoherent
<1>2. CASE Stop(u)
    <2>1. exporter'[u] = Idle
        BY <1>2 DEF Stop, TypeOK
    <2> QED BY <2>1, IdleIsSo DEF IdleFields
<1>3. CASE ~Stop(u) /\ exporter'[u] = exporter[u]
    <2>1. Stored(u) \subseteq Stored(u)'
        BY <1>3, StoredGrows
    <2>2. \A b : InBucket(u, b) \subseteq InBucket(u, b)'
        BY <2>1 DEF InBucket
    <2> QED BY <1>1, <1>3, <2>2
<1>4. CASE ~Stop(u) /\ exporter'[u] # exporter[u]
    <2>1. PICK w \in Workers : \/ Stop(w) \/ TakeExport(w) \/ SendStart(w) \/ EnterBucket(w)
                               \/ SendEntry(w) \/ SendEnd(w) \/ ExportFails(w)
        BY <1>4 DEF Framed, ExporterStep
    <2>2. w = u
        <3>1. CASE Stop(w)
            BY <1>4, <3>1 DEF Stop, TypeOK
        <3> QED BY <1>4, <2>1, <3>1, TakeExportEffect, SendStartEffect, EnterBucketEffect,
                   SendEntryEffect, ExportEndEffect
    <2>3. CASE TakeExport(w)
        BY <2>2, <2>3, TakeExportEffect, IdleIsSo DEF IdleFields
    <2>4. CASE SendStart(w)
        <3>1. exporter[w].todo = {} /\ exporter[w].target \in Workers
            BY <1>1, <2>2, <2>4, SendStartEffect
        <3> QED BY <2>2, <2>4, <3>1, SendStartEffect
    <2>5. CASE EnterBucket(w)
        <3>1. exporter[w].target \in Workers /\ (exporter[w].bucket + 1) - 1 = exporter[w].bucket
            BY <1>1, <2>2, <2>5, EnterBucketEffect, ExporterTypes
        <3> QED BY <2>2, <2>5, <3>1, EnterBucketEffect DEF InBucket, Stored
    <2>6. CASE SendEntry(w)
        BY <1>1, <2>2, <2>6, SendEntryEffect DEF InBucket, Stored
    <2>7. CASE SendEnd(w) \/ ExportFails(w)
        BY <2>2, <2>7, ExportEndEffect, IdleIsSo DEF IdleFields
    <2> QED BY <1>4, <2>1, <2>2, <2>3, <2>4, <2>5, <2>6, <2>7
<1> QED BY <1>2, <1>3, <1>4

-----------------------------------------------------------------------------
(* The messages from the load balancer.                                    *)

\* Reading takes the first message off.
LEMMA ReadsEffect ==
    ASSUME TypeOK, NEW w \in Workers, NEW type, Reads(w, type)
    PROVE  /\ w \in alive /\ inbox[w] # << >> /\ inbox[w] \in Seq(Inbound)
           /\ ~receiver[w].casting /\ receiver[w].lost = << >>
           /\ Head(inbox[w]).type = type
           /\ inbox'[w] = Tail(inbox[w])
           /\ \A v \in Workers : v # w => inbox'[v] = inbox[v]
BY WorkerTypes DEF Reads, TypeOK

\* What may happen to the messages of v in a step.
MailKept(v) == inbox'[v] = inbox[v] \/ inbox'[v] = << >>
MailRead(v) == /\ inbox[v] # << >> /\ inbox'[v] = Tail(inbox[v])
               /\ AddPeer(v) \/ StoreRequest(v)
MailIntroduced(v) == \E x \in Workers \ {v}, b \in BOOLEAN :
                        Introduce(x) /\ inbox'[v] = Append(inbox[v], Entry(x, b))
MailDispatched(v) == \E k \in Keys, p \in Puts :
                        Dispatch(v, k, p) /\ inbox'[v] = Append(inbox[v], Store(k, p))
MailListed(v) == \E m \in Seq(Inbound) :
                    /\ inbox'[v] = inbox[v] \o m
                    /\ \A i \in 1 .. Len(m) : \E x \in Workers : m[i] = Entry(x, FALSE)
                    /\ Introduce(v)

LEMMA MailStep ==
    ASSUME TypeOK, Framed, NEW v \in Workers
    PROVE  \/ MailKept(v) \/ MailRead(v) \/ MailIntroduced(v) \/ MailDispatched(v)
           \/ MailListed(v)
<1>1. CASE inbox' = inbox
    BY <1>1 DEF MailKept
<1>2. ASSUME NEW w \in Workers, Stop(w) PROVE MailKept(v)
    BY <1>2 DEF Stop, TypeOK, MailKept
<1>3. ASSUME NEW w \in Workers, AddPeer(w) \/ StoreRequest(w) PROVE MailKept(v) \/ MailRead(v)
    <2>1. Reads(w, "entry") \/ Reads(w, "store")
        BY <1>3 DEF AddPeer, StoreRequest
    <2> QED BY <1>3, <2>1, ReadsEffect DEF MailKept, MailRead
<1>4. ASSUME NEW w \in Workers, NEW k \in Keys, NEW p \in Puts, Dispatch(w, k, p)
      PROVE  MailKept(v) \/ MailDispatched(v)
    <2>1. inbox' = [inbox EXCEPT ![w] = Append(inbox[w], Store(k, p))]
        BY <1>4 DEF Dispatch
    <2>2. inbox'[v] = IF v = w THEN Append(inbox[w], Store(k, p)) ELSE inbox[v]
        BY <2>1 DEF TypeOK
    <2> QED BY <1>4, <2>2 DEF MailKept, MailDispatched
<1>5. ASSUME NEW w \in Workers, Introduce(w)
      PROVE  MailKept(v) \/ MailIntroduced(v) \/ MailListed(v)
    <2> DEFINE entries == [i \in 1 .. Len(list) |-> Entry(list[i], FALSE)]
               asked == v = list[IF list[1] = w THEN 2 ELSE 1]
    <2>1. /\ Len(list) \in Nat
          /\ \A i \in 1 .. Len(list) : list[i] \in Workers
          /\ \A i \in 1 .. Len(list) : Entry(list[i], FALSE) \in Inbound
        BY Carried DEF TypeOK, Entry, Inbound
    <2>2. entries \in [1 .. Len(list) -> Inbound]
        BY <2>1
    <2>3. \A i \in 1 .. Len(list) : entries[i] = Entry(list[i], FALSE)
        OBVIOUS
    <2> HIDE DEF entries
    <2>4. /\ entries \in Seq(Inbound) /\ Len(entries) = Len(list)
          /\ \A i \in 1 .. Len(entries) : \E x \in Workers : entries[i] = Entry(x, FALSE)
        <3>1. entries \in Seq(Inbound) /\ Len(entries) = Len(list)
            BY <2>1, <2>2, FunctionsAreSequences
        <3> QED BY <2>1, <2>3, <3>1
    <2>5. inbox'[v] = IF v \notin Members \cap alive THEN inbox[v]
                      ELSE IF v = w THEN inbox[w] \o entries
                      ELSE Append(inbox[v], Entry(w, asked))
        BY <1>5 DEF Introduce, entries
    <2>6. asked \in BOOLEAN
        OBVIOUS
    <2> HIDE DEF asked
    <2>7. CASE v \notin Members \cap alive
        BY <2>5, <2>7 DEF MailKept
    <2>8. CASE v \in Members \cap alive /\ v = w
        <3>1. inbox'[v] = inbox[v] \o entries
            BY <2>5, <2>8
        <3> QED BY <1>5, <2>4, <2>8, <3>1 DEF MailListed
    <2>9. CASE v \in Members \cap alive /\ v # w
        <3>1. inbox'[v] = Append(inbox[v], Entry(w, asked))
            BY <2>5, <2>9
        <3> QED BY <1>5, <2>6, <2>9, <3>1 DEF MailIntroduced
    <2> QED BY <2>7, <2>8, <2>9
<1> QED BY <1>1, <1>2, <1>3, <1>4, <1>5 DEF Framed, InboxStep

\* Where the messages come from.
LEMMA MailOrigin ==
    ASSUME TypeOK, Framed, NEW v \in Workers, NEW i \in 1 .. Len(inbox'[v])
    PROVE  \/ \E j \in 1 .. Len(inbox[v]) : inbox'[v][i] = inbox[v][j]
           \/ \E x \in Workers : inbox'[v][i] = Entry(x, FALSE)
           \/ \E x \in Workers \ {v} : Introduce(x) /\ inbox'[v][i] = Entry(x, TRUE)
           \/ \E k \in Keys, p \in Puts : Dispatch(v, k, p) /\ inbox'[v][i] = Store(k, p)
<1> DEFINE s == inbox[v]
           t == inbox'[v]
<1>1. s \in Seq(Inbound) /\ Len(s) \in Nat
    BY WorkerTypes, LenProperties
<1>2. CASE MailKept(v)
    <2>1. CASE t = s
        BY <2>1
    <2>2. CASE t = << >>
        BY <2>2
    <2> QED BY <1>2, <2>1, <2>2 DEF MailKept
<1>3. CASE MailRead(v)
    <2>1. /\ Len(s) \in Nat \ {0} /\ t = Tail(s) /\ Len(t) = Len(s) - 1
          /\ \A j \in 1 .. Len(s) - 1 : t[j] = s[j + 1]
        BY <1>1, <1>3, Taken DEF MailRead
    <2> HIDE DEF s, t
    <2>2. i \in 1 .. Len(s) - 1 /\ i + 1 \in 1 .. Len(s)
        BY <2>1 DEF t
    <2>3. t[i] = s[i + 1]
        BY <2>1, <2>2
    <2> QED BY <2>2, <2>3 DEF s, t
<1>4. ASSUME NEW x \in Inbound, t = Append(s, x)
      PROVE  t[i] = x \/ \E j \in 1 .. Len(s) : t[i] = s[j]
    <2>1. /\ Len(t) = Len(s) + 1 /\ t[Len(s) + 1] = x
          /\ \A j \in 1 .. Len(s) : t[j] = s[j]
        BY <1>1, <1>4, Appended
    <2> HIDE DEF s, t
    <2>2. i \in 1 .. Len(s) \/ i = Len(s) + 1
        BY <1>1, <2>1 DEF t
    <2> QED BY <2>1, <2>2
<1>5. CASE MailIntroduced(v)
    <2>1. PICK x \in Workers \ {v}, b \in BOOLEAN : Introduce(x) /\ t = Append(s, Entry(x, b))
        BY <1>5 DEF MailIntroduced
    <2>2. Entry(x, b) \in Inbound /\ b \in {TRUE, FALSE}
        BY DEF Entry, Inbound
    <2>3. t[i] = Entry(x, b) \/ \E j \in 1 .. Len(s) : t[i] = s[j]
        BY <1>4, <2>1, <2>2
    <2> QED BY <2>1, <2>2, <2>3
<1>6. CASE MailDispatched(v)
    <2>1. PICK k \in Keys, p \in Puts : Dispatch(v, k, p) /\ t = Append(s, Store(k, p))
        BY <1>6 DEF MailDispatched
    <2>2. Store(k, p) \in Inbound
        BY DEF Store, Inbound
    <2>3. t[i] = Store(k, p) \/ \E j \in 1 .. Len(s) : t[i] = s[j]
        BY <1>4, <2>1, <2>2
    <2> QED BY <2>1, <2>3
<1>7. CASE MailListed(v)
    <2>1. PICK m \in Seq(Inbound) :
              /\ t = s \o m
              /\ \A j \in 1 .. Len(m) : \E x \in Workers : m[j] = Entry(x, FALSE)
        BY <1>7 DEF MailListed
    <2>2. /\ Len(t) = Len(s) + Len(m) /\ Len(m) \in Nat
          /\ \A j \in 1 .. Len(s) + Len(m) : t[j] = IF j <= Len(s) THEN s[j] ELSE m[j - Len(s)]
        BY <1>1, <2>1, ConcatProperties, LenProperties
    <2> HIDE DEF s, t
    <2>3. i \in 1 .. Len(s) + Len(m)
        BY <2>2 DEF t
    <2>4. CASE i <= Len(s)
        <3>1. i \in 1 .. Len(s) /\ t[i] = s[i]
            BY <1>1, <2>2, <2>3, <2>4
        <3> QED BY <3>1 DEF s, t
    <2>5. CASE ~(i <= Len(s))
        <3>1. i - Len(s) \in 1 .. Len(m) /\ t[i] = m[i - Len(s)]
            BY <1>1, <2>2, <2>3, <2>5
        <3> QED BY <2>1, <3>1 DEF t
    <2> QED BY <2>4, <2>5
<1> QED BY <1>2, <1>3, <1>5, <1>6, <1>7, MailStep

\* A STORE is read by the worker it was dispatched to.
StoresBacked == \A w \in Workers : \A i \in 1 .. Len(inbox[w]) :
                   inbox[w][i].type = "store" => at[inbox[w][i].put] = w

\* What is dispatched stays so.
LEMMA AtKept ==
    ASSUME TypeOK, Framed, NEW p \in Puts, at[p] # None
    PROVE  at'[p] = at[p]
<1>1. CASE at' = at
    BY <1>1
<1>2. ASSUME NEW w \in Workers, NEW k \in Keys, NEW q \in Puts, Dispatch(w, k, q)
      PROVE  at'[p] = at[p]
    BY <1>2 DEF Dispatch, TypeOK
<1> QED BY <1>1, <1>2 DEF Framed, AtStep

LEMMA StoresStep == TypeOK /\ StoresBacked /\ Framed => StoresBacked'
<1> SUFFICES ASSUME TypeOK, StoresBacked, Framed, NEW w \in Workers,
                    NEW i \in 1 .. Len(inbox'[w]), inbox'[w][i].type = "store"
             PROVE  at'[inbox'[w][i].put] = w
    BY DEF StoresBacked
<1>1. ASSUME NEW j \in 1 .. Len(inbox[w]), inbox'[w][i] = inbox[w][j]
      PROVE  at'[inbox'[w][i].put] = w
    <2>1. inbox[w][j] \in Inbound /\ inbox[w][j].type = "store"
        BY <1>1, WorkerTypes, Carried
    <2>2. inbox[w][j].put \in Puts /\ at[inbox[w][j].put] = w
        BY <2>1, InboundFields DEF StoresBacked
    <2> QED BY <1>1, <2>2, AtKept, ReplicationAssumption
<1>2. ASSUME NEW x \in Workers, NEW b \in BOOLEAN, inbox'[w][i] = Entry(x, b) PROVE FALSE
    BY <1>2 DEF Entry
<1>3. ASSUME NEW k \in Keys, NEW p \in Puts, Dispatch(w, k, p), inbox'[w][i] = Store(k, p)
      PROVE  at'[inbox'[w][i].put] = w
    <2>1. inbox'[w][i].put = p
        BY <1>3 DEF Store
    <2>2. at'[p] = w
        BY <1>3 DEF Dispatch, TypeOK
    <2> QED BY <2>1, <2>2
<1> QED BY <1>1, <1>2, <1>3, MailOrigin

\* No worker is asked to export to itself.
AskedOfOthers == \A w \in Workers : \A i \in 1 .. Len(inbox[w]) : inbox[w][i] # Entry(w, TRUE)

LEMMA EntryFields ==
    \A x, y \in Workers : \A b, c \in BOOLEAN : Entry(x, b) = Entry(y, c) => x = y /\ b = c
BY DEF Entry

LEMMA AskedStep == TypeOK /\ AskedOfOthers /\ Framed => AskedOfOthers'
<1> SUFFICES ASSUME TypeOK, AskedOfOthers, Framed, NEW w \in Workers,
                    NEW i \in 1 .. Len(inbox'[w]), inbox'[w][i] = Entry(w, TRUE)
             PROVE  FALSE
    BY DEF AskedOfOthers
<1>1. ASSUME NEW k \in Keys, NEW p \in Puts, inbox'[w][i] = Store(k, p) PROVE FALSE
    BY <1>1 DEF Store, Entry
<1>2. ASSUME NEW x \in Workers, inbox'[w][i] = Entry(x, FALSE) PROVE FALSE
    BY <1>2, EntryFields
<1>3. ASSUME NEW x \in Workers \ {w}, inbox'[w][i] = Entry(x, TRUE) PROVE FALSE
    BY <1>3, EntryFields
<1>4. ASSUME NEW j \in 1 .. Len(inbox[w]), inbox'[w][i] = inbox[w][j] PROVE FALSE
    BY <1>4 DEF AskedOfOthers
<1> QED BY <1>1, <1>2, <1>3, <1>4, MailOrigin

-----------------------------------------------------------------------------
(* Connections.                                                            *)

\* A worker that ends leaves everything of the others as it is, but what they
\* owed to it.
LEMMA StopElsewhere ==
    ASSUME TypeOK, NEW w \in Workers, Stop(w), NEW x \in Workers \ {w}
    PROVE  /\ w \in alive /\ alive' = alive \ {w}
           /\ inbox'[x] = inbox[x] /\ peers'[x] = peers[x] /\ table'[x] = table[x]
           /\ backlog'[x] = backlog[x] /\ serving'[x] = serving[x] /\ listener'[x] = listener[x]
           /\ exports'[x] = exports[x] /\ exporter'[x] = exporter[x]
           /\ \A y \in Workers : link'[x][y] = link[x][y]
           /\ \A y \in Workers \ {w} : chan'[x][y] = chan[x][y] /\ due'[x][y] = due[x][y]
           /\ chan'[w][x] = chan[w][x] \/ chan'[w][x] = << >>
           /\ \A y \in Workers : due'[w][y] = {} /\ due'[y][w] = {}
<1>1. /\ w \in alive /\ alive' = alive \ {w}
      /\ inbox'[x] = inbox[x] /\ peers'[x] = peers[x] /\ table'[x] = table[x]
      /\ backlog'[x] = backlog[x] /\ serving'[x] = serving[x] /\ listener'[x] = listener[x]
      /\ exports'[x] = exports[x] /\ exporter'[x] = exporter[x]
    BY DEF Stop, TypeOK
<1>2. \A y \in Workers : link'[x][y] = link[x][y]
    BY DEF Stop, TypeOK
<1>3. PICK keep \in BOOLEAN :
          chan' = [u \in Workers |-> [v \in Workers |->
                      IF v = w \/ (u = w /\ ~keep) THEN << >> ELSE chan[u][v]]]
    BY DEF Stop
<1>4. /\ \A y \in Workers \ {w} : chan'[x][y] = chan[x][y]
      /\ chan'[w][x] = chan[w][x] \/ chan'[w][x] = << >>
    BY <1>3
<1>5. due' = [u \in Workers |-> [v \in Workers |-> IF w \in {u, v} THEN {} ELSE due[u][v]]]
    BY DEF Stop
<1>6. /\ \A y \in Workers \ {w} : due'[x][y] = due[x][y]
      /\ \A y \in Workers : due'[w][y] = {} /\ due'[y][w] = {}
    BY <1>5
<1> QED BY <1>1, <1>2, <1>4, <1>6

\* MSG_WORKER_ENTRY: the peer the message names, and whether to export to it.
Named(w) == Head(inbox[w]).peer
Asked(w) == Head(inbox[w]).export

LEMMA AddPeerEffect ==
    ASSUME TypeOK, NEW w \in Workers, AddPeer(w)
    PROVE  /\ w \in alive /\ inbox[w] # << >> /\ inbox[w] \in Seq(Inbound)
           /\ Named(w) \in Workers /\ Asked(w) \in BOOLEAN
           /\ Head(inbox[w]) = Entry(Named(w), Asked(w))
           /\ inbox'[w] = Tail(inbox[w])
           /\ Range(peers'[w]) = Range(peers[w]) \cup ({Named(w)} \ {w})
           /\ \A x \in Workers : x # w => peers'[x] = peers[x] /\ exports'[x] = exports[x]
           /\ exports'[w] = IF Asked(w) THEN Append(exports[w], Named(w)) ELSE exports[w]
           /\ due'[w][Named(w)] = IF Asked(w) THEN due[w][Named(w)] \cup Stored(w)
                                  ELSE due[w][Named(w)]
           /\ \A x, y \in Workers : x # w \/ y # Named(w) => link'[x][y] = link[x][y]
           /\ \A x, y \in Workers : x # w \/ y # Named(w) => due'[x][y] = due[x][y]
           /\ \A y \in Workers : y # Named(w) => backlog'[y] = backlog[y]
           /\ Named(w) # w /\ Named(w) \notin Range(peers[w]) /\ Named(w) \in alive
              => /\ link'[w][Named(w)] = "open"
                 /\ backlog'[Named(w)] = Append(backlog[Named(w)], w)
           /\ Named(w) = w \/ Named(w) \in Range(peers[w]) \/ Named(w) \notin alive
              => /\ link'[w][Named(w)] = link[w][Named(w)]
                 /\ backlog'[Named(w)] = backlog[Named(w)]
<1> DEFINE v == Named(w)
           asked == Asked(w)
           new == v # w /\ v \notin Range(peers[w])
           connects == new /\ v \in alive
<1>1. Reads(w, "entry")
    BY DEF AddPeer
<1>2. /\ w \in alive /\ inbox[w] # << >> /\ inbox[w] \in Seq(Inbound)
      /\ inbox'[w] = Tail(inbox[w])
      /\ Head(inbox[w]) \in Inbound /\ Head(inbox[w]).type = "entry"
      /\ v \in Workers /\ asked \in BOOLEAN
    BY <1>1, ReadsEffect, ReadsType DEF Named, Asked
<1>3. Head(inbox[w]) = Entry(v, asked)
    <2>1. Head(inbox[w]) \in [type : {"entry"}, peer : Workers, export : BOOLEAN]
        BY <1>2 DEF Inbound
    <2> QED BY <2>1 DEF Entry, Named, Asked
<1>4. /\ peers' = [peers EXCEPT ![w] = IF new THEN Append(peers[w], v) ELSE peers[w]]
      /\ link' = [link EXCEPT ![w][v] = IF connects THEN "open" ELSE link[w][v]]
      /\ backlog' = [backlog EXCEPT ![v] = IF connects THEN Append(backlog[v], w) ELSE backlog[v]]
      /\ exports' = [exports EXCEPT ![w] = IF asked THEN Append(exports[w], v) ELSE exports[w]]
      /\ due' = [due EXCEPT ![w][v] = IF asked THEN due[w][v] \cup Stored(w) ELSE due[w][v]]
    BY DEF AddPeer, Named, Asked
<1>5. /\ link \in [Workers -> [Workers -> {"none", "open", "closed"}]]
      /\ due \in [Workers -> [Workers -> SUBSET Keys]]
      /\ peers \in [Workers -> Seq(Workers)] /\ exports \in [Workers -> Seq(Workers)]
      /\ backlog \in [Workers -> Seq(Workers)]
    BY DEF TypeOK
<1>6. Range(Append(peers[w], v)) = Range(peers[w]) \cup {v}
    BY <1>2, WorkerTypes, Appended
<1> HIDE DEF v, asked
<1>7. Range(peers'[w]) = Range(peers[w]) \cup ({v} \ {w})
    <2>1. peers'[w] = IF new THEN Append(peers[w], v) ELSE peers[w]
        BY <1>4, <1>5
    <2> QED BY <1>6, <2>1
<1>8. /\ \A x \in Workers : x # w => peers'[x] = peers[x] /\ exports'[x] = exports[x]
      /\ exports'[w] = IF asked THEN Append(exports[w], v) ELSE exports[w]
      /\ \A y \in Workers : y # v => backlog'[y] = backlog[y]
      /\ backlog'[v] = IF connects THEN Append(backlog[v], w) ELSE backlog[v]
    BY <1>2, <1>4, <1>5
<1> HIDE DEF connects
<1>9. /\ \A x, y \in Workers : x # w \/ y # v => link'[x][y] = link[x][y]
      /\ link'[w][v] = IF connects THEN "open" ELSE link[w][v]
    <2>1. (IF connects THEN "open" ELSE link[w][v]) \in {"none", "open", "closed"}
        BY <1>2, PairTypes
    <2> QED BY <1>2, <1>4, <1>5, <2>1, PairUpdated
<1>10. /\ \A x, y \in Workers : x # w \/ y # v => due'[x][y] = due[x][y]
       /\ due'[w][v] = IF asked THEN due[w][v] \cup Stored(w) ELSE due[w][v]
    <2>1. (IF asked THEN due[w][v] \cup Stored(w) ELSE due[w][v]) \in SUBSET Keys
        BY <1>2, PairTypes, WorkerTypes
    <2> QED BY <1>2, <1>4, <1>5, <2>1, PairUpdated
<1> QED BY <1>2, <1>3, <1>7, <1>8, <1>9, <1>10 DEF connects, v, asked

LEMMA AddPeerElsewhere ==
    ASSUME TypeOK, NEW w \in Workers, AddPeer(w), NEW x \in Workers, x # w
    PROVE  peers'[x] = peers[x] /\ exports'[x] = exports[x]
BY DEF AddPeer, TypeOK

\* A connection is opened to a live peer, once.
LEMMA Connecting ==
    ASSUME TypeOK, NEW w \in Workers, AddPeer(w), NEW x \in Workers, NEW y \in Workers
    PROVE  /\ x # w => peers'[x] = peers[x]
           /\ Range(peers[x]) \subseteq Range(peers'[x])
           /\ y \in Range(peers'[x]) =>
                 y \in Range(peers[x]) \/ link'[x][y] = "open" \/ y \notin alive
           /\ \/ link'[x][y] = link[x][y]
              \/ x = w /\ link'[x][y] = "open" /\ backlog'[y] = Append(backlog[y], w)
           /\ backlog'[y] = backlog[y] \/ (backlog'[y] = Append(backlog[y], w) /\ y \in alive)
<1> DEFINE n == Named(w)
<1>1. /\ Range(peers'[w]) = Range(peers[w]) \cup ({n} \ {w})
      /\ \A z \in Workers : z # w => peers'[z] = peers[z]
      /\ \A z, u \in Workers : z # w \/ u # n => link'[z][u] = link[z][u]
      /\ \A u \in Workers : u # n => backlog'[u] = backlog[u]
    <2>1. Range(peers'[w]) = Range(peers[w]) \cup ({n} \ {w})
        BY AddPeerEffect
    <2>2. \A z \in Workers : z # w => peers'[z] = peers[z]
        BY AddPeerElsewhere
    <2>3. \A z, u \in Workers : z # w \/ u # n => link'[z][u] = link[z][u]
        BY AddPeerEffect
    <2>4. \A u \in Workers : u # n => backlog'[u] = backlog[u]
        BY AddPeerEffect
    <2> QED BY <2>1, <2>2, <2>3, <2>4
<1>2. /\ n # w /\ n \notin Range(peers[w]) /\ n \in alive
         => link'[w][n] = "open" /\ backlog'[n] = Append(backlog[n], w)
      /\ n = w \/ n \in Range(peers[w]) \/ n \notin alive
         => link'[w][n] = link[w][n] /\ backlog'[n] = backlog[n]
    BY AddPeerEffect
<1> HIDE DEF n
<1>3. x # w => peers'[x] = peers[x]
    BY <1>1
<1>4. Range(peers[x]) \subseteq Range(peers'[x])
    BY <1>1
<1>5. y \in Range(peers'[x]) => y \in Range(peers[x]) \/ link'[x][y] = "open" \/ y \notin alive
    BY <1>1, <1>2
<1>6. \/ link'[x][y] = link[x][y]
      \/ x = w /\ link'[x][y] = "open" /\ backlog'[y] = Append(backlog[y], w)
    BY <1>1, <1>2
<1>7. backlog'[y] = backlog[y] \/ (backlog'[y] = Append(backlog[y], w) /\ y \in alive)
    BY <1>1, <1>2
<1> QED BY <1>3, <1>4, <1>5, <1>6, <1>7

\* A worker that is gone reads no connection and has none waiting.
GoneAreDeaf == \A v \in Workers \ alive : serving[v] = None /\ backlog[v] = << >>

LEMMA DeafStep == TypeOK /\ GoneAreDeaf /\ Framed => GoneAreDeaf'
<1> SUFFICES ASSUME TypeOK, GoneAreDeaf, Framed, NEW v \in Workers \ alive'
             PROVE  serving'[v] = None /\ backlog'[v] = << >>
    BY DEF GoneAreDeaf
<1>1. CASE Stop(v)
    BY <1>1 DEF Stop, TypeOK
<1>2. CASE ~Stop(v)
    <2>0. \A w \in Workers : Stop(w) => v # w
        BY <1>2
    <2>1. v \notin alive
        <3>1. CASE alive' = alive
            BY <3>1
        <3>2. ASSUME NEW w \in Workers, Stop(w) PROVE v \notin alive
            BY <2>0, <3>2, AliveStepEffect DEF Stop
        <3> QED BY <3>1, <3>2 DEF Framed, AliveStep
    <2>2. serving[v] = None /\ backlog[v] = << >>
        BY <2>1 DEF GoneAreDeaf
    <2>3. serving'[v] = None
        <3>1. ASSUME NEW w \in Workers, Stop(w) PROVE serving'[v] = serving[v]
            BY <2>0, <3>1, StopElsewhere
        <3>2. ASSUME NEW w \in Workers, Accept(w) PROVE serving'[v] = serving[v]
            BY <2>2, <3>2 DEF Accept, TypeOK
        <3>3. ASSUME NEW w \in Workers, Disconnect(w) PROVE serving'[v] = serving[v]
            BY <2>2, <3>3 DEF Disconnect, TypeOK
        <3>4. ASSUME NEW w \in Workers, Misread(w) PROVE serving'[v] = serving[v]
            BY <2>2, <3>4 DEF Misread, TypeOK
        <3> QED BY <2>2, <3>1, <3>2, <3>3, <3>4 DEF Framed, ServingStep
    <2>4. backlog'[v] = << >>
        <3>1. ASSUME NEW w \in Workers, Stop(w) PROVE backlog'[v] = backlog[v]
            BY <2>0, <3>1, StopElsewhere
        <3>2. ASSUME NEW w \in Workers, Accept(w) PROVE backlog'[v] = backlog[v]
            BY <2>2, <3>2 DEF Accept, TypeOK
        <3>3. ASSUME NEW w \in Workers, AddPeer(w) PROVE backlog'[v] = backlog[v]
            BY <2>1, <3>3, Connecting
        <3> QED BY <2>2, <3>1, <3>2, <3>3 DEF Framed, BacklogStep
    <2> QED BY <2>3, <2>4
<1> QED BY <1>1, <1>2

\* The connection of a live worker to a live peer is open.
PeersLinked == \A w, v \in alive :
                  Whole(w, v) /\ v \in Range(peers[w]) => link[w][v] = "open"

\* A step never takes a worker that stays alive from the peers of another one.
LEMMA PeersStay ==
    ASSUME TypeOK, LostAreGone, Framed, NEW w \in alive', NEW v \in alive', Whole(w, v)'
    PROVE  /\ w \in Workers /\ v \in Workers /\ w \in alive /\ v \in alive /\ Whole(w, v)
           /\ link[w][v] = "open" => link'[w][v] = "open"
           /\ v \in Range(peers[w]) => v \in Range(peers'[w])
           /\ v \in Range(peers'[w]) => v \in Range(peers[w]) \/ link'[w][v] = "open"
<1>1. w \in Workers /\ v \in Workers /\ w \in alive /\ v \in alive /\ Whole(w, v)
    BY StillAlive, WholeBefore
<1>2. ASSUME NEW x \in Workers, Stop(x)
      PROVE  peers'[w] = peers[w] /\ link'[w][v] = link[w][v]
    <2>1. w # x /\ v # x
        BY <1>2, AliveStepEffect
    <2> QED BY <1>1, <1>2, <2>1, StopElsewhere
<1>3. ASSUME NEW x \in Workers, AddPeer(x)
      PROVE  /\ link[w][v] = "open" => link'[w][v] = "open"
             /\ v \in Range(peers[w]) => v \in Range(peers'[w])
             /\ v \in Range(peers'[w]) => v \in Range(peers[w]) \/ link'[w][v] = "open"
    <2>1. /\ Range(peers[w]) \subseteq Range(peers'[w])
          /\ v \in Range(peers'[w]) =>
                v \in Range(peers[w]) \/ link'[w][v] = "open" \/ v \notin alive
          /\ link'[w][v] = link[w][v] \/ link'[w][v] = "open"
        BY <1>1, <1>3, Connecting
    <2> QED BY <1>1, <2>1
<1>4. ASSUME NEW x \in Workers, RemoveDisconnectedPeer(x)
      PROVE  /\ link[w][v] = "open" => link'[w][v] = "open"
             /\ v \in Range(peers[w]) => v \in Range(peers'[w])
             /\ v \in Range(peers'[w]) => v \in Range(peers[w])
    <2> DEFINE u == Head(receiver[x].lost)
    <2>1. /\ u \in Range(receiver[x].lost)
          /\ \A y \in Workers : y # x => peers'[y] = peers[y]
          /\ Range(peers'[x]) \subseteq Range(peers[x])
          /\ Range(peers[x]) \subseteq Range(peers'[x]) \cup {u}
          /\ \A z, y \in Workers : z # x \/ y # u => link'[z][y] = link[z][y]
        BY <1>4, RemovePeerEffect
    <2>2. x = w => u # v
        BY <1>1, <2>1 DEF LostAreGone
    <2> HIDE DEF u
    <2> QED BY <1>1, <2>1, <2>2
<1>5. CASE peers' = peers /\ link' = link
    BY <1>1, <1>5
<1> QED BY <1>1, <1>2, <1>3, <1>4, <1>5 DEF Framed, PeersStep

LEMMA LinkedStep == TypeOK /\ LostAreGone /\ PeersLinked /\ Framed => PeersLinked'
BY PeersStay DEF PeersLinked

\* A connection that is served stays so.
LEMMA ServedKept ==
    ASSUME TypeOK, Framed, NEW w \in Workers, NEW v \in Workers, v \in alive', Whole(w, v),
           serving[v] = w \/ w \in Range(backlog[v]),
           link'[w][v] = "open" \/ chan[w][v] # << >>
    PROVE  serving'[v] = w \/ w \in Range(backlog'[v])
<1>1. ASSUME NEW x \in Workers, Stop(x)
      PROVE  serving'[v] = serving[v] /\ backlog'[v] = backlog[v]
    <2>1. v # x
        BY <1>1, AliveStepEffect
    <2> QED BY <1>1, <2>1, StopElsewhere
<1>2. ASSUME NEW x \in Workers, AddPeer(x)
      PROVE  serving'[v] = serving[v] /\ Range(backlog[v]) \subseteq Range(backlog'[v])
    <2>1. backlog'[v] = backlog[v] \/ backlog'[v] = Append(backlog[v], x)
        BY <1>2, Connecting
    <2>2. Range(Append(backlog[v], x)) = Range(backlog[v]) \cup {x}
        BY WorkerTypes, Appended
    <2>3. serving'[v] = serving[v]
        BY <1>2 DEF AddPeer, listenerVars
    <2> QED BY <2>1, <2>2, <2>3
<1>3. ASSUME NEW x \in Workers, Accept(x)
      PROVE  serving'[v] = w \/ w \in Range(backlog'[v])
    <2>1. CASE x # v
        BY <1>3, <2>1 DEF Accept, TypeOK
    <2>2. CASE x = v
        <3>1. /\ serving[v] = None /\ backlog[v] # << >> /\ backlog[v] \in Seq(Workers)
              /\ serving'[v] = Head(backlog[v]) /\ backlog'[v] = Tail(backlog[v])
            BY <1>3, <2>2 DEF Accept, TypeOK
        <3>2. Range(backlog[v]) = Range(Tail(backlog[v])) \cup {Head(backlog[v])}
            BY <3>1, Taken
        <3>3. w \in Range(backlog[v])
            BY <3>1, ReplicationAssumption
        <3> QED BY <3>1, <3>2, <3>3
    <2> QED BY <2>1, <2>2
<1>4. ASSUME NEW x \in Workers, Disconnect(x)
      PROVE  serving'[v] = w \/ w \in Range(backlog'[v])
    <2>1. /\ link' = link /\ backlog' = backlog /\ serving' = [serving EXCEPT ![x] = None]
          /\ link[serving[x]][x] = "closed" /\ chan[serving[x]][x] = << >>
        BY <1>4 DEF Disconnect, streamVars
    <2>2. x = v => serving[v] # w
        BY <2>1
    <2> QED BY <2>1, <2>2 DEF TypeOK
<1>5. ASSUME NEW x \in Workers, Misread(x)
      PROVE  serving'[v] = w \/ w \in Range(backlog'[v])
    <2>1. /\ backlog' = backlog /\ <<serving[x], x>> \in mixed
          /\ serving' = serving \/ serving' = [serving EXCEPT ![x] = None]
        BY <1>5 DEF Misread, streamVars
    <2>2. x = v => serving[v] # w
        BY <2>1 DEF Whole
    <2> QED BY <2>1, <2>2 DEF TypeOK
<1>6. CASE serving' = serving /\ backlog' = backlog
    BY <1>6
<1> QED BY <1>1, <1>2, <1>3, <1>4, <1>5, <1>6 DEF Framed, ServingStep, BacklogStep

LEMMA ServedStep == TypeOK /\ LinksServed /\ Framed => LinksServed'
<1> SUFFICES ASSUME TypeOK, LinksServed, Framed, NEW w \in alive', NEW v \in alive', Whole(w, v)',
                    link'[w][v] = "open"
             PROVE  serving'[v] = w \/ w \in Range(backlog'[v])
    BY DEF LinksServed
<1>1. w \in Workers /\ v \in Workers /\ w \in alive /\ v \in alive /\ Whole(w, v)
    BY StillAlive, WholeBefore
<1>2. ASSUME serving[v] = w \/ w \in Range(backlog[v])
      PROVE  serving'[v] = w \/ w \in Range(backlog'[v])
    BY <1>1, <1>2, ServedKept
<1>3. CASE link[w][v] = "open"
    BY <1>1, <1>2, <1>3 DEF LinksServed
<1>4. CASE link[w][v] # "open"
    <2>1. PICK x \in Workers : Stop(x) \/ AddPeer(x) \/ RemoveDisconnectedPeer(x)
        BY <1>4 DEF Framed, PeersStep
    <2>2. CASE Stop(x)
        <3>1. w # x /\ v # x
            BY <2>2, AliveStepEffect
        <3> QED BY <1>1, <1>4, <2>2, <3>1, StopElsewhere
    <2>3. CASE RemoveDisconnectedPeer(x)
        BY <1>1, <1>4, <2>3, RemovePeerEffect
    <2>4. CASE AddPeer(x)
        <3>1. x = w /\ backlog'[v] = Append(backlog[v], w)
            BY <1>1, <1>4, <2>4, Connecting
        <3>2. Range(Append(backlog[v], w)) = Range(backlog[v]) \cup {w}
            BY <1>1, WorkerTypes, Appended
        <3> QED BY <3>1, <3>2
    <2> QED BY <2>1, <2>2, <2>3, <2>4
<1> QED BY <1>3, <1>4

\* The first export request, and the export under way, of a live worker.
LEMMA TargetOrigin ==
    ASSUME TypeOK, ExporterCoherent, Framed, NEW w \in Workers, ~Stop(w), NEW v \in Workers,
           v \in Range(exports'[w]) \/ exporter'[w].target = v
    PROVE  \/ v \in Range(exports[w])
           \/ exporter[w].target = v
           \/ AddPeer(w) /\ Named(w) = v /\ Asked(w)
<1> SUFFICES ASSUME v \notin Range(exports[w]), exporter[w].target # v
             PROVE  AddPeer(w) /\ Named(w) = v /\ Asked(w)
    OBVIOUS
<1>1. exporter'[w].target # v
    <2>1. ASSUME NEW x \in Workers, x # w, Stop(x) PROVE exporter'[w] = exporter[w]
        BY <2>1, StopElsewhere
    <2>2. ASSUME NEW x \in Workers, TakeExport(x) PROVE exporter'[w].target # v
        <3>1. CASE x # w
            BY <2>2, <3>1, TakeExportEffect
        <3>2. CASE x = w
            <4>1. Head(exports[w]) # v
                BY <2>2, <3>2, Taken, TakeExportEffect
            <4> QED BY <2>2, <3>2, <4>1, TakeExportEffect, IdleIsSo, ReplicationAssumption
                    DEF IdleFields
        <3> QED BY <3>1, <3>2
    <2>3. ASSUME NEW x \in Workers, SendStart(x) \/ EnterBucket(x)
          PROVE  exporter'[w].target = exporter[w].target
        BY <2>3, SendStartEffect, EnterBucketEffect
    <2>4. ASSUME NEW x \in Workers, SendEntry(x) PROVE exporter'[w].target = exporter[w].target
        BY <2>4, SendEntryEffect
    <2>5. ASSUME NEW x \in Workers, SendEnd(x) \/ ExportFails(x)
          PROVE  exporter'[w] = exporter[w] \/ exporter'[w] = Idle
        BY <2>5, ExportEndEffect
    <2> QED BY <2>1, <2>2, <2>3, <2>4, <2>5, IdleIsSo, ReplicationAssumption
            DEF Framed, ExporterStep, IdleFields
<1>2. v \in Range(exports'[w])
    BY <1>1
<1>3. PICK x \in Workers : Stop(x) \/ AddPeer(x) \/ TakeExport(x)
    BY <1>2 DEF Framed, ExportsStep
<1>4. CASE Stop(x)
    BY <1>2, <1>4, StopElsewhere
<1>5. CASE TakeExport(x)
    <2>1. CASE x # w
        BY <1>2, <1>5, <2>1, TakeExportEffect
    <2>2. CASE x = w
        BY <1>2, <1>5, <2>2, TakeExportEffect, Taken
    <2> QED BY <2>1, <2>2
<1>6. CASE AddPeer(x)
    <2>1. CASE x # w
        BY <1>2, <1>6, <2>1, AddPeerElsewhere
    <2>2. CASE x = w
        <3>1. exports'[w] = IF Asked(w) THEN Append(exports[w], Named(w)) ELSE exports[w]
            BY <1>6, <2>2, AddPeerEffect
        <3>2. Named(w) \in Workers /\ Asked(w) \in BOOLEAN
            BY <1>6, <2>2, AddPeerEffect
        <3>3. Range(Append(exports[w], Named(w))) = Range(exports[w]) \cup {Named(w)}
            BY <3>2, WorkerTypes, Appended
        <3> QED BY <1>2, <1>6, <2>2, <3>1, <3>2, <3>3
    <2> QED BY <2>1, <2>2
<1> QED BY <1>3, <1>4, <1>5, <1>6

\* An export goes to a peer of the worker.
TargetsKnown == \A w, v \in alive :
                   Whole(w, v) /\ (v \in Range(exports[w]) \/ exporter[w].target = v)
                   => v \in Range(peers[w])

LEMMA TargetsStep ==
    TypeOK /\ ExporterCoherent /\ AskedOfOthers /\ LostAreGone /\ TargetsKnown /\ Framed
    => TargetsKnown'
<1> SUFFICES ASSUME TypeOK, ExporterCoherent, AskedOfOthers, LostAreGone, TargetsKnown, Framed,
                    NEW w \in alive', NEW v \in alive', Whole(w, v)',
                    v \in Range(exports'[w]) \/ exporter'[w].target = v
             PROVE  v \in Range(peers'[w])
    BY DEF TargetsKnown
<1>1. /\ w \in Workers /\ v \in Workers /\ w \in alive /\ v \in alive /\ Whole(w, v)
      /\ v \in Range(peers[w]) => v \in Range(peers'[w])
    BY PeersStay
<1>2. ~Stop(w)
    BY <1>1, AliveStepEffect
<1>3. CASE v \in Range(exports[w]) \/ exporter[w].target = v
    BY <1>1, <1>3 DEF TargetsKnown
<1>4. CASE AddPeer(w) /\ Named(w) = v /\ Asked(w)
    <2>1. /\ inbox[w] # << >> /\ inbox[w] \in Seq(Inbound)
          /\ Head(inbox[w]) = Entry(v, TRUE)
          /\ Range(peers'[w]) = Range(peers[w]) \cup ({v} \ {w})
        BY <1>1, <1>4, AddPeerEffect
    <2>2. Head(inbox[w]) = inbox[w][1] /\ 1 \in 1 .. Len(inbox[w])
        BY <2>1, Taken
    <2>3. v # w
        BY <1>1, <2>1, <2>2 DEF AskedOfOthers
    <2> QED BY <2>1, <2>3
<1> QED BY <1>1, <1>2, <1>3, <1>4, TargetOrigin

-----------------------------------------------------------------------------
(* What a worker undertakes to send, and what a value in its table is.     *)

\* A STORE is owed to the peers connected.
LEMMA StoreRequestDue ==
    ASSUME TypeOK, NEW w \in Workers, StoreRequest(w)
    PROVE  /\ \A v \in Workers : due'[w][v] = IF v \in Connected(w)
                                             THEN due[w][v] \cup {Head(inbox[w]).key}
                                             ELSE due[w][v]
           /\ \A x, y \in Workers : x # w => due'[x][y] = due[x][y]
<1> DEFINE row == [v \in Workers |-> IF v \in Connected(w)
                                     THEN due[w][v] \cup {Head(inbox[w]).key}
                                     ELSE due[w][v]]
<1>1. due' = [due EXCEPT ![w] = row]
    BY DEF StoreRequest
<1>2. \A v \in Workers : row[v] = IF v \in Connected(w) THEN due[w][v] \cup {Head(inbox[w]).key}
                                  ELSE due[w][v]
    OBVIOUS
<1> HIDE DEF row
<1>3. due'[w] = row /\ \A x \in Workers : x # w => due'[x] = due[x]
    BY <1>1 DEF TypeOK
<1> QED BY <1>2, <1>3

\* A key a live worker undertook to send it has.
DueStored == \A w \in alive, v \in Workers : due[w][v] \subseteq Stored(w)

LEMMA DueStoredStep == TypeOK /\ DueStored /\ Framed => DueStored'
<1> SUFFICES ASSUME TypeOK, DueStored, Framed, NEW w \in alive', NEW v \in Workers
             PROVE  due'[w][v] \subseteq Stored(w)'
    BY DEF DueStored
<1>1. w \in Workers /\ w \in alive /\ ~Stop(w)
    BY StillAlive
<1>2. Stored(w) \subseteq Stored(w)' /\ due[w][v] \subseteq Stored(w)
    BY <1>1, StoredGrows DEF DueStored
<1>3. CASE due' = due
    BY <1>2, <1>3
<1>4. ASSUME NEW x \in Workers, Stop(x) PROVE due'[w][v] \subseteq Stored(w)'
    <2>1. due'[w][v] = due[w][v] \/ due'[w][v] = {}
        BY <1>1, <1>4, StopElsewhere
    <2> QED BY <1>2, <2>1
<1>5. ASSUME NEW x \in Workers, AddPeer(x) PROVE due'[w][v] \subseteq Stored(w)'
    <2>1. due'[w][v] \subseteq due[w][v] \cup Stored(w)
        <3>1. CASE x # w \/ v # Named(x)
            <4>1. \A a, b \in Workers : a # x \/ b # Named(x) => due'[a][b] = due[a][b]
                BY <1>5, AddPeerEffect
            <4> QED BY <1>1, <3>1, <4>1
        <3>2. CASE x = w /\ v = Named(x)
            BY <1>1, <1>5, <3>2, AddPeerEffect
        <3> QED BY <3>1, <3>2
    <2> QED BY <1>2, <2>1
<1>6. ASSUME NEW x \in Workers, StoreRequest(x) PROVE due'[w][v] \subseteq Stored(w)'
    <2>1. CASE x # w
        BY <1>1, <1>2, <1>6, <2>1, StoreRequestDue
    <2>2. CASE x = w
        <3>1. due'[w][v] \subseteq due[w][v] \cup {Head(inbox[w]).key}
            BY <1>1, <1>6, <2>2, StoreRequestDue
        <3>2. Head(inbox[w]).key \in Keys /\ Head(inbox[w]).put \in Puts
            BY <1>1, <1>6, <2>2, StoreRequestEffect
        <3>3. table'[w][Head(inbox[w]).key] = Head(inbox[w]).put
            BY <1>1, <1>6, <2>2, <3>2, StoreTable
        <3>4. Head(inbox[w]).key \in Stored(w)'
            BY <3>2, <3>3, ReplicationAssumption DEF Stored
        <3> QED BY <1>2, <3>1, <3>4
    <2> QED BY <2>1, <2>2
<1> QED BY <1>3, <1>4, <1>5, <1>6 DEF Framed, DueStep

\* What a STORE sets was dispatched to the worker.
LEMMA StoredIsOwn ==
    ASSUME TypeOK, StoresBacked, NEW w \in Workers, StoreRequest(w)
    PROVE  at[Head(inbox[w]).put] = w
<1>1. Reads(w, "store")
    BY DEF StoreRequest
<1>2. inbox[w] # << >> /\ inbox[w] \in Seq(Inbound) /\ Head(inbox[w]).type = "store"
    BY <1>1, ReadsEffect
<1>3. Head(inbox[w]) = inbox[w][1] /\ 1 \in 1 .. Len(inbox[w])
    BY <1>2, Taken
<1> QED BY <1>2, <1>3 DEF StoresBacked

\* Bytes that are misread become an entry for a key that is not there, or none.
LEMMA MisreadEffect ==
    ASSUME TypeOK, NEW v \in Workers, Misread(v)
    PROVE  /\ listener[v] = Nothing
           /\ listener'[v] = Nothing \/ listener'[v].key \in Keys \ Stored(v)
           /\ \A x \in Workers : x # v => listener'[x] = listener[x]
           /\ table' = table
<1>1. listener[v] = Nothing /\ table' = table
    BY DEF Misread
<1>2. CASE UNCHANGED listener
    BY <1>1, <1>2
<1>3. CASE ~UNCHANGED listener
    <2>1. PICK k \in Keys \ Stored(v), p \in Puts :
              listener' = [listener EXCEPT ![v] = [key |-> k, put |-> p]]
        BY <1>3 DEF Misread
    <2>2. [key |-> k, put |-> p].key = k
        OBVIOUS
    <2> QED BY <1>1, <2>1, <2>2 DEF TypeOK
<1> QED BY <1>2, <1>3

\* When a listener is about to set a key that is there, a STORE set it.
OwnOverwritten == \A v \in Workers, k \in Keys :
                     listener[v].key = k /\ k \in Stored(v) => at[table[v][k]] = v

LEMMA OwnStep == TypeOK /\ StoresBacked /\ OwnOverwritten /\ Framed => OwnOverwritten'
<1> SUFFICES ASSUME TypeOK, StoresBacked, OwnOverwritten, Framed, NEW v \in Workers, NEW k \in Keys,
                    listener'[v].key = k, k \in Stored(v)'
             PROVE  at'[table'[v][k]] = v
    BY DEF OwnOverwritten
<1>0. Nothing.key = None /\ None \notin Keys /\ None \notin Puts /\ None \notin Workers
    BY ReplicationAssumption DEF Nothing
<1>1. table'[v][k] # None
    BY DEF Stored
<1>2. ASSUME NEW x \in Workers, StoreRequest(x), x = v, Head(inbox[x]).key = k
      PROVE  at'[table'[v][k]] = v
    <2>1. Head(inbox[v]).put \in Puts /\ at[Head(inbox[v]).put] = v
        BY <1>2, StoreRequestEffect, StoredIsOwn
    <2>2. table'[v][k] = Head(inbox[v]).put
        BY <1>2, StoreTable
    <2> QED BY <1>0, <2>1, <2>2, AtKept
<1>3. ASSUME table'[v][k] = table[v][k], listener'[v] = listener[v]
      PROVE  at'[table'[v][k]] = v
    <2>1. k \in Stored(v) /\ table[v][k] \in Puts
        BY <1>1, <1>3, WorkerTypes DEF Stored
    <2>2. at[table[v][k]] = v
        BY <1>3, <2>1 DEF OwnOverwritten
    <2> QED BY <1>0, <1>3, <2>1, <2>2, AtKept
<1>4. CASE listener'[v] # listener[v]
    <2>1. PICK x \in Workers : Stop(x) \/ ReceiveEntry(x) \/ SetEntry(x) \/ Misread(x)
        BY <1>4 DEF Framed, ListenerStep
    <2>2. listener'[v] # Nothing
        BY <1>0
    <2>3. ~Stop(x)
        <3>1. Stop(x) => listener' = [listener EXCEPT ![x] = Nothing]
            BY DEF Stop
        <3> QED BY <1>4, <2>2, <3>1 DEF TypeOK
    <2>4. ~SetEntry(x)
        BY <1>4, <2>2, SetEntryTable
    <2>5. CASE ReceiveEntry(x)
        <3>1. x = v
            BY <1>4, <2>5 DEF ReceiveEntry, TypeOK
        <3> DEFINE m == Head(chan[serving[v]][v])
        <3>2. /\ listener'[v] = IF m.key \in Stored(v) THEN Nothing
                                ELSE [key |-> m.key, put |-> m.put]
              /\ table' = table
            BY <2>5, <3>1 DEF ReceiveEntry, TypeOK
        <3>3. k \notin Stored(v)
            BY <2>2, <3>2
        <3> QED BY <1>1, <3>2, <3>3 DEF Stored
    <2>6. CASE Misread(x)
        <3>1. x = v
            BY <1>4, <2>6, MisreadEffect
        <3>2. k \notin Stored(v) /\ table' = table
            BY <2>2, <2>6, <3>1, MisreadEffect
        <3> QED BY <1>1, <3>2 DEF Stored
    <2> QED BY <2>1, <2>3, <2>4, <2>5, <2>6
<1>5. CASE listener'[v] = listener[v] /\ table'[v][k] # table[v][k]
    <2>1. PICK x \in Workers : Stop(x) \/ StoreRequest(x) \/ SetEntry(x)
        BY <1>5 DEF Framed, TableStep
    <2>2. CASE Stop(x)
        <3>1. CASE x = v
            BY <1>0, <2>2, <3>1 DEF Stop, TypeOK
        <3>2. CASE x # v
            BY <1>5, <2>2, <3>2, StopElsewhere
        <3> QED BY <3>1, <3>2
    <2>3. CASE SetEntry(x)
        BY <1>0, <1>5, <2>3, SetEntryTable
    <2>4. CASE StoreRequest(x)
        <3>1. x = v /\ Head(inbox[x]).key = k
            BY <1>5, <2>4, StoreTable
        <3> QED BY <1>2, <2>4, <3>1
    <2> QED BY <2>1, <2>2, <2>3, <2>4
<1> QED BY <1>3, <1>4, <1>5

\* A table is changed by a STORE, by an entry of a peer for a key that is not
\* there or was stored in between, or by the end of the process.
LEMMA KeptStep ==
    ASSUME TypeOK, StoresBacked, OwnOverwritten, Framed,
           NEW v \in alive \cap alive', NEW k \in Keys,
           table[v][k] # None, at[table[v][k]] # v, table'[v][k] # table[v][k]
    PROVE  receiver'[v].item = [key |-> k, put |-> table'[v][k]]
<1>1. v \in Workers /\ ~Stop(v) /\ k \in Stored(v)
    BY StillAlive DEF Stored
<1>2. PICK x \in Workers : Stop(x) \/ StoreRequest(x) \/ SetEntry(x)
    BY DEF Framed, TableStep
<1>3. CASE Stop(x)
    BY <1>1, <1>3, StopElsewhere
<1>4. CASE SetEntry(x)
    <2>1. x = v /\ listener[v].key = k
        BY <1>1, <1>4, SetEntryTable
    <2> QED BY <1>1, <2>1 DEF OwnOverwritten
<1>5. CASE StoreRequest(x)
    <2>1. x = v /\ Head(inbox[v]).key = k
        BY <1>1, <1>5, StoreTable
    <2>2. table'[v][k] = Head(inbox[v]).put
        BY <1>1, <1>5, <2>1, StoreTable
    <2> QED BY <1>5, <2>1, <2>2, StoreRequestEffect
<1> QED BY <1>2, <1>3, <1>4, <1>5

-----------------------------------------------------------------------------
(* The messages on a connection.                                           *)

\* A message that is sent, and not mixed with another, is the last one on its
\* connection.
LEMMA SendsEffect ==
    ASSUME TypeOK, NEW w \in Workers, NEW v \in Workers, NEW m, Sends(w, v, m)
    PROVE  /\ Whole(w, v)' => chan'[w][v] = Append(chan[w][v], m)
           /\ \A x, y \in Workers : chan'[x][y] # chan[x][y] =>
                 x = w /\ y = v /\ chan'[w][v] = Append(chan[w][v], m) /\ Whole(w, v)'
<1> DEFINE c == Append(chan[w][v], m)
<1>1. CASE ~Whole(w, v)'
    <2>1. chan' = chan
        BY <1>1 DEF Sends, Whole
    <2> QED BY <1>1, <2>1
<1>2. CASE Whole(w, v)'
    <2>1. chan' = [chan EXCEPT ![w][v] = c]
        BY <1>2 DEF Sends, Whole
    <2>2. chan \in [Workers -> [Workers -> Seq(Messages)]]
        BY DEF TypeOK
    <2> HIDE DEF c
    <2>3. \A x, y \in Workers : chan'[x][y] = IF x = w /\ y = v THEN c ELSE chan[x][y]
        BY <2>1, <2>2
    <2>4. chan'[w][v] = c /\ \A x, y \in Workers : chan'[x][y] # chan[x][y] => x = w /\ y = v
        BY <2>3
    <2> QED BY <1>2, <2>4 DEF c
<1> QED BY <1>1, <1>2

\* The listener takes the first message of the connection it serves.
LEMMA ReadingEffect ==
    ASSUME TypeOK, NEW v \in Workers, ReceiveEntry(v) \/ ReceiveMark(v)
    PROVE  /\ serving[v] \in Workers /\ chan[serving[v]][v] # << >>
           /\ chan[serving[v]][v] \in Seq(Messages)
           /\ listener[v] = Nothing
           /\ \A x, y \in Workers :
                 chan'[x][y] = IF x = serving[v] /\ y = v THEN Tail(chan[x][y]) ELSE chan[x][y]
<1> DEFINE u == serving[v]
           c == Tail(chan[u][v])
<1>1. Ready(v) /\ chan' = [chan EXCEPT ![u][v] = c]
    BY DEF ReceiveEntry, ReceiveMark
<1>2. u \in Workers /\ chan[u][v] # << >> /\ listener[v] = Nothing /\ chan[u][v] \in Seq(Messages)
    BY <1>1, ReadyTypes DEF Ready
<1>3. chan \in [Workers -> [Workers -> Seq(Messages)]]
    BY DEF TypeOK
<1> HIDE DEF u, c
<1>4. \A x, y \in Workers : chan'[x][y] = IF x = u /\ y = v THEN c ELSE chan[x][y]
    BY <1>1, <1>2, <1>3
<1> QED BY <1>2, <1>4 DEF u, c

\* An entry that is read is in the listener's hands, unless its key is there.
LEMMA ReceiveEntryEffect ==
    ASSUME TypeOK, NEW v \in Workers, ReceiveEntry(v)
    PROVE  /\ Head(chan[serving[v]][v]).key \in Stored(v)
              \/ listener'[v].key = Head(chan[serving[v]][v]).key
           /\ \A x \in Workers : x # v => listener'[x] = listener[x]
           /\ table' = table
<1> DEFINE m == Head(chan[serving[v]][v])
           e == [key |-> m.key, put |-> m.put]
<1>1. /\ listener' = [listener EXCEPT ![v] = IF m.key \in Stored(v) THEN Nothing ELSE e]
      /\ table' = table
    BY DEF ReceiveEntry
<1>2. e.key = m.key
    OBVIOUS
<1> HIDE DEF m, e
<1>3. /\ listener'[v] = IF m.key \in Stored(v) THEN Nothing ELSE e
      /\ \A x \in Workers : x # v => listener'[x] = listener[x]
    BY <1>1 DEF TypeOK
<1> QED BY <1>1, <1>2, <1>3 DEF m

\* A notification goes to the peer whose turn it is, and is passed over only
\* when nobody is at the other end of the connection or it is not open.
LEMMA NotifySends ==
    ASSUME TypeOK, CastsItems, NEW w \in Workers, Notify(w)
    PROVE  LET v == peers[w][receiver[w].next]
               m == Data("notify", receiver[w].item.key, receiver[w].item.put)
           IN  /\ m \in Messages /\ m.key = receiver[w].item.key /\ m.type = "notify"
               /\ v \in Workers
               /\ Sends(w, v, m) \/ (chan' = chan /\ (~Heard(w, v) \/ link[w][v] # "open"))
<1> DEFINE v == peers[w][receiver[w].next]
           m == Data("notify", receiver[w].item.key, receiver[w].item.put)
<1>1. receiver[w].casting /\ v \in Workers
    BY NotifyEffect
<1>2. receiver[w].item.key \in Keys /\ receiver[w].item.put \in Puts
    BY <1>1, ReceiverTypes DEF CastsItems, Items
<1>3. m \in Messages /\ m.key = receiver[w].item.key /\ m.type = "notify"
    BY <1>2 DEF Messages, Data
<1>4. Sends(w, v, m) \/ (chan' = chan /\ (~Heard(w, v) \/ link[w][v] # "open"))
    BY DEF Notify, SendPayload
<1> QED BY <1>1, <1>3, <1>4

\* What may happen to the messages from w to v in a step.
ChanRead(w, v) == /\ serving[v] = w
                  /\ chan[w][v] # << >> /\ chan'[w][v] = Tail(chan[w][v])
                  /\ ReceiveEntry(v) \/ ReceiveMark(v)
ChanLost(w, v) == Stop(w) /\ chan'[w][v] = << >>
ChanNotified(w, v) ==
    LET m == Data("notify", receiver[w].item.key, receiver[w].item.put)
    IN  /\ Notify(w) /\ m \in Messages /\ m.type = "notify"
        /\ chan'[w][v] = Append(chan[w][v], m)
ChanStarted(w, v) == SendStart(w) /\ exporter[w].target = v
                     /\ chan'[w][v] = Append(chan[w][v], Mark("start"))
ChanEntry(w, v) == /\ SendEntry(w) /\ exporter[w].target = v
                   /\ \E k \in exporter[w].todo :
                         /\ k \in Keys /\ table[w][k] \in Puts
                         /\ exporter'[w].todo = exporter[w].todo \ {k}
                         /\ chan'[w][v] = Append(chan[w][v], Data("entry", k, table[w][k]))
ChanEnded(w, v) == SendEnd(w) /\ exporter[w].target = v /\ Whole(w, v)
                   /\ chan'[w][v] = Append(chan[w][v], Mark("end"))

LEMMA ChanOrigin ==
    ASSUME TypeOK, CastsItems, ExporterCoherent, Framed,
           NEW w \in Workers, NEW v \in Workers, v \in alive', chan'[w][v] # chan[w][v]
    PROVE  \/ ChanRead(w, v) \/ ChanLost(w, v)
           \/ ChanNotified(w, v) \/ ChanStarted(w, v) \/ ChanEntry(w, v) \/ ChanEnded(w, v)
<1>1. PICK x \in Workers : \/ Stop(x) \/ Notify(x) \/ ReceiveEntry(x)
                           \/ ReceiveMark(x) \/ SendStart(x) \/ SendEntry(x) \/ SendEnd(x)
    BY DEF Framed, ChanStep
<1>2. CASE Stop(x)
    <2>1. v # x
        BY <1>2, AliveStepEffect
    <2>2. x = w /\ chan'[w][v] = << >>
        BY <1>2, <2>1, StopElsewhere
    <2> QED BY <1>2, <2>2 DEF ChanLost
<1>3. CASE ReceiveEntry(x) \/ ReceiveMark(x)
    <2>1. w = serving[x] /\ v = x /\ chan'[w][v] = Tail(chan[w][v])
        BY <1>3, ReadingEffect
    <2> QED BY <1>3, <2>1, ReadingEffect DEF ChanRead
<1>4. CASE Notify(x)
    <2> DEFINE m == Data("notify", receiver[x].item.key, receiver[x].item.put)
               y == peers[x][receiver[x].next]
    <2>1. Sends(x, y, m) /\ y \in Workers /\ m \in Messages /\ m.type = "notify"
        BY <1>4, NotifySends
    <2> HIDE DEF m, y
    <2>2. x = w /\ y = v /\ chan'[w][v] = Append(chan[w][v], m)
        BY <2>1, SendsEffect
    <2> QED BY <1>4, <2>1, <2>2 DEF ChanNotified, m
<1>5. CASE SendStart(x)
    <2>1. Sends(x, exporter[x].target, Mark("start")) /\ exporter[x].pc = "start"
        BY <1>5 DEF SendStart, SendPayload
    <2>2. exporter[x].target \in Workers
        BY <2>1 DEF ExporterCoherent
    <2>3. x = w /\ exporter[w].target = v /\ chan'[w][v] = Append(chan[w][v], Mark("start"))
        BY <2>1, <2>2, SendsEffect
    <2> QED BY <1>5, <2>3 DEF ChanStarted
<1>6. CASE SendEntry(x)
    <2>1. /\ exporter[x].target \in Workers
          /\ \E k \in exporter[x].todo :
                /\ exporter'[x].todo = exporter[x].todo \ {k}
                /\ Sends(x, exporter[x].target, Data("entry", k, table[x][k]))
                /\ k \in Stored(x) /\ k \in Keys /\ table[x][k] \in Puts
        BY <1>6, SendEntryEffect
    <2>2. PICK k \in exporter[x].todo :
             /\ exporter'[x].todo = exporter[x].todo \ {k}
             /\ Sends(x, exporter[x].target, Data("entry", k, table[x][k]))
             /\ k \in Keys /\ table[x][k] \in Puts
        BY <2>1
    <2>3. /\ x = w /\ exporter[w].target = v
          /\ chan'[w][v] = Append(chan[w][v], Data("entry", k, table[x][k]))
        BY <2>1, <2>2, SendsEffect
    <2> QED BY <1>6, <2>2, <2>3 DEF ChanEntry
<1>7. CASE SendEnd(x)
    <2>1. Sends(x, exporter[x].target, Mark("end")) /\ exporter[x].pc = "buckets"
        BY <1>7 DEF SendEnd
    <2>2. exporter[x].target \in Workers
        BY <2>1 DEF ExporterCoherent
    <2>3. /\ x = w /\ exporter[w].target = v /\ chan'[w][v] = Append(chan[w][v], Mark("end"))
          /\ Whole(w, v)'
        BY <2>1, <2>2, SendsEffect
    <2> QED BY <1>7, <2>3, WholeBefore DEF ChanEnded
<1> QED BY <1>1, <1>2, <1>3, <1>4, <1>5, <1>6, <1>7

-----------------------------------------------------------------------------
(* What has arrived.                                                       *)

\* v has the key, or its listener is about to set it.
Held(v, k) == k \in Stored(v) \/ listener[v].key = k

LEMMA HeldKept ==
    ASSUME TypeOK, Framed, NEW v \in alive', NEW k \in Keys, Held(v, k)
    PROVE  Held(v, k)'
<1>1. v \in Workers /\ ~Stop(v)
    BY StillAlive
<1>2. Stored(v) \subseteq Stored(v)'
    BY <1>1, StoredGrows
<1>3. CASE k \in Stored(v) \/ listener'[v] = listener[v]
    BY <1>2, <1>3 DEF Held
<1>4. CASE listener[v].key = k /\ listener'[v] # listener[v]
    <2>1. PICK x \in Workers : Stop(x) \/ ReceiveEntry(x) \/ SetEntry(x) \/ Misread(x)
        BY <1>4 DEF Framed, ListenerStep
    <2>2. CASE Stop(x)
        BY <1>1, <1>4, <2>2, StopElsewhere
    <2>3. CASE ReceiveEntry(x)
        <3>1. x = v
            BY <1>1, <1>4, <2>3, ReceiveEntryEffect
        <3>2. listener[v] = Nothing
            BY <1>1, <2>3, <3>1, ReadingEffect
        <3> QED BY <1>4, <3>2, ReplicationAssumption DEF Nothing
    <2>4. CASE SetEntry(x)
        <3>1. x = v /\ listener[v].put \in Puts
            BY <1>1, <1>4, <2>4, SetEntryTable
        <3>2. table'[v][k] = listener[v].put
            BY <1>1, <1>4, <2>4, <3>1, SetEntryTable
        <3> QED BY <3>1, <3>2, ReplicationAssumption DEF Held, Stored
    <2>5. CASE Misread(x)
        <3>1. x = v /\ listener[v] = Nothing
            BY <1>1, <1>4, <2>5, MisreadEffect
        <3> QED BY <1>4, <3>1, ReplicationAssumption DEF Nothing
    <2> QED BY <2>1, <2>2, <2>3, <2>4, <2>5
<1> QED BY <1>3, <1>4 DEF Held

\* v holds the key, or one of the first j - 1 messages from w carries it.
Arrives(w, v, k, j) == Held(v, k) \/ \E i \in 1 .. j - 1 : chan[w][v][i].key = k

\* What is sent later changes nothing about what is on the connection.
LEMMA ArrivesSent ==
    ASSUME TypeOK, Framed, NEW w \in Workers, NEW v \in alive', NEW k \in Keys,
           NEW j \in 1 .. Len(chan[w][v]) + 1, Arrives(w, v, k, j),
           \/ chan'[w][v] = chan[w][v]
           \/ \E m \in Messages : chan'[w][v] = Append(chan[w][v], m)
    PROVE  /\ Arrives(w, v, k, j)'
           /\ Len(chan[w][v]) <= Len(chan'[w][v])
<1>1. v \in Workers
    BY StillAlive
<1>2. chan[w][v] \in Seq(Messages) /\ Len(chan[w][v]) \in Nat
    BY <1>1, PairTypes
<1>3. /\ Len(chan[w][v]) <= Len(chan'[w][v])
      /\ \A i \in 1 .. Len(chan[w][v]) : chan'[w][v][i] = chan[w][v][i]
    <2>1. CASE chan'[w][v] = chan[w][v]
        BY <1>2, <2>1
    <2>2. ASSUME NEW m \in Messages, chan'[w][v] = Append(chan[w][v], m)
          PROVE  /\ Len(chan[w][v]) <= Len(chan'[w][v])
                 /\ \A i \in 1 .. Len(chan[w][v]) : chan'[w][v][i] = chan[w][v][i]
        <3>1. /\ Len(chan'[w][v]) = Len(chan[w][v]) + 1
              /\ \A i \in 1 .. Len(chan[w][v]) : chan'[w][v][i] = chan[w][v][i]
            BY <1>2, <2>2, Appended
        <3> QED BY <1>2, <3>1
    <2> QED BY <2>1, <2>2
<1>4. CASE Held(v, k)
    BY <1>3, <1>4, HeldKept DEF Arrives
<1>5. CASE \E i \in 1 .. j - 1 : chan[w][v][i].key = k
    <2>1. PICK i \in 1 .. j - 1 : chan[w][v][i].key = k
        BY <1>5
    <2>2. i \in 1 .. Len(chan[w][v])
        BY <1>2, <2>1
    <2>3. chan'[w][v][i].key = k
        BY <1>3, <2>1, <2>2
    <2> QED BY <1>3, <2>1, <2>3 DEF Arrives
<1> QED BY <1>4, <1>5 DEF Arrives

\* What is read is held, and the rest moves up.
LEMMA ArrivesRead ==
    ASSUME TypeOK, Framed, NEW w \in Workers, NEW v \in alive', NEW k \in Keys,
           NEW j \in 2 .. Len(chan[w][v]) + 1, Arrives(w, v, k, j), ChanRead(w, v)
    PROVE  Arrives(w, v, k, j - 1)'
<1>1. v \in Workers
    BY StillAlive
<1>2. chan[w][v] \in Seq(Messages) /\ chan[w][v] # << >> /\ chan'[w][v] = Tail(chan[w][v])
    BY <1>1, PairTypes DEF ChanRead
<1>3. /\ Head(chan[w][v]) = chan[w][v][1] /\ Head(chan[w][v]) \in Messages
      /\ Len(chan[w][v]) \in Nat \ {0}
      /\ \A i \in 1 .. Len(chan[w][v]) - 1 : chan'[w][v][i] = chan[w][v][i + 1]
    BY <1>2, Taken
<1>4. CASE Held(v, k)
    BY <1>4, HeldKept DEF Arrives
<1>5. CASE \E i \in 1 .. j - 1 : chan[w][v][i].key = k
    <2>1. PICK i \in 1 .. j - 1 : chan[w][v][i].key = k
        BY <1>5
    <2>2. CASE i = 1
        <3>1. Head(chan[w][v]).put # None /\ Head(chan[w][v]).key = k
            BY <1>3, <2>1, <2>2, ReplicationAssumption DEF Messages
        <3>2. ReceiveEntry(v) /\ serving[v] = w
            BY <3>1 DEF ChanRead, ReceiveMark
        <3>3. k \in Stored(v) \/ listener'[v].key = k
            BY <1>1, <3>1, <3>2, ReceiveEntryEffect
        <3>4. Stored(v) \subseteq Stored(v)'
            BY <1>1, <3>2, ReceiveEntryEffect DEF Stored
        <3> QED BY <3>3, <3>4 DEF Arrives, Held
    <2>3. CASE i # 1
        <3>1. /\ i - 1 \in 1 .. (j - 1) - 1 /\ i - 1 \in 1 .. Len(chan[w][v]) - 1
              /\ (i - 1) + 1 = i
            <4>1. PICK n \in Nat : n = Len(chan[w][v]) /\ j \in 2 .. n + 1
                BY <1>3
            <4> QED BY ONLY <2>3, <4>1, i \in 1 .. j - 1
        <3>2. chan'[w][v][i - 1].key = k
            BY <1>3, <2>1, <3>1
        <3> QED BY <3>1, <3>2 DEF Arrives
    <2> QED BY <2>2, <2>3
<1> QED BY <1>4, <1>5 DEF Arrives

\* The connection of a worker that runs is read at its front or grows.
LEMMA ChanGrows ==
    ASSUME TypeOK, CastsItems, ExporterCoherent, Framed,
           NEW w \in Workers, NEW v \in Workers, ~Stop(w), v \in alive'
    PROVE  \/ chan'[w][v] = chan[w][v]
           \/ \E m \in Messages : chan'[w][v] = Append(chan[w][v], m)
           \/ ChanRead(w, v)
<1>1. ~ChanLost(w, v)
    BY DEF ChanLost
<1>2. Mark("start") \in Messages /\ Mark("end") \in Messages
    BY DEF Mark, Messages
<1>3. \A k \in Keys, p \in Puts : Data("entry", k, p) \in Messages
    BY DEF Data, Messages
<1>4. ChanNotified(w, v) \/ ChanStarted(w, v) \/ ChanEntry(w, v) \/ ChanEnded(w, v)
        => \E m \in Messages : chan'[w][v] = Append(chan[w][v], m)
    BY <1>2, <1>3 DEF ChanNotified, ChanStarted, ChanEntry, ChanEnded
<1> QED BY <1>1, <1>4, ChanOrigin

\* A key that arrives over a connection that is served is not lost.
Served(w, v) == serving[v] = w \/ w \in Range(backlog[v])
Coming(w, v, k) == \/ Held(v, k)
                   \/ Served(w, v) /\ \E i \in 1 .. Len(chan[w][v]) : chan[w][v][i].key = k

LEMMA ComingKept ==
    ASSUME TypeOK, CastsItems, ExporterCoherent, Framed,
           NEW w \in alive', NEW v \in alive', NEW k \in Keys, Whole(w, v)', Coming(w, v, k)
    PROVE  Coming(w, v, k)'
<1>1. w \in Workers /\ v \in Workers /\ ~Stop(w) /\ ~Stop(v) /\ Whole(w, v)
    BY StillAlive, WholeBefore
<1>2. CASE Held(v, k)
    BY <1>2, HeldKept DEF Coming
<1>3. CASE Served(w, v) /\ \E i \in 1 .. Len(chan[w][v]) : chan[w][v][i].key = k
    <2>1. Len(chan[w][v]) \in Nat \ {0} /\ chan[w][v] # << >> /\ chan[w][v] \in Seq(Messages)
        <3>1. chan[w][v] \in Seq(Messages) /\ Len(chan[w][v]) \in Nat
            BY <1>1, PairTypes
        <3>2. Len(chan[w][v]) # 0
            BY <1>3, <3>1
        <3> QED BY <3>1, <3>2, EmptySeq
    <2>2. Served(w, v)'
        BY <1>1, <1>3, <2>1, ServedKept DEF Served
    <2>3. PICK n \in Nat \ {0} : n = Len(chan[w][v])
        BY <2>1
    <2>4. /\ n + 1 \in 1 .. Len(chan[w][v]) + 1 /\ n + 1 \in 2 .. Len(chan[w][v]) + 1
          /\ (n + 1) - 1 = n
        BY <2>3
    <2>5. Arrives(w, v, k, n + 1)
        BY <1>3, <2>3, <2>4 DEF Arrives
    <2>6. Len(chan'[w][v]) \in Nat \/ chan'[w][v] = chan[w][v]
        <3>1. ASSUME NEW m \in Messages, chan'[w][v] = Append(chan[w][v], m)
              PROVE  Len(chan'[w][v]) \in Nat
            BY <2>1, <3>1, Appended
        <3>2. CASE ChanRead(w, v)
            BY <2>1, <3>2, Taken DEF ChanRead
        <3> QED BY <1>1, <3>1, <3>2, ChanGrows
    <2>7. CASE \/ chan'[w][v] = chan[w][v]
               \/ \E m \in Messages : chan'[w][v] = Append(chan[w][v], m)
        <3>1. Arrives(w, v, k, n + 1)' /\ Len(chan[w][v]) <= Len(chan'[w][v])
            BY <1>1, <2>4, <2>5, <2>7, ArrivesSent
        <3>2. 1 .. n \subseteq 1 .. Len(chan'[w][v])
            BY <2>1, <2>3, <2>6, <3>1
        <3> QED BY <2>2, <2>4, <3>1, <3>2 DEF Arrives, Coming
    <2>8. CASE ChanRead(w, v)
        <3>1. Arrives(w, v, k, n)'
            <4>1. Arrives(w, v, k, (n + 1) - 1)'
                BY <1>1, <2>4, <2>5, <2>8, ArrivesRead
            <4> QED BY <2>4, <4>1
        <3>2. Len(chan'[w][v]) = n - 1
            BY <2>1, <2>3, <2>8, Taken DEF ChanRead
        <3> QED BY <2>2, <3>1, <3>2 DEF Arrives, Coming
    <2> QED BY <1>1, <2>7, <2>8, ChanGrows
<1> QED BY <1>2, <1>3 DEF Coming

\* A message sent over an open connection is on its way.
LEMMA SentComing ==
    ASSUME TypeOK, LostAreGone, LinksServed, Framed, NEW w \in alive', NEW v \in alive',
           NEW k \in Keys, Whole(w, v)', link[w][v] = "open",
           NEW m \in Messages, m.key = k, chan'[w][v] = Append(chan[w][v], m)
    PROVE  Coming(w, v, k)'
<1>1. /\ w \in Workers /\ v \in Workers /\ w \in alive /\ v \in alive /\ Whole(w, v)
      /\ link'[w][v] = "open"
    BY PeersStay
<1>2. Served(w, v)'
    <2>1. serving[v] = w \/ w \in Range(backlog[v])
        BY <1>1 DEF LinksServed
    <2> QED BY <1>1, <2>1, ServedKept DEF Served
<1>3. /\ Len(chan[w][v]) \in Nat /\ Len(chan'[w][v]) = Len(chan[w][v]) + 1
      /\ chan'[w][v][Len(chan[w][v]) + 1] = m
    BY <1>1, PairTypes, Appended
<1>4. Len(chan[w][v]) + 1 \in 1 .. Len(chan'[w][v])
    BY <1>3
<1> QED BY <1>2, <1>3, <1>4 DEF Coming

-----------------------------------------------------------------------------
(* What a worker undertook to send is at the peer or on its way.           *)

\* w's broadcast of k has v before it; w's export has v before it, and is
\* not yet through with k.
Casting(w, v, k) == /\ receiver[w].casting
                    /\ receiver[w].item.key = k
                    /\ \E i \in receiver[w].next .. Len(peers[w]) : peers[w][i] = v
Exporting(w, v, k) == /\ exporter[w].target = v
                      /\ \/ exporter[w].pc = "start"
                         \/ k \in exporter[w].todo
                         \/ BucketOf[k] >= exporter[w].bucket
Underway(w, v, k) == \/ Coming(w, v, k)
                     \/ Casting(w, v, k)
                     \/ v \in Range(exports[w])
                     \/ Exporting(w, v, k)

LEMMA UnderwayIs ==
    ASSUME NEW w, NEW v, NEW k
    PROVE  k \in Stored(v) \/ OnItsWay(w, v, k) <=> Underway(w, v, k)
BY DEF OnItsWay, Underway, Coming, Held, Served, Casting, Exporting

\* The peers stay in their places while a broadcast runs.
LEMMA CastingHolds ==
    ASSUME TypeOK, Framed, NEW w \in Workers, ~Stop(w), receiver[w].casting
    PROVE  peers'[w] = peers[w]
<1>1. ASSUME NEW x \in Workers, Stop(x) PROVE peers'[w] = peers[w]
    BY <1>1, StopElsewhere
<1>2. ASSUME NEW x \in Workers, AddPeer(x) PROVE peers'[w] = peers[w]
    <2>1. Reads(x, "entry")
        BY <1>2 DEF AddPeer
    <2>2. x # w
        BY <2>1 DEF Reads
    <2> QED BY <1>2, <2>2, Connecting
<1>3. ASSUME NEW x \in Workers, RemoveDisconnectedPeer(x) PROVE peers'[w] = peers[w]
    BY <1>3, RemovePeerEffect
<1> QED BY <1>1, <1>2, <1>3 DEF Framed, PeersStep

LEMMA CastingKept ==
    ASSUME TypeOK, CastsItems, LostAreGone, PeersLinked, LinksServed, Framed,
           NEW w \in alive', NEW v \in alive', NEW k \in Keys, Whole(w, v)', Casting(w, v, k)
    PROVE  Underway(w, v, k)'
<1>1. /\ w \in Workers /\ v \in Workers /\ w \in alive /\ v \in alive /\ ~Stop(w)
      /\ Whole(w, v) /\ receiver[w].casting /\ receiver[w].item.key = k
    BY StillAlive, WholeBefore DEF Casting
<1>2. peers'[w] = peers[w]
    BY <1>1, CastingHolds
<1>3. PICK i \in receiver[w].next .. Len(peers[w]) : peers[w][i] = v
    BY DEF Casting
<1>4. CASE receiver'[w] = receiver[w]
    BY <1>1, <1>2, <1>3, <1>4 DEF Casting, Underway
<1>5. CASE receiver'[w] # receiver[w]
    <2>1. Notify(w)
        <3>1. PICK x \in Workers : \/ Stop(x) \/ StoreRequest(x) \/ Notify(x) \/ EndBroadcast(x)
                                   \/ RemoveDisconnectedPeer(x)
            BY <1>5 DEF Framed, ReceiverStep
        <3>2. x = w
            BY <1>1, <1>5, <3>1, StopEffect, StoreRequestEffect, NotifyEffect, EndBroadcastEffect,
               RemovePeerEffect
        <3>3. ~StoreRequest(w) /\ ~RemoveDisconnectedPeer(w)
            BY <1>1, StoreRequestEffect, RemovePeerEffect
        <3>4. ~EndBroadcast(w)
            BY <1>1, <1>3, EndBroadcastEffect, ReceiverTypes, WorkerTypes, LenProperties
        <3> QED BY <1>1, <3>1, <3>2, <3>3, <3>4
    <2>2. /\ receiver'[w].casting /\ receiver'[w].item = receiver[w].item
          /\ receiver'[w].next = receiver[w].next + 1
          /\ receiver[w].next \in 1 .. Len(peers[w])
        BY <1>1, <2>1, NotifyEffect
    <2>3. CASE i # receiver[w].next
        <3>1. i \in receiver'[w].next .. Len(peers'[w])
            BY <1>1, <1>2, <1>3, <2>2, <2>3, WorkerTypes, LenProperties
        <3>2. Casting(w, v, k)'
            BY <1>1, <1>2, <1>3, <2>2, <3>1 DEF Casting
        <3> QED BY <3>2 DEF Underway
    <2>4. CASE i = receiver[w].next
        <3> DEFINE m == Data("notify", receiver[w].item.key, receiver[w].item.put)
        <3>1. /\ m \in Messages /\ m.key = k
              /\ Sends(w, v, m) \/ ~Heard(w, v) \/ link[w][v] # "open"
            BY <1>1, <1>3, <2>1, <2>4, NotifySends
        <3> HIDE DEF m
        <3>2. v \in Range(peers[w])
            BY <1>1, <1>3, <2>2, <2>4, WorkerTypes, Carried
        <3>3. link[w][v] = "open"
            BY <1>1, <3>2 DEF PeersLinked
        <3>4. chan'[w][v] = Append(chan[w][v], m)
            BY <1>1, <3>1, <3>3, LinksHeard, SendsEffect
        <3> QED BY <3>1, <3>3, <3>4, SentComing DEF Underway
    <2> QED BY <2>3, <2>4
<1> QED BY <1>4, <1>5

\* A request that is taken is worked on: the peer is connected.
LEMMA QueuedKept ==
    ASSUME TypeOK, LostAreGone, PeersLinked, TargetsKnown, Framed,
           NEW w \in alive', NEW v \in alive', NEW k \in Keys, Whole(w, v)',
           v \in Range(exports[w]), k \in Stored(w)
    PROVE  Underway(w, v, k)'
<1>1. w \in Workers /\ v \in Workers /\ w \in alive /\ v \in alive /\ ~Stop(w) /\ Whole(w, v)
    BY StillAlive, WholeBefore
<1>2. v \in Connected(w)
    BY <1>1 DEF TargetsKnown, PeersLinked, Connected
<1>3. v \in Range(exports'[w]) \/ Exporting(w, v, k)'
    <2>1. CASE exports'[w] = exports[w]
        BY <2>1
    <2>2. ASSUME NEW x \in Workers, Stop(x), x # w PROVE exports'[w] = exports[w]
        BY <1>1, <2>2, StopElsewhere
    <2>3. ASSUME NEW x \in Workers, AddPeer(x) PROVE v \in Range(exports'[w])
        <3>1. CASE x # w
            BY <1>1, <2>3, <3>1, AddPeerElsewhere
        <3>2. CASE x = w
            <4>1. exports'[w] = IF Asked(w) THEN Append(exports[w], Named(w)) ELSE exports[w]
                BY <1>1, <2>3, <3>2, AddPeerEffect
            <4>2. Named(w) \in Workers /\ Asked(w) \in BOOLEAN
                BY <1>1, <2>3, <3>2, AddPeerEffect
            <4>3. Range(Append(exports[w], Named(w))) = Range(exports[w]) \cup {Named(w)}
                BY <1>1, <4>2, WorkerTypes, Appended
            <4> QED BY <4>1, <4>2, <4>3
        <3> QED BY <3>1, <3>2
    <2>4. ASSUME NEW x \in Workers, TakeExport(x)
          PROVE  v \in Range(exports'[w]) \/ Exporting(w, v, k)'
        <3>1. CASE x # w
            BY <1>1, <2>4, <3>1, TakeExportEffect
        <3>2. CASE x = w
            <4>1. CASE Head(exports[w]) = v
                <5>1. Stored(w) # {}
                    OBVIOUS
                <5>2. exporter'[w].pc = "start" /\ exporter'[w].target = v
                    BY <1>1, <1>2, <2>4, <3>2, <4>1, <5>1, TakeExportEffect
                <5> QED BY <5>2 DEF Exporting
            <4>2. CASE Head(exports[w]) # v
                <5>1. Range(exports[w]) = Range(Tail(exports[w])) \cup {Head(exports[w])}
                    BY <1>1, <2>4, <3>2, TakeExportEffect, Taken
                <5> QED BY <1>1, <2>4, <3>2, <4>2, <5>1, TakeExportEffect
            <4> QED BY <4>1, <4>2
        <3> QED BY <3>1, <3>2
    <2> QED BY <1>1, <2>1, <2>2, <2>3, <2>4 DEF Framed, ExportsStep
<1> QED BY <1>3 DEF Underway

\* An export goes through all the buckets.
LEMMA ExportingKept ==
    ASSUME TypeOK, CastsItems, ExporterCoherent, LostAreGone, PeersLinked, LinksServed,
           TargetsKnown, Framed,
           NEW w \in alive', NEW v \in alive', NEW k \in Keys, Whole(w, v)',
           Exporting(w, v, k), k \in Stored(w)
    PROVE  Underway(w, v, k)'
<1>1. w \in Workers /\ v \in Workers /\ w \in alive /\ v \in alive /\ ~Stop(w) /\ Whole(w, v)
    BY StillAlive, WholeBefore
<1>2. link[w][v] = "open" /\ exporter[w].target = v
    BY <1>1 DEF Exporting, TargetsKnown, PeersLinked
<1>3. BucketOf[k] \in 1 .. Buckets /\ exporter[w].bucket \in 1 .. Buckets + 1 /\ Buckets \in Nat
    BY <1>1, ExporterTypes, ReplicationAssumption
<1>4. CASE exporter'[w] = exporter[w]
    BY <1>4 DEF Exporting, Underway
<1>5. CASE exporter'[w] # exporter[w]
    <2>1. PICK x \in Workers : \/ Stop(x) \/ TakeExport(x) \/ SendStart(x) \/ EnterBucket(x)
                               \/ SendEntry(x) \/ SendEnd(x) \/ ExportFails(x)
        BY <1>5 DEF Framed, ExporterStep
    <2>2. x = w
        <3>1. CASE Stop(x)
            BY <1>1, <1>5, <3>1, StopElsewhere
        <3> QED BY <1>1, <1>5, <2>1, <3>1, TakeExportEffect, SendStartEffect, EnterBucketEffect,
                   SendEntryEffect, ExportEndEffect
    <2>3. ~TakeExport(w)
        <3> SUFFICES ASSUME TakeExport(w) PROVE FALSE
            OBVIOUS
        <3>1. exporter[w] = Idle
            BY <1>1, TakeExportEffect DEF ExporterCoherent
        <3> QED BY <1>1, <1>2, <3>1, IdleIsSo, ReplicationAssumption DEF IdleFields
    <2>4. ~ExportFails(w)
        BY <1>1, <1>2, LinksHeard DEF ExportFails
    <2>5. ~SendEnd(w)
        BY <1>3 DEF SendEnd, Exporting
    <2>6. CASE SendStart(w)
        <3>1. /\ exporter'[w].target = v /\ exporter'[w].bucket = 1
            BY <1>1, <1>2, <2>6, SendStartEffect DEF ExporterCoherent
        <3>2. Exporting(w, v, k)'
            BY <1>3, <3>1 DEF Exporting
        <3> QED BY <3>2 DEF Underway
    <2>7. CASE EnterBucket(w)
        <3>1. /\ exporter[w].pc = "buckets" /\ exporter[w].todo = {}
              /\ exporter'[w].target = v
              /\ exporter'[w].bucket = exporter[w].bucket + 1
              /\ exporter'[w].todo = InBucket(w, exporter[w].bucket)
            BY <1>1, <1>2, <2>7, EnterBucketEffect
        <3>2. BucketOf[k] >= exporter[w].bucket
            BY <3>1 DEF Exporting
        <3>3. k \in exporter'[w].todo \/ BucketOf[k] >= exporter'[w].bucket
            BY <1>3, <3>1, <3>2 DEF InBucket
        <3>4. Exporting(w, v, k)'
            BY <3>1, <3>3 DEF Exporting
        <3> QED BY <3>4 DEF Underway
    <2>8. CASE SendEntry(w)
        <3>1. /\ exporter'[w].pc = exporter[w].pc /\ exporter'[w].target = v
              /\ exporter'[w].bucket = exporter[w].bucket /\ exporter[w].pc = "buckets"
            BY <1>1, <1>2, <2>8, SendEntryEffect
        <3>2. PICK key \in exporter[w].todo :
                 /\ exporter'[w].todo = exporter[w].todo \ {key}
                 /\ Sends(w, v, Data("entry", key, table[w][key]))
                 /\ key \in Keys /\ table[w][key] \in Puts
            BY <1>1, <1>2, <2>8, SendEntryEffect
        <3>3. CASE key # k
            <4>1. Exporting(w, v, k)'
                BY <3>1, <3>2, <3>3 DEF Exporting
            <4> QED BY <4>1 DEF Underway
        <3>4. CASE key = k
            <4> DEFINE m == Data("entry", key, table[w][key])
            <4>1. m \in Messages /\ m.key = k
                BY <3>2, <3>4 DEF Data, Messages
            <4> HIDE DEF m
            <4>2. chan'[w][v] = Append(chan[w][v], m)
                BY <1>1, <3>2, SendsEffect DEF m
            <4> QED BY <1>2, <4>1, <4>2, SentComing DEF Underway
        <3> QED BY <3>3, <3>4
    <2> QED BY <1>1, <2>1, <2>2, <2>3, <2>4, <2>5, <2>6, <2>7, <2>8
<1> QED BY <1>4, <1>5

LEMMA DueUnderway ==
    ASSUME TypeOK, Framed, NEW w \in alive', NEW v \in alive', NEW k \in due'[w][v],
           k \notin due[w][v]
    PROVE  Underway(w, v, k)'
<1>1. w \in Workers /\ v \in Workers /\ w \in alive /\ v \in alive
    BY StillAlive
<1>2. PICK x \in Workers : Stop(x) \/ AddPeer(x) \/ StoreRequest(x)
    BY DEF Framed, DueStep
<1>3. CASE Stop(x)
    <2>1. x # w /\ x # v
        BY <1>3, AliveStepEffect
    <2> QED BY <1>1, <1>3, <2>1, StopElsewhere
<1>4. CASE AddPeer(x)
    <2>1. x = w /\ v = Named(w) /\ Asked(w)
        <3>1. \A a, b \in Workers : a # x \/ b # Named(x) => due'[a][b] = due[a][b]
            BY <1>4, AddPeerEffect
        <3>2. x = w /\ v = Named(w)
            BY <1>1, <3>1
        <3>3. Asked(w)
            BY <1>1, <1>4, <3>2, AddPeerEffect
        <3> QED BY <3>2, <3>3
    <2>2. exports'[w] = Append(exports[w], v)
        BY <1>1, <1>4, <2>1, AddPeerEffect
    <2>3. v \in Range(exports'[w])
        BY <1>1, <2>2, WorkerTypes, Appended
    <2> QED BY <2>3 DEF Underway
<1>5. CASE StoreRequest(x)
    <2>1. x = w /\ v \in Connected(w) /\ k = Head(inbox[w]).key
        <3>1. x = w
            BY <1>1, <1>5, StoreRequestDue
        <3>2. due'[w][v] = IF v \in Connected(w) THEN due[w][v] \cup {Head(inbox[w]).key}
                           ELSE due[w][v]
            BY <1>1, <1>5, <3>1, StoreRequestDue
        <3> QED BY <3>1, <3>2
    <2>2. /\ receiver'[w].casting /\ receiver'[w].next = 1
          /\ receiver'[w].item = [key |-> Head(inbox[w]).key, put |-> Head(inbox[w]).put]
        BY <1>1, <1>5, <2>1, StoreRequestEffect
    <2>3. peers' = peers /\ v \in Range(peers[w])
        BY <1>5, <2>1 DEF StoreRequest, Connected
    <2>4. \E i \in 1 .. Len(peers[w]) : peers[w][i] = v
        BY <1>1, <2>3, WorkerTypes, Carried
    <2>5. Casting(w, v, k)'
        BY <2>1, <2>2, <2>3, <2>4 DEF Casting
    <2> QED BY <2>5 DEF Underway
<1> QED BY <1>2, <1>3, <1>4, <1>5

\* The step of NothingSkipped: what is under way stays so, and what is newly
\* owed begins to be.
LEMMA SkippedStep ==
    /\ TypeOK /\ CastsItems /\ ExporterCoherent /\ LostAreGone /\ PeersLinked /\ LinksServed
    /\ TargetsKnown /\ DueStored /\ NothingSkipped /\ Framed
    => NothingSkipped'
<1> SUFFICES ASSUME TypeOK, CastsItems, ExporterCoherent, LostAreGone, PeersLinked, LinksServed,
                    TargetsKnown, DueStored, NothingSkipped, Framed,
                    NEW w \in alive', NEW v \in alive',
                    Whole(w, v)', NEW k \in due'[w][v]
             PROVE  (k \in Stored(v) \/ OnItsWay(w, v, k))'
    BY DEF NothingSkipped, Whole
<1> SUFFICES Underway(w, v, k)'
    BY DEF OnItsWay, Underway, Coming, Held, Served, Casting, Exporting
<1>1. w \in Workers /\ v \in Workers /\ w \in alive /\ v \in alive /\ Whole(w, v)
    BY StillAlive, AliveStepEffect, WholeBefore
<1>2. CASE k \notin due[w][v]
    BY <1>2, DueUnderway
<1>3. CASE k \in due[w][v]
    <2>1. k \in Keys /\ k \in Stored(w)
        BY <1>1, <1>3, PairTypes DEF DueStored
    <2>2. Underway(w, v, k)
        BY <1>1, <1>3, UnderwayIs DEF NothingSkipped, Whole
    <2>3. CASE Coming(w, v, k)
        BY <2>1, <2>3, ComingKept DEF Underway
    <2>4. CASE Casting(w, v, k)
        BY <2>1, <2>4, CastingKept
    <2>5. CASE v \in Range(exports[w])
        BY <2>1, <2>5, QueuedKept
    <2>6. CASE Exporting(w, v, k)
        BY <2>1, <2>6, ExportingKept
    <2> QED BY <2>2, <2>3, <2>4, <2>5, <2>6 DEF Underway
<1> QED BY <1>2, <1>3

-----------------------------------------------------------------------------
(* An export of one worker to another is asked for once.                   *)

\* x is in the sequence at one place at most.
Once(s, x) == \A i, j \in 1 .. Len(s) : s[i] = x /\ s[j] = x => i = j

LEMMA OnceAppended ==
    ASSUME NEW S, NEW s \in Seq(S), NEW x, NEW y \in S, Once(s, x), y = x => x \notin Range(s)
    PROVE  Once(Append(s, y), x)
<1> DEFINE t == Append(s, y)
<1>1. /\ Len(s) \in Nat /\ Len(t) = Len(s) + 1 /\ t[Len(s) + 1] = y
      /\ \A i \in 1 .. Len(s) : t[i] = s[i]
      /\ x \in Range(s) <=> \E i \in 1 .. Len(s) : s[i] = x
    BY Appended, Carried
<1> HIDE DEF t
<1>2. ASSUME NEW i \in 1 .. Len(t), NEW j \in 1 .. Len(t), t[i] = x, t[j] = x PROVE i = j
    <2>1. /\ i \in 1 .. Len(s) \/ i = Len(s) + 1
          /\ j \in 1 .. Len(s) \/ j = Len(s) + 1
        BY <1>1
    <2>2. CASE i \in 1 .. Len(s) /\ j \in 1 .. Len(s)
        BY <1>1, <1>2, <2>2 DEF Once
    <2>3. CASE y = x
        BY <1>1, <1>2, <2>1, <2>3
    <2>4. CASE y # x
        BY <1>1, <1>2, <2>1, <2>2, <2>4
    <2> QED BY <2>3, <2>4
<1> QED BY <1>2 DEF Once, t

LEMMA OnceTaken ==
    ASSUME NEW S, NEW s \in Seq(S), s # << >>, NEW x, Once(s, x)
    PROVE  Once(Tail(s), x) /\ (Head(s) = x => x \notin Range(Tail(s)))
<1> DEFINE t == Tail(s)
<1>1. /\ Head(s) = s[1] /\ Len(s) \in Nat \ {0} /\ Len(t) = Len(s) - 1 /\ t \in Seq(S)
      /\ \A i \in 1 .. Len(s) - 1 : t[i] = s[i + 1]
    BY Taken
<1> HIDE DEF t
<1>2. x \in Range(t) <=> \E i \in 1 .. Len(s) - 1 : t[i] = x
    BY <1>1, CarriedTo
<1>3. \A i \in 1 .. Len(s) - 1 : i + 1 \in 1 .. Len(s) /\ i + 1 # 1
    BY <1>1
<1>4. ASSUME Head(s) = x, x \in Range(t) PROVE FALSE
    <2>1. PICK i \in 1 .. Len(s) - 1 : t[i] = x
        BY <1>2, <1>4
    <2>2. s[i + 1] = x /\ s[1] = x /\ 1 \in 1 .. Len(s)
        BY <1>1, <1>4, <2>1
    <2> QED BY <1>3, <2>2 DEF Once
<1>5. ASSUME NEW i \in 1 .. Len(t), NEW j \in 1 .. Len(t), t[i] = x, t[j] = x PROVE i = j
    <2>1. i \in 1 .. Len(s) - 1 /\ j \in 1 .. Len(s) - 1
        BY <1>1, <1>5
    <2>2. s[i + 1] = x /\ s[j + 1] = x
        BY <1>1, <1>5, <2>1
    <2>3. i + 1 = j + 1
        BY <1>3, <2>1, <2>2 DEF Once
    <2> QED BY <2>1, <2>3
<1> QED BY <1>4, <1>5 DEF Once, t

LEMMA OnceJoined ==
    ASSUME NEW S, NEW s \in Seq(S), NEW m \in Seq(S), NEW x, \A i \in 1 .. Len(m) : m[i] # x
    PROVE  /\ Once(s, x) => Once(s \o m, x)
           /\ x \in Range(s \o m) => x \in Range(s)
<1> DEFINE t == s \o m
           n == Len(s)
<1>1. /\ n \in Nat /\ Len(m) \in Nat /\ t \in Seq(S) /\ Len(t) = n + Len(m)
      /\ \A i \in 1 .. n + Len(m) : t[i] = IF i <= n THEN s[i] ELSE m[i - n]
    BY ConcatProperties, LenProperties
<1>2. x \in Range(s) <=> \E i \in 1 .. n : s[i] = x
    BY Carried
<1> HIDE DEF t
<1>3. x \in Range(t) <=> \E i \in 1 .. n + Len(m) : t[i] = x
    BY <1>1, CarriedTo
<1>4. ASSUME NEW i \in 1 .. n + Len(m), t[i] = x PROVE i \in 1 .. n /\ s[i] = x
    <2>1. CASE i <= n
        BY <1>1, <1>4, <2>1
    <2>2. CASE ~(i <= n)
        <3>1. i - n \in 1 .. Len(m) /\ t[i] = m[i - n]
            BY <1>1, <2>2
        <3> QED BY <1>4, <3>1
    <2> QED BY <2>1, <2>2
<1>5. x \in Range(t) => x \in Range(s)
    BY <1>2, <1>3, <1>4
<1>6. Once(s, x) => Once(t, x)
    BY <1>1, <1>4 DEF Once
<1> QED BY <1>5, <1>6 DEF t

\* The request is one of four things at a time: a message to the exporter,
\* a place in its export queue, its export, and the end told to v.
Waiting(w, v) == Entry(v, TRUE) \in Range(inbox[w])
Queued(w, v) == v \in Range(exports[w])
Targeted(w, v) == exporter[w].target = v
Told(w, v) == \E j \in 1 .. Len(chan[w][v]) : chan[w][v][j].type = "end"
AsksFor(w, v) == AddPeer(w) /\ Named(w) = v /\ Asked(w)
Takes(w, v) == TakeExport(w) /\ Head(exports[w]) = v

LEMMA WaitingStep ==
    ASSUME TypeOK, Framed, NEW w \in Workers, NEW v \in Workers
    PROVE  /\ Waiting(w, v)' => Waiting(w, v) \/ Introduce(v)
           /\ Once(inbox[w], Entry(v, TRUE)) /\ (Introduce(v) => ~Waiting(w, v))
              => Once(inbox[w], Entry(v, TRUE))'
           /\ AsksFor(w, v) => Waiting(w, v)
           /\ AsksFor(w, v) /\ Once(inbox[w], Entry(v, TRUE)) => ~Waiting(w, v)'
<1> DEFINE e == Entry(v, TRUE)
<1>1. inbox[w] \in Seq(Inbound)
    BY WorkerTypes
<1>2. ASSUME AsksFor(w, v)
      PROVE  Waiting(w, v) /\ (Once(inbox[w], e) => ~Waiting(w, v)')
    <2>1. /\ inbox[w] # << >> /\ Head(inbox[w]) = e /\ inbox'[w] = Tail(inbox[w])
        BY <1>2, AddPeerEffect DEF AsksFor
    <2>2. e \in Range(inbox[w])
        BY <1>1, <2>1, Taken
    <2>3. Once(inbox[w], e) => e \notin Range(inbox'[w])
        BY <1>1, <2>1, OnceTaken
    <2> QED BY <2>2, <2>3 DEF Waiting
<1>3. CASE MailKept(w)
    <2>1. Range(<< >>) = {} /\ Once(<< >>, e)
        BY DEF Range, Once
    <2>2. inbox'[w] = inbox[w] \/ inbox'[w] = << >>
        BY <1>3 DEF MailKept
    <2>3. e \in Range(inbox'[w]) => e \in Range(inbox[w])
        BY <2>1, <2>2
    <2>4. Once(inbox[w], e) => Once(inbox'[w], e)
        BY <2>1, <2>2
    <2> QED BY <1>2, <2>3, <2>4 DEF Waiting, Once
<1>4. CASE MailRead(w)
    <2>1. inbox[w] # << >> /\ inbox'[w] = Tail(inbox[w])
        BY <1>4 DEF MailRead
    <2>2. Range(inbox'[w]) \subseteq Range(inbox[w])
        BY <1>1, <2>1, Taken
    <2>3. Once(inbox[w], e) => Once(inbox'[w], e)
        BY <1>1, <2>1, OnceTaken
    <2> QED BY <1>2, <2>2, <2>3 DEF Waiting, Once
<1>5. ASSUME NEW y \in Inbound, inbox'[w] = Append(inbox[w], y), y = e => Introduce(v)
      PROVE  /\ Waiting(w, v)' => Waiting(w, v) \/ Introduce(v)
             /\ Once(inbox[w], e) /\ (Introduce(v) => ~Waiting(w, v)) => Once(inbox[w], e)'
    <2>1. Range(inbox'[w]) = Range(inbox[w]) \cup {y}
        BY <1>1, <1>5, Appended
    <2>2. Once(inbox[w], e) /\ (Introduce(v) => ~Waiting(w, v)) => Once(inbox'[w], e)
        BY <1>1, <1>5, OnceAppended DEF Waiting
    <2> QED BY <1>5, <2>1, <2>2 DEF Waiting, Once
<1>6. CASE MailIntroduced(w)
    <2>1. PICK x \in Workers \ {w}, b \in BOOLEAN :
             Introduce(x) /\ inbox'[w] = Append(inbox[w], Entry(x, b))
        BY <1>6 DEF MailIntroduced
    <2>2. Entry(x, b) \in Inbound /\ (Entry(x, b) = e => x = v)
        BY DEF Entry, Inbound
    <2> QED BY <1>2, <1>5, <2>1, <2>2
<1>7. CASE MailDispatched(w)
    <2>1. PICK k \in Keys, p \in Puts : inbox'[w] = Append(inbox[w], Store(k, p))
        BY <1>7 DEF MailDispatched
    <2>2. Store(k, p) \in Inbound /\ Store(k, p) # e
        BY DEF Store, Entry, Inbound
    <2> QED BY <1>2, <1>5, <2>1, <2>2
<1>8. CASE MailListed(w)
    <2>1. PICK m \in Seq(Inbound) :
             /\ inbox'[w] = inbox[w] \o m
             /\ \A i \in 1 .. Len(m) : \E x \in Workers : m[i] = Entry(x, FALSE)
        BY <1>8 DEF MailListed
    <2>2. \A i \in 1 .. Len(m) : m[i] # e
        BY <2>1, EntryFields
    <2>3. /\ Once(inbox[w], e) => Once(inbox'[w], e)
          /\ e \in Range(inbox'[w]) => e \in Range(inbox[w])
        BY <1>1, <2>1, <2>2, OnceJoined
    <2> QED BY <1>2, <2>3 DEF Waiting, Once
<1> QED BY <1>2, <1>3, <1>4, <1>6, <1>7, <1>8, MailStep

LEMMA QueuedStep ==
    ASSUME TypeOK, Framed, NEW w \in Workers, NEW v \in Workers
    PROVE  /\ Queued(w, v)' => Queued(w, v) \/ AsksFor(w, v)
           /\ Once(exports[w], v) /\ (AsksFor(w, v) => ~Queued(w, v)) => Once(exports[w], v)'
           /\ Takes(w, v) => Queued(w, v)
           /\ Takes(w, v) /\ Once(exports[w], v) => ~Queued(w, v)'
<1>1. exports[w] \in Seq(Workers)
    BY WorkerTypes
<1>2. ASSUME TakeExport(w)
      PROVE  /\ Queued(w, v)' => Queued(w, v)
             /\ Once(exports[w], v) => Once(exports'[w], v)
             /\ Takes(w, v) => Queued(w, v)
             /\ Takes(w, v) /\ Once(exports[w], v) => ~Queued(w, v)'
    <2>1. exports[w] # << >> /\ exports'[w] = Tail(exports[w])
        BY <1>2, TakeExportEffect
    <2>2. Range(exports[w]) = Range(exports'[w]) \cup {Head(exports[w])}
        BY <1>1, <2>1, Taken
    <2>3. /\ Once(exports[w], v) => Once(exports'[w], v)
          /\ Once(exports[w], v) /\ Head(exports[w]) = v => v \notin Range(exports'[w])
        BY <1>1, <2>1, OnceTaken
    <2> QED BY <2>2, <2>3 DEF Queued, Takes
<1>3. CASE exports'[w] = exports[w]
    BY <1>2, <1>3 DEF Queued, Once, Takes
<1>4. CASE exports'[w] # exports[w]
    <2>1. PICK x \in Workers : Stop(x) \/ AddPeer(x) \/ TakeExport(x)
        BY <1>4 DEF Framed, ExportsStep
    <2>2. x = w
        <3>1. CASE Stop(x)
            BY <1>4, <3>1, StopElsewhere
        <3>2. CASE AddPeer(x)
            BY <1>4, <3>2, AddPeerElsewhere
        <3> QED BY <1>4, <2>1, <3>1, <3>2, TakeExportEffect
    <2>3. CASE Stop(w)
        <3>1. exports'[w] = << >>
            BY <2>3 DEF Stop, TypeOK
        <3>2. Range(<< >>) = {} /\ Once(<< >>, v)
            BY DEF Range, Once
        <3>3. ~Queued(w, v)' /\ Once(exports'[w], v)
            BY <3>1, <3>2 DEF Queued
        <3> QED BY <1>2, <3>3 DEF Once, Takes
    <2>4. CASE AddPeer(w)
        <3>1. /\ Named(w) \in Workers /\ Asked(w)
              /\ exports'[w] = Append(exports[w], Named(w))
            BY <1>4, <2>4, AddPeerEffect
        <3>2. Range(exports'[w]) = Range(exports[w]) \cup {Named(w)}
            BY <1>1, <3>1, Appended
        <3>3. Once(exports[w], v) /\ (AsksFor(w, v) => ~Queued(w, v)) => Once(exports'[w], v)
            BY <1>1, <2>4, <3>1, OnceAppended DEF AsksFor, Queued
        <3> QED BY <1>2, <2>4, <3>1, <3>2, <3>3 DEF Queued, AsksFor, Once, Takes
    <2>5. CASE TakeExport(w)
        BY <1>2, <2>5 DEF Once
    <2> QED BY <2>1, <2>2, <2>3, <2>4, <2>5
<1> QED BY <1>3, <1>4

LEMMA TargetedStep ==
    ASSUME TypeOK, ExporterCoherent, Framed, NEW w \in Workers, NEW v \in Workers
    PROVE  /\ Targeted(w, v)' => Targeted(w, v) \/ Takes(w, v)
           /\ SendEnd(w) => ~Targeted(w, v)'
<1>1. Idle.target # v
    BY IdleIsSo, ReplicationAssumption DEF IdleFields
<1>2. SendEnd(w) => ~Targeted(w, v)'
    BY <1>1, ExportEndEffect DEF Targeted
<1>3. CASE exporter'[w] = exporter[w]
    BY <1>2, <1>3 DEF Targeted
<1>4. CASE exporter'[w] # exporter[w]
    <2>1. PICK x \in Workers : \/ Stop(x) \/ TakeExport(x) \/ SendStart(x) \/ EnterBucket(x)
                               \/ SendEntry(x) \/ SendEnd(x) \/ ExportFails(x)
        BY <1>4 DEF Framed, ExporterStep
    <2>2. x = w
        <3>1. CASE Stop(x)
            BY <1>4, <3>1, StopElsewhere
        <3> QED BY <1>4, <2>1, <3>1, TakeExportEffect, SendStartEffect, EnterBucketEffect,
                   SendEntryEffect, ExportEndEffect
    <2>3. CASE Stop(w)
        <3>1. exporter'[w] = Idle
            BY <2>3 DEF Stop, TypeOK
        <3> QED BY <1>1, <1>2, <3>1 DEF Targeted
    <2>4. CASE TakeExport(w)
        BY <1>1, <1>2, <2>4, TakeExportEffect DEF Targeted, Takes
    <2>5. CASE SendStart(w) \/ EnterBucket(w) \/ SendEntry(w)
        <3>1. exporter'[w].target = exporter[w].target
            BY <2>5, SendStartEffect, EnterBucketEffect, SendEntryEffect
        <3> QED BY <1>2, <3>1 DEF Targeted
    <2>6. CASE SendEnd(w) \/ ExportFails(w)
        BY <1>1, <1>2, <2>6, ExportEndEffect DEF Targeted
    <2> QED BY <2>1, <2>2, <2>3, <2>4, <2>5, <2>6
<1> QED BY <1>3, <1>4

LEMMA ToldStep ==
    ASSUME TypeOK, CastsItems, ExporterCoherent, Framed,
           NEW w \in Workers, NEW v \in Workers, v \in alive'
    PROVE  Told(w, v)' => Told(w, v) \/ (SendEnd(w) /\ Targeted(w, v))
<1> SUFFICES ASSUME Told(w, v)', ~(SendEnd(w) /\ Targeted(w, v)) PROVE Told(w, v)
    OBVIOUS
<1>1. chan[w][v] \in Seq(Messages) /\ Len(chan[w][v]) \in Nat
    BY PairTypes
<1>2. PICK j \in 1 .. Len(chan'[w][v]) : chan'[w][v][j].type = "end"
    BY DEF Told
<1>3. CASE chan'[w][v] = chan[w][v]
    BY <1>2, <1>3 DEF Told
<1>4. CASE ChanRead(w, v)
    <2>1. /\ chan[w][v] # << >> /\ chan'[w][v] = Tail(chan[w][v])
        BY <1>4 DEF ChanRead
    <2>2. /\ Len(chan[w][v]) \in Nat \ {0} /\ Len(chan'[w][v]) = Len(chan[w][v]) - 1
          /\ \A i \in 1 .. Len(chan[w][v]) - 1 : chan'[w][v][i] = chan[w][v][i + 1]
        BY <1>1, <2>1, Taken
    <2>3. j \in 1 .. Len(chan[w][v]) - 1 /\ j + 1 \in 1 .. Len(chan[w][v])
        BY <1>2, <2>2
    <2> QED BY <1>2, <2>2, <2>3 DEF Told
<1>5. CASE ChanLost(w, v)
    <2>1. Len(chan'[w][v]) = 0
        BY <1>5, EmptySeq DEF ChanLost
    <2> QED BY <1>2, <2>1
<1>6. ASSUME NEW m \in Messages, m.type # "end", chan'[w][v] = Append(chan[w][v], m)
      PROVE  Told(w, v)
    <2>1. /\ Len(chan'[w][v]) = Len(chan[w][v]) + 1 /\ chan'[w][v][Len(chan[w][v]) + 1] = m
          /\ \A i \in 1 .. Len(chan[w][v]) : chan'[w][v][i] = chan[w][v][i]
        BY <1>1, <1>6, Appended
    <2>2. j \in 1 .. Len(chan[w][v])
        BY <1>1, <1>2, <1>6, <2>1
    <2> QED BY <1>2, <2>1, <2>2 DEF Told
<1>7. CASE ChanNotified(w, v)
    <2>1. PICK m \in Messages : m.type = "notify" /\ chan'[w][v] = Append(chan[w][v], m)
        BY <1>7 DEF ChanNotified
    <2> QED BY <1>6, <2>1
<1>8. CASE ChanStarted(w, v)
    <2>1. Mark("start") \in Messages /\ Mark("start").type # "end"
        BY DEF Mark, Messages
    <2> QED BY <1>6, <1>8, <2>1 DEF ChanStarted
<1>9. CASE ChanEntry(w, v)
    <2>1. PICK k \in Keys : /\ table[w][k] \in Puts
                            /\ chan'[w][v] = Append(chan[w][v], Data("entry", k, table[w][k]))
        BY <1>9 DEF ChanEntry
    <2>2. Data("entry", k, table[w][k]) \in Messages /\ Data("entry", k, table[w][k]).type # "end"
        BY <2>1 DEF Data, Messages
    <2> QED BY <1>6, <2>1, <2>2
<1>10. ~ChanEnded(w, v)
    BY DEF ChanEnded, Targeted
<1> QED BY <1>3, <1>4, <1>5, <1>7, <1>8, <1>9, <1>10, ChanOrigin

\* A worker that is not introduced yet has no request made for it.
NotYet == \A w \in Workers, v \in alive :
             stage[v] \in {"new", "joined"} =>
                ~Waiting(w, v) /\ ~Queued(w, v) /\ ~Targeted(w, v) /\ ~Told(w, v)

\* There is one request at most, and it is at one stage.
AskedOnce == \A w \in Workers, v \in alive :
                /\ Once(inbox[w], Entry(v, TRUE))
                /\ Once(exports[w], v)
                /\ Waiting(w, v) => ~Queued(w, v) /\ ~Targeted(w, v) /\ ~Told(w, v)
                /\ Queued(w, v) => ~Targeted(w, v) /\ ~Told(w, v)
                /\ Targeted(w, v) => ~Told(w, v)

LEMMA StageKept ==
    ASSUME TypeOK, Framed, NEW v \in Workers, stage'[v] \in {"new", "joined"}
    PROVE  stage[v] \in {"new", "joined"} /\ ~Introduce(v)
<1>1. ~Introduce(v)
    BY DEF Introduce, TypeOK
<1>2. ASSUME NEW x \in Workers, Join(x) \/ Introduce(x) \/ RemoveWorker(x)
      PROVE  stage[v] \in {"new", "joined"}
    BY <1>2 DEF Join, Introduce, RemoveWorker, TypeOK
<1> QED BY <1>1, <1>2 DEF Framed, StageStep

LEMMA NotYetStep ==
    TypeOK /\ CastsItems /\ ExporterCoherent /\ NotYet /\ Framed => NotYet'
<1> SUFFICES ASSUME TypeOK, CastsItems, ExporterCoherent, NotYet, Framed,
                    NEW w \in Workers, NEW v \in alive', stage'[v] \in {"new", "joined"}
             PROVE  ~Waiting(w, v)' /\ ~Queued(w, v)' /\ ~Targeted(w, v)' /\ ~Told(w, v)'
    BY DEF NotYet
<1>1. v \in Workers /\ v \in alive /\ stage[v] \in {"new", "joined"} /\ ~Introduce(v)
    BY StillAlive, StageKept
<1>2. ~Waiting(w, v) /\ ~Queued(w, v) /\ ~Targeted(w, v) /\ ~Told(w, v)
    BY <1>1 DEF NotYet
<1>3. ~Waiting(w, v)' /\ ~AsksFor(w, v)
    BY <1>1, <1>2, WaitingStep
<1>4. ~Queued(w, v)' /\ ~Takes(w, v)
    BY <1>1, <1>2, <1>3, QueuedStep
<1>5. ~Targeted(w, v)' /\ ~Told(w, v)'
    BY <1>1, <1>2, <1>4, TargetedStep, ToldStep
<1> QED BY <1>3, <1>4, <1>5

LEMMA AskedOnceStep ==
    TypeOK /\ CastsItems /\ ExporterCoherent /\ NotYet /\ AskedOnce /\ Framed => AskedOnce'
<1> SUFFICES ASSUME TypeOK, CastsItems, ExporterCoherent, NotYet, AskedOnce, Framed,
                    NEW w \in Workers, NEW v \in alive'
             PROVE  /\ Once(inbox[w], Entry(v, TRUE))'
                    /\ Once(exports[w], v)'
                    /\ Waiting(w, v)' => ~Queued(w, v)' /\ ~Targeted(w, v)' /\ ~Told(w, v)'
                    /\ Queued(w, v)' => ~Targeted(w, v)' /\ ~Told(w, v)'
                    /\ Targeted(w, v)' => ~Told(w, v)'
    BY DEF AskedOnce
<1>1. v \in Workers /\ v \in alive
    BY StillAlive
<1>2. /\ Once(inbox[w], Entry(v, TRUE)) /\ Once(exports[w], v)
      /\ Waiting(w, v) => ~Queued(w, v) /\ ~Targeted(w, v) /\ ~Told(w, v)
      /\ Queued(w, v) => ~Targeted(w, v) /\ ~Told(w, v)
      /\ Targeted(w, v) => ~Told(w, v)
    BY <1>1 DEF AskedOnce
<1>3. Introduce(v) => ~Waiting(w, v) /\ ~Queued(w, v) /\ ~Targeted(w, v) /\ ~Told(w, v)
    BY <1>1 DEF NotYet, Introduce
<1>4. /\ Waiting(w, v)' => Waiting(w, v) \/ Introduce(v)
      /\ Once(inbox[w], Entry(v, TRUE))'
      /\ AsksFor(w, v) => Waiting(w, v) /\ ~Waiting(w, v)'
    BY <1>1, <1>2, <1>3, WaitingStep
<1>5. /\ Queued(w, v)' => Queued(w, v) \/ AsksFor(w, v)
      /\ Once(exports[w], v)'
      /\ Takes(w, v) => Queued(w, v) /\ ~Queued(w, v)'
    BY <1>1, <1>2, <1>4, QueuedStep
<1>6. /\ Targeted(w, v)' => Targeted(w, v) \/ Takes(w, v)
      /\ SendEnd(w) => ~Targeted(w, v)'
      /\ Told(w, v)' => Told(w, v) \/ (SendEnd(w) /\ Targeted(w, v))
    BY <1>1, TargetedStep, ToldStep
<1> QED BY <1>2, <1>3, <1>4, <1>5, <1>6

-----------------------------------------------------------------------------
(* What an export covers.                                                  *)

\* The snapshot of a pair is taken when its export starts.
LEMMA SnapshotTaken ==
    ASSUME TypeOK, ExporterCoherent, Framed, NEW w \in Workers, NEW v \in Workers
    PROVE  \/ snapshot'[w][v] = snapshot[w][v]
           \/ SendStart(w) /\ Targeted(w, v) /\ snapshot'[w][v] = Stored(w)
<1> SUFFICES ASSUME snapshot'[w][v] # snapshot[w][v]
             PROVE  SendStart(w) /\ Targeted(w, v) /\ snapshot'[w][v] = Stored(w)
    OBVIOUS
<1>1. PICK x \in Workers : SendStart(x)
    BY DEF Framed, SnapshotStep
<1> DEFINE y == exporter[x].target
           s == Stored(x)
<1>2. y \in Workers /\ s \in SUBSET Keys
    BY <1>1, WorkerTypes DEF SendStart, ExporterCoherent
<1>3. /\ snapshot' = [snapshot EXCEPT ![x][y] = s]
      /\ snapshot \in [Workers -> [Workers -> SUBSET Keys]]
    BY <1>1 DEF SendStart, TypeOK
<1> HIDE DEF y, s
<1>4. \A a, b \in Workers : snapshot'[a][b] = IF a = x /\ b = y THEN s ELSE snapshot[a][b]
    BY <1>2, <1>3, PairUpdated
<1>5. w = x /\ v = y /\ snapshot'[w][v] = s
    BY <1>4
<1> QED BY <1>1, <1>5 DEF Targeted, y, s

\* The key is held by v or on the connection.
OnConnection(w, v, k) == Arrives(w, v, k, Len(chan[w][v]) + 1)

LEMMA OnConnectionKept ==
    ASSUME TypeOK, CastsItems, ExporterCoherent, Framed,
           NEW w \in Workers, NEW v \in alive', NEW k \in Keys, ~Stop(w), OnConnection(w, v, k)
    PROVE  OnConnection(w, v, k)'
<1>1. v \in Workers
    BY StillAlive
<1>2. chan[w][v] \in Seq(Messages) /\ Len(chan[w][v]) \in Nat
    BY <1>1, PairTypes
<1>3. PICK n \in Nat : n = Len(chan[w][v])
    BY <1>2
<1>4. n + 1 \in 1 .. Len(chan[w][v]) + 1 /\ (n + 1) - 1 = n /\ Arrives(w, v, k, n + 1)
    BY <1>3 DEF OnConnection
<1>5. CASE \/ chan'[w][v] = chan[w][v]
           \/ \E m \in Messages : chan'[w][v] = Append(chan[w][v], m)
    <2>1. Arrives(w, v, k, n + 1)' /\ Len(chan[w][v]) <= Len(chan'[w][v])
        BY <1>1, <1>4, <1>5, ArrivesSent
    <2>2. Len(chan'[w][v]) \in Nat
        <3>1. ASSUME NEW m \in Messages, chan'[w][v] = Append(chan[w][v], m)
              PROVE  Len(chan'[w][v]) \in Nat
            BY <1>2, <3>1, Appended
        <3> QED BY <1>2, <1>5, <3>1
    <2>3. 1 .. n \subseteq 1 .. (Len(chan'[w][v]) + 1) - 1
        BY <1>3, <2>1, <2>2
    <2> QED BY <1>4, <2>1, <2>3 DEF Arrives, OnConnection
<1>6. CASE ChanRead(w, v)
    <2>1. /\ chan[w][v] # << >> /\ Len(chan[w][v]) \in Nat \ {0}
          /\ Len(chan'[w][v]) = Len(chan[w][v]) - 1
        BY <1>2, <1>6, Taken DEF ChanRead
    <2>2. n + 1 \in 2 .. Len(chan[w][v]) + 1 /\ Len(chan'[w][v]) + 1 = n
        BY <1>3, <2>1
    <2>3. Arrives(w, v, k, (n + 1) - 1)'
        BY <1>1, <1>4, <1>6, <2>2, ArrivesRead
    <2>4. Arrives(w, v, k, n)'
        BY <1>4, <2>3
    <2> QED BY <2>2, <2>4 DEF Arrives, OnConnection
<1> QED BY <1>1, <1>5, <1>6, ChanGrows

\* A key that is sent is on the connection.
LEMMA OnConnectionSent ==
    ASSUME TypeOK, NEW w \in Workers, NEW v \in Workers, NEW m \in Messages,
           chan'[w][v] = Append(chan[w][v], m)
    PROVE  OnConnection(w, v, m.key)'
<1>1. /\ Len(chan[w][v]) \in Nat /\ Len(chan'[w][v]) = Len(chan[w][v]) + 1
      /\ chan'[w][v][Len(chan[w][v]) + 1] = m
    BY PairTypes, Appended
<1>2. /\ Len(chan[w][v]) + 1 \in 1 .. (Len(chan'[w][v]) + 1) - 1
    BY <1>1
<1> QED BY <1>1, <1>2 DEF OnConnection, Arrives

\* While the export runs, what its worker had when it began has been sent, or
\* is in a bucket not yet done.
ExportsCover ==
    \A w \in Workers, v \in alive :
       exporter[w].pc = "buckets" /\ Targeted(w, v) /\ Whole(w, v) =>
          /\ snapshot[w][v] \subseteq Stored(w)
          /\ \A k \in snapshot[w][v] : \/ OnConnection(w, v, k)
                                       \/ k \in exporter[w].todo
                                       \/ BucketOf[k] >= exporter[w].bucket

LEMMA ExportsCoverStep ==
    TypeOK /\ CastsItems /\ ExporterCoherent /\ ExportsCover /\ Framed => ExportsCover'
<1> SUFFICES ASSUME TypeOK, CastsItems, ExporterCoherent, ExportsCover, Framed,
                    NEW w \in Workers, NEW v \in alive',
                    exporter'[w].pc = "buckets", Targeted(w, v)', Whole(w, v)'
             PROVE  /\ snapshot'[w][v] \subseteq Stored(w)'
                    /\ \A k \in snapshot'[w][v] : \/ OnConnection(w, v, k)'
                                                  \/ k \in exporter'[w].todo
                                                  \/ BucketOf[k] >= exporter'[w].bucket
    BY DEF ExportsCover
<1>1. v \in Workers /\ v \in alive /\ Whole(w, v)
    BY StillAlive, WholeBefore
<1>2. Idle.pc # "buckets"
    BY IdleIsSo DEF IdleFields
<1>3. ~Stop(w)
    <2>1. Stop(w) => exporter'[w] = Idle
        BY DEF Stop, TypeOK
    <2> QED BY <1>2, <2>1
<1>4. Stored(w) \subseteq Stored(w)'
    BY <1>3, StoredGrows
<1>5. snapshot[w][v] \subseteq Keys /\ Stored(w) \subseteq Keys
    BY <1>1, PairTypes, WorkerTypes
<1>6. CASE SendStart(w)
    <2>1. /\ exporter[w].pc = "start" /\ exporter'[w].bucket = exporter[w].bucket
          /\ exporter'[w].target = exporter[w].target
        BY <1>6, SendStartEffect
    <2>2. exporter'[w].bucket = 1 /\ exporter[w].target = v
        BY <2>1 DEF ExporterCoherent, Targeted
    <2>3. snapshot'[w][v] = Stored(w)
        <3>1. snapshot' = [snapshot EXCEPT ![w][v] = Stored(w)]
            BY <1>6, <2>2 DEF SendStart
        <3> QED BY <1>1, <3>1 DEF TypeOK
    <2>4. \A k \in Stored(w) : BucketOf[k] >= 1
        BY <1>5, ReplicationAssumption
    <2> QED BY <1>4, <2>2, <2>3, <2>4
<1>7. CASE ~SendStart(w)
    <2>1. snapshot'[w][v] = snapshot[w][v]
        BY <1>1, <1>7, SnapshotTaken
    <2>2. exporter[w].pc = "buckets" /\ Targeted(w, v)
          /\ \/ exporter'[w] = exporter[w]
             \/ EnterBucket(w) \/ SendEntry(w)
        <3>1. CASE exporter'[w] = exporter[w]
            BY <3>1 DEF Targeted
        <3>2. CASE exporter'[w] # exporter[w]
            <4>1. PICK x \in Workers : \/ Stop(x) \/ TakeExport(x) \/ SendStart(x) \/ EnterBucket(x)
                                       \/ SendEntry(x) \/ SendEnd(x) \/ ExportFails(x)
                BY <3>2 DEF Framed, ExporterStep
            <4>2. x = w
                <5>1. CASE Stop(x)
                    BY <3>2, <5>1, StopElsewhere
                <5> QED BY <3>2, <4>1, <5>1, TakeExportEffect, SendStartEffect, EnterBucketEffect,
                           SendEntryEffect, ExportEndEffect
            <4>3. ~TakeExport(w)
                BY <1>2, TakeExportEffect
            <4>4. ~SendEnd(w) /\ ~ExportFails(w)
                BY <1>2, ExportEndEffect
            <4>5. EnterBucket(w) \/ SendEntry(w)
                BY <1>3, <1>7, <4>1, <4>2, <4>3, <4>4
            <4>6. exporter[w].pc = "buckets" /\ exporter'[w].target = exporter[w].target
                BY <4>5, EnterBucketEffect, SendEntryEffect
            <4> QED BY <4>5, <4>6 DEF Targeted
        <3> QED BY <3>1, <3>2
    <2>3. /\ snapshot[w][v] \subseteq Stored(w)
          /\ \A k \in snapshot[w][v] : \/ OnConnection(w, v, k)
                                       \/ k \in exporter[w].todo
                                       \/ BucketOf[k] >= exporter[w].bucket
        BY <1>1, <2>2 DEF ExportsCover
    <2>4. snapshot'[w][v] \subseteq Stored(w)'
        BY <1>4, <2>1, <2>3
    <2> SUFFICES ASSUME NEW k \in snapshot[w][v]
                 PROVE  \/ OnConnection(w, v, k)'
                        \/ k \in exporter'[w].todo
                        \/ BucketOf[k] >= exporter'[w].bucket
        BY <2>1, <2>4
    <2>5. k \in Keys /\ k \in Stored(w)
        BY <1>5, <2>3
    <2>6. CASE OnConnection(w, v, k)
        BY <1>3, <2>5, <2>6, OnConnectionKept
    <2>7. CASE exporter'[w] = exporter[w]
        BY <2>3, <2>6, <2>7
    <2>8. CASE EnterBucket(w) /\ ~OnConnection(w, v, k)
        <3>1. /\ exporter[w].todo = {}
              /\ exporter'[w].bucket = exporter[w].bucket + 1
              /\ exporter'[w].todo = InBucket(w, exporter[w].bucket)
            BY <2>8, EnterBucketEffect
        <3>2. BucketOf[k] >= exporter[w].bucket
            BY <2>3, <2>8, <3>1
        <3>3. BucketOf[k] \in Nat /\ exporter[w].bucket \in Nat
            BY <2>5, ExporterTypes, ReplicationAssumption
        <3> QED BY <2>5, <3>1, <3>2, <3>3 DEF InBucket
    <2>9. CASE SendEntry(w) /\ ~OnConnection(w, v, k)
        <3>1. exporter'[w].bucket = exporter[w].bucket
            BY <2>9, SendEntryEffect
        <3>2. PICK key \in exporter[w].todo :
                 /\ exporter'[w].todo = exporter[w].todo \ {key}
                 /\ Sends(w, v, Data("entry", key, table[w][key]))
                 /\ key \in Keys /\ table[w][key] \in Puts
            BY <2>2, <2>9, SendEntryEffect DEF Targeted
        <3>3. CASE key # k
            BY <2>3, <2>9, <3>1, <3>2, <3>3
        <3>4. CASE key = k
            <4> DEFINE m == Data("entry", key, table[w][key])
            <4>1. m \in Messages /\ m.key = k
                BY <3>2, <3>4 DEF Data, Messages
            <4> HIDE DEF m
            <4>2. chan'[w][v] = Append(chan[w][v], m)
                BY <1>1, <3>2, SendsEffect DEF m
            <4>3. PICK msg \in Messages : msg.key = k /\ chan'[w][v] = Append(chan[w][v], msg)
                BY <4>1, <4>2
            <4>4. OnConnection(w, v, msg.key)'
                BY <1>1, <4>3, OnConnectionSent
            <4> QED BY <4>3, <4>4
        <3> QED BY <3>3, <3>4
    <2> QED BY <2>2, <2>6, <2>7, <2>8, <2>9
<1> QED BY <1>6, <1>7

\* What the end of an export is told of comes before it on the connection.
EndsCover ==
    \A w \in Workers, v \in alive : \A j \in 1 .. Len(chan[w][v]) :
       chan[w][v][j].type = "end" => \A k \in snapshot[w][v] : Arrives(w, v, k, j)

LEMMA EndsCoverStep ==
    /\ TypeOK /\ CastsItems /\ ExporterCoherent /\ AskedOnce /\ ExportsCover /\ EndsCover
    /\ Framed
    => EndsCover'
<1> SUFFICES ASSUME TypeOK, CastsItems, ExporterCoherent, AskedOnce, ExportsCover, EndsCover,
                    Framed,
                    NEW w \in Workers, NEW v \in alive', NEW j \in 1 .. Len(chan'[w][v]),
                    chan'[w][v][j].type = "end", NEW k \in snapshot'[w][v]
             PROVE  Arrives(w, v, k, j)'
    BY DEF EndsCover
<1>1. v \in Workers /\ v \in alive
    BY StillAlive
<1>2. chan[w][v] \in Seq(Messages) /\ Len(chan[w][v]) \in Nat
    BY <1>1, PairTypes
<1>3. ~(SendStart(w) /\ Targeted(w, v))
    <2> SUFFICES ASSUME SendStart(w), Targeted(w, v) PROVE FALSE
        OBVIOUS
    <2>1. ~Told(w, v)
        BY <1>1 DEF AskedOnce
    <2>2. Told(w, v)'
        BY DEF Told
    <2>3. ~SendEnd(w)
        BY DEF SendStart, SendEnd
    <2> QED BY <1>1, <2>1, <2>2, <2>3, ToldStep
<1>4. snapshot'[w][v] = snapshot[w][v] /\ k \in snapshot[w][v] /\ k \in Keys
    BY <1>1, <1>3, SnapshotTaken, PairTypes
<1>5. ASSUME j \in 1 .. Len(chan[w][v]), chan[w][v][j] = chan'[w][v][j],
             \/ chan'[w][v] = chan[w][v]
             \/ \E m \in Messages : chan'[w][v] = Append(chan[w][v], m)
      PROVE  Arrives(w, v, k, j)'
    <2>1. Arrives(w, v, k, j)
        BY <1>1, <1>4, <1>5 DEF EndsCover
    <2>2. j \in 1 .. Len(chan[w][v]) + 1
        BY <1>2, <1>5
    <2> QED BY <1>1, <1>4, <1>5, <2>1, <2>2, ArrivesSent
<1>6. CASE chan'[w][v] = chan[w][v]
    BY <1>5, <1>6
<1>7. CASE ChanLost(w, v)
    <2>1. Len(chan'[w][v]) = 0
        BY <1>7, EmptySeq DEF ChanLost
    <2> QED BY <2>1
<1>8. CASE ChanRead(w, v)
    <2>1. chan[w][v] # << >> /\ chan'[w][v] = Tail(chan[w][v])
        BY <1>8 DEF ChanRead
    <2>2. /\ Len(chan[w][v]) \in Nat \ {0} /\ Len(chan'[w][v]) = Len(chan[w][v]) - 1
          /\ \A i \in 1 .. Len(chan[w][v]) - 1 : chan'[w][v][i] = chan[w][v][i + 1]
        BY <1>2, <2>1, Taken
    <2>3. /\ j \in 1 .. Len(chan[w][v]) - 1 /\ j + 1 \in 1 .. Len(chan[w][v])
          /\ j + 1 \in 2 .. Len(chan[w][v]) + 1 /\ (j + 1) - 1 = j
        BY <2>2
    <2>4. chan[w][v][j + 1].type = "end"
        BY <2>2, <2>3
    <2>5. Arrives(w, v, k, j + 1)
        BY <1>1, <1>4, <2>3, <2>4 DEF EndsCover
    <2>6. Arrives(w, v, k, (j + 1) - 1)'
        BY <1>1, <1>4, <1>8, <2>3, <2>5, ArrivesRead
    <2> QED BY <2>3, <2>6
<1>9. ASSUME NEW m \in Messages, chan'[w][v] = Append(chan[w][v], m),
             m.type # "end" \/ ChanEnded(w, v)
      PROVE  Arrives(w, v, k, j)'
    <2>1. /\ Len(chan'[w][v]) = Len(chan[w][v]) + 1 /\ chan'[w][v][Len(chan[w][v]) + 1] = m
          /\ \A i \in 1 .. Len(chan[w][v]) : chan'[w][v][i] = chan[w][v][i]
        BY <1>2, <1>9, Appended
    <2>2. j \in 1 .. Len(chan[w][v]) \/ j = Len(chan[w][v]) + 1
        BY <1>2, <2>1
    <2>3. CASE j \in 1 .. Len(chan[w][v])
        BY <1>5, <1>9, <2>1, <2>3
    <2>4. CASE j = Len(chan[w][v]) + 1
        <3>1. SendEnd(w) /\ Targeted(w, v) /\ Whole(w, v)
            BY <1>9, <2>1, <2>4 DEF ChanEnded, Targeted
        <3>2. exporter[w].pc = "buckets" /\ exporter[w].todo = {} /\ exporter[w].bucket > Buckets
            BY <3>1 DEF SendEnd
        <3>3. \/ OnConnection(w, v, k)
              \/ BucketOf[k] >= exporter[w].bucket
            BY <1>1, <1>4, <3>1, <3>2 DEF ExportsCover
        <3>4. BucketOf[k] \in 1 .. Buckets /\ Buckets \in Nat /\ exporter[w].bucket \in Nat
            BY <1>4, ExporterTypes, ReplicationAssumption
        <3>5. Arrives(w, v, k, j)
            BY <2>4, <3>2, <3>3, <3>4 DEF OnConnection
        <3>6. j \in 1 .. Len(chan[w][v]) + 1
            BY <1>2, <2>4
        <3> QED BY <1>1, <1>4, <1>9, <3>5, <3>6, ArrivesSent
    <2> QED BY <2>2, <2>3, <2>4
<1>10. CASE ChanNotified(w, v)
    <2>1. PICK m \in Messages : m.type = "notify" /\ chan'[w][v] = Append(chan[w][v], m)
        BY <1>10 DEF ChanNotified
    <2> QED BY <1>9, <2>1
<1>11. ~ChanStarted(w, v)
    BY <1>3 DEF ChanStarted, Targeted
<1>12. CASE ChanEntry(w, v)
    <2>1. PICK key \in Keys : /\ table[w][key] \in Puts
                              /\ chan'[w][v] = Append(chan[w][v], Data("entry", key, table[w][key]))
        BY <1>12 DEF ChanEntry
    <2>2. /\ Data("entry", key, table[w][key]) \in Messages
          /\ Data("entry", key, table[w][key]).type # "end"
        BY <2>1 DEF Data, Messages
    <2> QED BY <1>9, <2>1, <2>2
<1>13. CASE ChanEnded(w, v)
    <2>1. Mark("end") \in Messages /\ chan'[w][v] = Append(chan[w][v], Mark("end"))
        BY <1>13 DEF Mark, Messages, ChanEnded
    <2> QED BY <1>9, <1>13, <2>1
<1> QED BY <1>1, <1>6, <1>7, <1>8, <1>10, <1>11, <1>12, <1>13, ChanOrigin

-----------------------------------------------------------------------------
(* The invariant and the theorems.                                         *)

\* What the properties rest on, in the order of the sections above.
ReplicationInvariant ==
    /\ TypeOK
    /\ CastsItems
    /\ LostAreGone
    /\ ExporterCoherent
    /\ StoresBacked
    /\ AskedOfOthers
    /\ GoneAreDeaf
    /\ PeersLinked
    /\ LinksServed
    /\ TargetsKnown
    /\ DueStored
    /\ OwnOverwritten
    /\ NothingSkipped
    /\ NotYet
    /\ AskedOnce
    /\ ExportsCover
    /\ EndsCover

LEMMA InitHolds == Init => ReplicationInvariant
<1> SUFFICES ASSUME Init PROVE ReplicationInvariant
    OBVIOUS
<1>1. TypeOK
    BY TypeInit
<1>2. /\ Quiet.casting = FALSE /\ Quiet.lost = << >> /\ Range(<< >>) = {}
      /\ \A x : ~(\E i \in 1 .. Len(<< >>) : << >>[i] = x) /\ Len(<< >>) = 0
      /\ Nothing.key = None /\ None \notin Keys /\ None \notin Workers
    BY QuietFields, EmptySeq, ReplicationAssumption DEF Range, Nothing, Quiet
<1>3. /\ \A w \in Workers : /\ receiver[w] = Quiet /\ inbox[w] = << >> /\ peers[w] = << >>
                            /\ exports[w] = << >> /\ exporter[w] = Idle
                            /\ serving[w] = None /\ backlog[w] = << >> /\ listener[w] = Nothing
      /\ \A w, v \in Workers : /\ link[w][v] = "none" /\ chan[w][v] = << >>
                               /\ due[w][v] = {} /\ snapshot[w][v] = {}
      /\ alive = Workers
    BY DEF Init, Pairs
<1>4. CastsItems /\ LostAreGone
    BY <1>2, <1>3 DEF CastsItems, LostAreGone
<1>5. ExporterCoherent
    BY <1>3, IdleIsSo DEF ExporterCoherent, IdleFields
<1>6. StoresBacked /\ AskedOfOthers
    BY <1>2, <1>3 DEF StoresBacked, AskedOfOthers
<1>7. GoneAreDeaf /\ PeersLinked /\ LinksServed /\ DueStored
    BY <1>2, <1>3 DEF GoneAreDeaf, PeersLinked, LinksServed, DueStored
<1>8. TargetsKnown
    BY <1>2, <1>3, IdleIsSo DEF TargetsKnown, IdleFields
<1>9. OwnOverwritten
    BY <1>2, <1>3 DEF OwnOverwritten
<1>10. NothingSkipped
    BY <1>3 DEF NothingSkipped
<1>11. ASSUME NEW w \in Workers, NEW v \in Workers
       PROVE  /\ Once(inbox[w], Entry(v, TRUE)) /\ Once(exports[w], v)
              /\ ~Waiting(w, v) /\ ~Queued(w, v) /\ ~Targeted(w, v) /\ ~Told(w, v)
    <2>1. /\ inbox[w] = << >> /\ exports[w] = << >> /\ chan[w][v] = << >>
          /\ exporter[w].target = None
        BY <1>3, IdleIsSo DEF IdleFields
    <2>2. Once(<< >>, Entry(v, TRUE)) /\ Once(<< >>, v)
        BY <1>2 DEF Once
    <2>3. ~Waiting(w, v) /\ ~Queued(w, v) /\ ~Targeted(w, v)
        BY <1>2, <2>1 DEF Waiting, Queued, Targeted
    <2>4. ~Told(w, v)
        BY <1>2, <2>1 DEF Told
    <2>5. Once(inbox[w], Entry(v, TRUE)) /\ Once(exports[w], v)
        BY <2>1, <2>2
    <2> QED BY <2>3, <2>4, <2>5
<1>12. NotYet /\ AskedOnce
    BY <1>3, <1>11 DEF NotYet, AskedOnce
<1>13. ExportsCover /\ EndsCover
    BY <1>2, <1>3, IdleIsSo DEF ExportsCover, EndsCover, IdleFields
<1> QED BY <1>1, <1>4, <1>5, <1>6, <1>7, <1>8, <1>9, <1>10, <1>12, <1>13
        DEF ReplicationInvariant

LEMMA NextHolds == ReplicationInvariant /\ [Next]_vars => ReplicationInvariant'
<1> SUFFICES ASSUME ReplicationInvariant, [Next]_vars PROVE ReplicationInvariant'
    OBVIOUS
<1>1. Framed
    BY Frames
<1>2. TypeOK'
    BY TypeStep DEF ReplicationInvariant
<1>3. CastsItems' /\ LostAreGone' /\ ExporterCoherent'
    BY <1>1, CastsStep, LostStep, ExporterStepCoherent DEF ReplicationInvariant
<1>4. StoresBacked' /\ AskedOfOthers'
    BY <1>1, StoresStep, AskedStep DEF ReplicationInvariant
<1>5. GoneAreDeaf' /\ PeersLinked' /\ LinksServed'
    BY <1>1, DeafStep, LinkedStep, ServedStep DEF ReplicationInvariant
<1>6. TargetsKnown' /\ DueStored' /\ OwnOverwritten'
    BY <1>1, TargetsStep, DueStoredStep, OwnStep DEF ReplicationInvariant
<1>7. NothingSkipped'
    BY <1>1, SkippedStep DEF ReplicationInvariant
<1>8. NotYet' /\ AskedOnce'
    BY <1>1, NotYetStep, AskedOnceStep DEF ReplicationInvariant
<1>9. ExportsCover' /\ EndsCover'
    BY <1>1, ExportsCoverStep, EndsCoverStep DEF ReplicationInvariant
<1> QED BY <1>2, <1>3, <1>4, <1>5, <1>6, <1>7, <1>8, <1>9 DEF ReplicationInvariant

\* The invariant holds in every state of the replication.
THEOREM InvariantHolds == Spec => []ReplicationInvariant
BY InitHolds, NextHolds, PTL DEF Spec

\* Every variable keeps its type: no message is malformed, no connection
\* carries more than it takes.
THEOREM TypeCorrect == Spec => []TypeOK
<1>1. ReplicationInvariant => TypeOK
    BY DEF ReplicationInvariant
<1> QED BY <1>1, InvariantHolds, PTL

\* Nothing a worker undertook to send to a peer is skipped (BroadcastData,
\* ExportHashTableToPeer), neither by the loop over the peers, nor by the loop
\* over the buckets, nor between two of them, as long as the two threads that
\* send to the peer have not mixed a header with another's payload.
THEOREM NoKeyIsSkipped == Spec => []NothingSkipped
<1>1. ReplicationInvariant => NothingSkipped
    BY DEF ReplicationInvariant
<1> QED BY <1>1, InvariantHolds, PTL

\* MSG_DATA_EXPORT_END, when it comes whole, is read after everything the export
\* was about, however the sends of a broadcast come between those of the export.
THEOREM ExportsAreComplete == Spec => []ExportComplete
<1>1. ReplicationInvariant => ExportComplete
    <2> SUFFICES ASSUME ReplicationInvariant, NEW v \in Workers, Ready(v),
                        Head(chan[serving[v]][v]).type = "end",
                        NEW k \in snapshot[serving[v]][v]
                 PROVE  k \in Stored(v)
        BY DEF ExportComplete
    <2> DEFINE w == serving[v]
    <2>1. /\ TypeOK /\ GoneAreDeaf /\ EndsCover
        BY DEF ReplicationInvariant
    <2>2. w \in Workers /\ chan[w][v] \in Seq(Messages) /\ chan[w][v] # << >>
        BY <2>1, ReadyTypes
    <2>3. v \in alive /\ w # None /\ listener[v] = Nothing
        BY <2>1 DEF GoneAreDeaf, Ready
    <2> HIDE DEF w
    <2>4. Head(chan[w][v]) = chan[w][v][1] /\ 1 \in 1 .. Len(chan[w][v])
        BY <2>2, Taken
    <2>5. Arrives(w, v, k, 1)
        BY <2>1, <2>2, <2>3, <2>4 DEF EndsCover, w
    <2>6. k \in Keys
        BY <2>1, <2>2, PairTypes DEF w
    <2>7. ~ \E i \in 1 .. 1 - 1 : chan[w][v][i].key = k
        OBVIOUS
    <2>8. listener[v].key # k
        BY <2>3, <2>6, ReplicationAssumption DEF Nothing
    <2> QED BY <2>5, <2>7, <2>8 DEF Arrives, Held
<1> QED BY <1>1, InvariantHolds, PTL

\* Data from a peer replaces a value of the worker's own STORE at most (the
\* listener's HasHashTable and SetHashTable take the lock one after the other).
THEOREM PeerDataIsKept == Spec => PeerDataKept
<1> DEFINE Kept == \A v \in alive \cap alive', k \in Keys :
                      /\ table[v][k] # None
                      /\ at[table[v][k]] # v
                      /\ table'[v][k] # table[v][k]
                      => receiver'[v].item = [key |-> k, put |-> table'[v][k]]
<1>1. ReplicationInvariant /\ [Next]_vars => [Kept]_vars
    BY Frames, KeptStep DEF ReplicationInvariant
<1> HIDE DEF Kept
<1>2. Spec => [][Kept]_vars
    BY <1>1, InvariantHolds, PTL DEF Spec
<1> QED BY <1>2 DEF PeerDataKept, Kept
=============================================================================
