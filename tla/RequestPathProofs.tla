-------------------------- MODULE RequestPathProofs --------------------------
(***************************************************************************)
(* Proofs about RequestPath, for any finite sets of requests and workers   *)
(* and any capacities: its types, that every accepted request is in one    *)
(* place, and that a loss before the response queue has a cause.           *)
(***************************************************************************)
EXTENDS RequestPath, FiniteSetTheorems, SequenceTheorems, TLAPS

(* EachRequestOnce counts places.  The proof names them: a sequence that   *)
(* carries requests is a spot, and what it carries is its content.         *)
Here == {"queue", "dispatcher", "responses", "answered", "lost"}
Spots == (Here \X {None}) \cup ({"inbox", "outbox"} \X Workers)

At(place) == <<place, None>>

ContentsOf(q, x, rs, an, lo, in, out) ==
    [h \in Spots |-> CASE h[1] = "queue"      -> ToSet(q)
                       [] h[1] = "dispatcher" -> {x} \ {None}
                       [] h[1] = "responses"  -> ToSet(rs)
                       [] h[1] = "answered"   -> {r \in Requests : an[r] = 1}
                       [] h[1] = "lost"       -> {r \in Requests : lo[r] # None}
                       [] h[1] = "inbox"      -> ToSet(in[h[2]])
                       [] OTHER               -> ToSet(out[h[2]])]

Contents == ContentsOf(queue, request, responses, answers, lost, inbox, outbox)

Accepted == {r \in Requests : status[r] = "accepted"}

\* Each member of R is at one spot, and nothing else is anywhere.
OneSpot(C, R) == /\ \A h \in Spots : C[h] \subseteq R
                 /\ \A r \in R : \E h \in Spots : r \in C[h]
                 /\ \A h, g \in Spots : h # g => C[h] \cap C[g] = {}

(* A spot must not hold a request twice either.                            *)
OnceInv == /\ OneSpot(Contents, Accepted)
           /\ IsInjective(queue)
           /\ IsInjective(responses)
           /\ \A w \in Workers : IsInjective(inbox[w]) /\ IsInjective(outbox[w])
           /\ \A r \in Requests : answers[r] \in {0, 1}

Joined == {w \in Workers : conn[w] # "none"}

(* A listed worker and the chosen one have joined, and one to which a send *)
(* failed is gone, unless a live one has refused a send before.            *)
PlaceInv == /\ ToSet(list) \subseteq Joined
            /\ alive \subseteq Joined
            /\ permits <= Cardinality(Joined)
            /\ dispatcher = "round" => target = None
            /\ dispatcher # "round" => request # None /\ target \in Joined
            /\ dispatcher = "return" => target \notin alive \/ refused
            /\ refused \in BOOLEAN

PathTypes == /\ status \in [Requests -> {"new", "checked", "accepted", "rejected"}]
             /\ queue \in Seq(Requests) /\ Len(queue) <= QueueCapacity
             /\ dispatcher \in {"round", "send", "return"}
             /\ request \in Requests \cup {None}
             /\ target \in Workers \cup {None}
             /\ responses \in Seq(Requests) /\ Len(responses) <= ResponseCapacity
             /\ inbox \in [Workers -> Seq(Requests)]
             /\ outbox \in [Workers -> Seq(Requests)]
             /\ answers \in [Requests -> Nat]
             /\ lost \in [Requests -> Losses \cup {None}]

ListTypes == /\ list \in Seq(Workers)
             /\ permits \in Nat
             /\ conn \in [Workers -> {"none", "serve", "close", "done"}]
             /\ alive \subseteq Workers

PathInv == PathTypes /\ ListTypes /\ PlaceInv /\ OnceInv /\ LossExplained

-----------------------------------------------------------------------------
(* Sequences.                                                              *)

\* What a sequence carries, and that its length is a number.
LEMMA Carried ==
    ASSUME NEW S, NEW s \in Seq(S)
    PROVE  /\ Len(s) \in Nat
           /\ DOMAIN s = 1 .. Len(s)
           /\ ToSet(s) = {s[i] : i \in 1 .. Len(s)}
           /\ ToSet(s) \subseteq S
BY LenProperties, ElementOfSeq DEF ToSet

\* Appending adds one element.
LEMMA Appended ==
    ASSUME NEW S, NEW s \in Seq(S), NEW x \in S
    PROVE  /\ Append(s, x) \in Seq(S)
           /\ Len(Append(s, x)) = Len(s) + 1
           /\ ToSet(Append(s, x)) = ToSet(s) \cup {x}
           /\ IsInjective(s) /\ x \notin ToSet(s) => IsInjective(Append(s, x))
<1> DEFINE t == Append(s, x)
<1>1. /\ t \in Seq(S) /\ Len(t) = Len(s) + 1
      /\ \A i \in 1 .. Len(s) : t[i] = s[i]
      /\ t[Len(s) + 1] = x
    BY AppendProperties
<1>2. /\ Len(s) \in Nat /\ DOMAIN s = 1 .. Len(s) /\ DOMAIN t = 1 .. Len(s) + 1
      /\ ToSet(s) = {s[i] : i \in 1 .. Len(s)} /\ ToSet(t) = {t[i] : i \in 1 .. Len(s) + 1}
    BY <1>1, Carried
<1> HIDE DEF t
<1>3. ToSet(t) = ToSet(s) \cup {x}
    BY <1>1, <1>2
<1>4. IsInjective(s) /\ x \notin ToSet(s) => IsInjective(t)
    BY <1>1, <1>2 DEF IsInjective
<1> QED BY <1>1, <1>3, <1>4 DEF t

\* The tail of a sequence without duplicates lacks its head.
LEMMA Taken ==
    ASSUME NEW S, NEW s \in Seq(S), s # << >>
    PROVE  /\ Head(s) \in S
           /\ Head(s) \in ToSet(s)
           /\ Tail(s) \in Seq(S)
           /\ Len(Tail(s)) = Len(s) - 1
           /\ ToSet(s) = ToSet(Tail(s)) \cup {Head(s)}
           /\ IsInjective(s) => /\ IsInjective(Tail(s))
                                /\ ToSet(Tail(s)) = ToSet(s) \ {Head(s)}
<1> DEFINE t == Tail(s)
<1>1. /\ Head(s) = s[1] /\ Head(s) \in S
      /\ t \in Seq(S) /\ Len(t) = Len(s) - 1
      /\ \A i \in 1 .. Len(s) - 1 : t[i] = s[i + 1]
    BY HeadTailProperties
<1>2. Len(s) \in Nat \ {0}
    BY EmptySeq
<1>3. /\ DOMAIN s = 1 .. Len(s) /\ DOMAIN t = 1 .. Len(s) - 1
      /\ ToSet(s) = {s[i] : i \in 1 .. Len(s)} /\ ToSet(t) = {t[i] : i \in 1 .. Len(s) - 1}
    BY <1>1, Carried
<1> HIDE DEF t
<1>4. \A i \in 1 .. Len(s) : i = 1 \/ \E j \in 1 .. Len(s) - 1 : t[j] = s[i]
    <2> SUFFICES ASSUME NEW i \in 1 .. Len(s), i # 1
                 PROVE  \E j \in 1 .. Len(s) - 1 : t[j] = s[i]
        OBVIOUS
    <2>1. i - 1 \in 1 .. Len(s) - 1 /\ t[i - 1] = s[i]
        BY <1>1, <1>2
    <2> QED BY <2>1
<1>5. \A j \in 1 .. Len(s) - 1 : t[j] = s[j + 1] /\ j + 1 \in 1 .. Len(s) /\ j + 1 # 1
    BY <1>1, <1>2
<1>6. 1 \in 1 .. Len(s)
    BY <1>2
<1>7. ToSet(s) = ToSet(t) \cup {Head(s)}
    <2>1. ToSet(s) \subseteq ToSet(t) \cup {Head(s)}
        BY <1>1, <1>3, <1>4
    <2>2. ToSet(t) \cup {Head(s)} \subseteq ToSet(s)
        BY <1>1, <1>3, <1>5, <1>6
    <2> QED BY <2>1, <2>2
<1>8. ASSUME IsInjective(s) PROVE IsInjective(t) /\ Head(s) \notin ToSet(t)
    <2>1. \A i, j \in 1 .. Len(s) : s[i] = s[j] => i = j
        BY <1>3, <1>8 DEF IsInjective
    <2>2. IsInjective(t)
        BY <1>2, <1>3, <1>5, <2>1 DEF IsInjective
    <2>3. Head(s) \notin ToSet(t)
        BY <1>1, <1>3, <1>5, <1>6, <2>1
    <2> QED BY <2>2, <2>3
<1> QED BY <1>1, <1>7, <1>8 DEF t

\* A cut divides what a sequence without duplicates carries.
LEMMA Cut ==
    ASSUME NEW S, NEW s \in Seq(S), NEW n \in 0 .. Len(s), IsInjective(s)
    PROVE  LET a == SubSeq(s, 1, n)
               b == SubSeq(s, n + 1, Len(s))
           IN  /\ a \in Seq(S)
               /\ IsInjective(a)
               /\ ToSet(b) \subseteq ToSet(s)
               /\ ToSet(a) = ToSet(s) \ ToSet(b)
<1> DEFINE a == SubSeq(s, 1, n)
           b == SubSeq(s, n + 1, Len(s))
           m == Len(s)
<1>1. m \in Nat /\ n \in 0 .. m /\ (\A i \in 1 .. m : s[i] \in S) /\ DOMAIN s = 1 .. m
      /\ ToSet(s) = {s[i] : i \in 1 .. m}
    BY Carried, ElementOfSeq
<1>2. a \in Seq(S) /\ Len(a) = n /\ \A i \in 1 .. n : a[i] = s[i]
    BY <1>1, SubSeqProperties
<1>3. b \in Seq(S) /\ Len(b) = m - n /\ \A i \in 1 .. m - n : b[i] = s[n + i]
    <2>1. n + 1 \in Int /\ m \in Int /\ \A i \in n + 1 .. m : s[i] \in S
        BY <1>1
    <2>2. /\ b \in Seq(S) /\ Len(b) = IF n + 1 <= m THEN m - (n + 1) + 1 ELSE 0
          /\ \A i \in 1 .. m - (n + 1) + 1 : b[i] = s[n + 1 + i - 1]
        BY <2>1, SubSeqProperties
    <2> HIDE DEF b, m
    <2>3. m - (n + 1) + 1 = m - n /\ Len(b) = m - n
        BY <1>1, <2>2
    <2>4. \A i \in 1 .. m - n : n + 1 + i - 1 = n + i
        BY <1>1
    <2> QED BY <2>2, <2>3, <2>4
<1> HIDE DEF a, b, m
<1>4. /\ DOMAIN a = 1 .. n /\ ToSet(a) = {a[i] : i \in 1 .. n}
      /\ ToSet(b) = {b[i] : i \in 1 .. m - n}
    <2>1. DOMAIN a = 1 .. Len(a) /\ ToSet(a) = {a[i] : i \in 1 .. Len(a)}
        BY <1>2, Carried
    <2>2. ToSet(b) = {b[i] : i \in 1 .. Len(b)}
        BY <1>3, Carried
    <2> QED BY <1>2, <1>3, <2>1, <2>2
<1>5. \A i, j \in 1 .. m : s[i] = s[j] => i = j
    BY <1>1 DEF IsInjective
<1>6. IsInjective(a)
    BY <1>1, <1>2, <1>4, <1>5 DEF IsInjective
<1>7. ToSet(b) = {s[i] : i \in n + 1 .. m}
    <2>1. \A i \in 1 .. m - n : n + i \in n + 1 .. m /\ b[i] = s[n + i]
        BY <1>1, <1>3
    <2>2. \A i \in n + 1 .. m : i - n \in 1 .. m - n /\ b[i - n] = s[i]
        BY <1>1, <1>3
    <2>3. ToSet(b) \subseteq {s[i] : i \in n + 1 .. m}
        BY <1>4, <2>1
    <2>4. {s[i] : i \in n + 1 .. m} \subseteq ToSet(b)
        BY <1>4, <2>2
    <2> QED BY <2>3, <2>4
<1>8. ToSet(a) = {s[i] : i \in 1 .. n}
    BY <1>2, <1>4
<1>9. \A i \in 1 .. m : i \in 1 .. n <=> ~ (i \in n + 1 .. m)
    BY <1>1
<1>10. 1 .. n \subseteq 1 .. m /\ n + 1 .. m \subseteq 1 .. m
    BY <1>1
<1>11. ToSet(b) \subseteq ToSet(s)
    BY <1>1, <1>7, <1>10
<1>12. ToSet(a) = ToSet(s) \ ToSet(b)
    <2>1. \A x : x \in ToSet(a) <=> \E i \in 1 .. m : i \in 1 .. n /\ x = s[i]
        BY <1>8, <1>10
    <2>2. \A x : x \in ToSet(b) <=> \E i \in 1 .. m : i \notin 1 .. n /\ x = s[i]
        BY <1>7, <1>9, <1>10
    <2>3. \A x : x \in ToSet(s) <=> \E i \in 1 .. m : x = s[i]
        BY <1>1
    <2> QED BY <1>5, <2>1, <2>2, <2>3
<1> QED BY <1>2, <1>6, <1>11, <1>12 DEF a, b

\* Inserting into a list adds one element.
LEMMA Inserted ==
    ASSUME NEW S, NEW s \in Seq(S), NEW i \in 1 .. Len(s) + 1, NEW x \in S
    PROVE  InsertAt(s, i, x) \in Seq(S) /\ ToSet(InsertAt(s, i, x)) \subseteq ToSet(s) \cup {x}
<1> DEFINE a == SubSeq(s, 1, i - 1)
           b == SubSeq(s, i, Len(s))
           T == ToSet(s) \cup {x}
<1>1. Len(s) \in Nat /\ (\A k \in 1 .. Len(s) : s[k] \in T) /\ T \subseteq S
    BY Carried
<1>2. /\ i - 1 \in Int /\ i \in Int /\ Len(s) \in Int
      /\ \A k \in 1 .. i - 1 : s[k] \in T
      /\ \A k \in i .. Len(s) : s[k] \in T
    BY <1>1
<1>3. a \in Seq(T) /\ b \in Seq(T) /\ <<x>> \in Seq(T)
    BY <1>2, SubSeqProperties
<1> HIDE DEF a, b, T
<1>4. (a \o <<x>>) \o b \in Seq(T)
    BY <1>3, ConcatProperties
<1>5. InsertAt(s, i, x) = (a \o <<x>>) \o b
    BY DEF InsertAt, a, b
<1>6. InsertAt(s, i, x) \in Seq(S) /\ ToSet(InsertAt(s, i, x)) \subseteq T
    BY <1>1, <1>4, <1>5, Carried, SeqMonotonic
<1> QED BY <1>6 DEF T

\* Removing from a list adds nothing.
LEMMA Removed ==
    ASSUME NEW S, NEW s \in Seq(S), NEW i \in 1 .. Len(s)
    PROVE  RemoveAt(s, i) \in Seq(S) /\ ToSet(RemoveAt(s, i)) \subseteq ToSet(s)
<1> DEFINE a == SubSeq(s, 1, i - 1)
           b == SubSeq(s, i + 1, Len(s))
           T == ToSet(s)
<1>1. Len(s) \in Nat /\ (\A k \in 1 .. Len(s) : s[k] \in T) /\ T \subseteq S
    BY Carried
<1>2. /\ i - 1 \in Int /\ i + 1 \in Int /\ Len(s) \in Int
      /\ \A k \in 1 .. i - 1 : s[k] \in T
      /\ \A k \in i + 1 .. Len(s) : s[k] \in T
    BY <1>1
<1>3. a \in Seq(T) /\ b \in Seq(T)
    BY <1>2, SubSeqProperties
<1> HIDE DEF a, b, T
<1>4. a \o b \in Seq(T)
    BY <1>3, ConcatProperties
<1>5. RemoveAt(s, i) = a \o b
    BY DEF RemoveAt, a, b
<1>6. RemoveAt(s, i) \in Seq(S) /\ ToSet(RemoveAt(s, i)) \subseteq T
    BY <1>1, <1>4, <1>5, Carried, SeqMonotonic
<1> QED BY <1>6 DEF T

-----------------------------------------------------------------------------
(* Moving requests between spots.                                          *)

\* Requests that leave wherever they were for one spot.
LEMMA AllMoved ==
    ASSUME NEW C, NEW D, NEW R, NEW X, NEW b \in Spots,
           OneSpot(C, R), X \subseteq R,
           \A h \in Spots : h # b => D[h] = C[h] \ X,
           D[b] = C[b] \cup X
    PROVE  OneSpot(D, R)
<1>1. \A h \in Spots : D[h] \subseteq R
    BY DEF OneSpot
<1>2. \A r \in R : \E h \in Spots : r \in D[h]
    BY DEF OneSpot
<1>3. \A h, g \in Spots : h # g => D[h] \cap D[g] = {}
    BY DEF OneSpot
<1> QED BY <1>1, <1>2, <1>3 DEF OneSpot

\* One request goes from spot a to spot b.
LEMMA OneMoved ==
    ASSUME NEW C, NEW D, NEW R, NEW a \in Spots, NEW b \in Spots, NEW x \in C[a],
           a # b, OneSpot(C, R),
           \A h \in Spots \ {a, b} : D[h] = C[h],
           D[a] = C[a] \ {x},
           D[b] = C[b] \cup {x}
    PROVE  OneSpot(D, R) /\ x \notin C[b]
<1>1. {x} \subseteq R /\ \A h \in Spots : h # a => x \notin C[h]
    BY DEF OneSpot
<1>2. \A h \in Spots : h # b => D[h] = C[h] \ {x}
    BY <1>1
<1>3. OneSpot(D, R)
    <2> DEFINE X == {x}
    <2>1. X \subseteq R /\ D[b] = C[b] \cup X /\ \A h \in Spots : h # b => D[h] = C[h] \ X
        BY <1>1, <1>2
    <2> HIDE DEF X
    <2> QED BY <2>1, AllMoved
<1> QED BY <1>1, <1>3

\* A new request comes to spot b.
LEMMA OneCame ==
    ASSUME NEW C, NEW D, NEW R, NEW b \in Spots, NEW x,
           x \notin R, OneSpot(C, R),
           \A h \in Spots \ {b} : D[h] = C[h],
           D[b] = C[b] \cup {x}
    PROVE  OneSpot(D, R \cup {x}) /\ x \notin C[b]
BY DEF OneSpot

\* A request leaves every spot.
LEMMA OneGone ==
    ASSUME NEW C, NEW D, NEW R, NEW x,
           OneSpot(C, R),
           \A h \in Spots : D[h] = C[h] \ {x}
    PROVE  OneSpot(D, R \ {x})
BY DEF OneSpot

\* The spots, and that their names differ.
LEMMA SpotNames ==
    /\ \A p \in Here : At(p) \in Spots
    /\ \A w \in Workers : <<"inbox", w>> \in Spots /\ <<"outbox", w>> \in Spots
    /\ \A h \in Spots : \/ \E p \in Here : h = At(p)
                        \/ \E w \in Workers : h = <<"inbox", w>> \/ h = <<"outbox", w>>
    /\ \A p, q \in Here : At(p) = At(q) => p = q
    /\ \A p \in Here, w \in Workers : At(p) # <<"inbox", w>> /\ At(p) # <<"outbox", w>>
    /\ \A v, w : <<"inbox", v>> # <<"outbox", w>>
    /\ \A v, w : <<"inbox", v>> = <<"inbox", w>> => v = w
    /\ \A v, w : <<"outbox", v>> = <<"outbox", w>> => v = w
BY DEF Spots, At, Here

\* What ContentsOf gives for each spot.
LEMMA ContentsAt ==
    ASSUME NEW q, NEW x, NEW rs, NEW an, NEW lo, NEW in, NEW out
    PROVE  LET C == ContentsOf(q, x, rs, an, lo, in, out)
           IN  /\ C[At("queue")] = ToSet(q)
               /\ C[At("dispatcher")] = {x} \ {None}
               /\ C[At("responses")] = ToSet(rs)
               /\ C[At("answered")] = {r \in Requests : an[r] = 1}
               /\ C[At("lost")] = {r \in Requests : lo[r] # None}
               /\ \A w \in Workers : /\ C[<<"inbox", w>>] = ToSet(in[w])
                                     /\ C[<<"outbox", w>>] = ToSet(out[w])
<1> DEFINE C == ContentsOf(q, x, rs, an, lo, in, out)
<1>1. \A p \in Here : At(p) \in Spots /\ At(p)[1] = p
    BY DEF Spots, At, Here
<1>2. /\ C[At("queue")] = ToSet(q)
      /\ C[At("dispatcher")] = {x} \ {None}
      /\ C[At("responses")] = ToSet(rs)
    BY <1>1 DEF ContentsOf, Here
<1>3. /\ C[At("answered")] = {r \in Requests : an[r] = 1}
      /\ C[At("lost")] = {r \in Requests : lo[r] # None}
    BY <1>1 DEF ContentsOf, Here
<1>4. \A w \in Workers : /\ <<"inbox", w>> \in Spots /\ <<"outbox", w>> \in Spots
                         /\ C[<<"inbox", w>>] = ToSet(in[w])
                         /\ C[<<"outbox", w>>] = ToSet(out[w])
    BY SpotNames DEF ContentsOf
<1> QED BY <1>2, <1>3, <1>4

\* The spots of Contents now and after a step.
LEMMA SpotContents ==
    /\ Contents[At("queue")] = ToSet(queue)
    /\ Contents[At("dispatcher")] = {request} \ {None}
    /\ Contents[At("responses")] = ToSet(responses)
    /\ Contents[At("answered")] = {r \in Requests : answers[r] = 1}
    /\ Contents[At("lost")] = {r \in Requests : lost[r] # None}
    /\ \A w \in Workers : /\ Contents[<<"inbox", w>>] = ToSet(inbox[w])
                          /\ Contents[<<"outbox", w>>] = ToSet(outbox[w])
    /\ Contents'[At("queue")] = ToSet(queue')
    /\ Contents'[At("dispatcher")] = {request'} \ {None}
    /\ Contents'[At("responses")] = ToSet(responses')
    /\ Contents'[At("answered")] = {r \in Requests : answers'[r] = 1}
    /\ Contents'[At("lost")] = {r \in Requests : lost'[r] # None}
    /\ \A w \in Workers : /\ Contents'[<<"inbox", w>>] = ToSet(inbox'[w])
                          /\ Contents'[<<"outbox", w>>] = ToSet(outbox'[w])
BY ContentsAt DEF Contents

\* What Lose does to the history.
LEMMA LoseAdds ==
    ASSUME NEW R \in SUBSET Requests, NEW where \in Losses, Lose(R, where),
           lost \in [Requests -> Losses \cup {None}]
    PROVE  /\ lost' \in [Requests -> Losses \cup {None}]
           /\ Contents'[At("lost")] = Contents[At("lost")] \cup R
<1>1. \A r \in Requests : lost'[r] = IF r \in R THEN where ELSE lost[r]
    BY DEF Lose
<1>2. lost' \in [Requests -> Losses \cup {None}]
    BY DEF Lose
<1>3. where # None
    BY PathAssumption
<1> QED BY <1>1, <1>2, <1>3, SpotContents

-----------------------------------------------------------------------------
(* Types.                                                                  *)

LEMMA InitInv == Init => PathInv
<1> SUFFICES ASSUME Init PROVE PathInv
    OBVIOUS
<1> USE PathAssumption DEF Init
<1>1. ToSet(<< >>) = {} /\ IsInjective(<< >>) /\ << >> \in Seq(Requests) /\ Len(<< >>) = 0
    BY DEF ToSet, IsInjective
<1>2. PathTypes
    BY DEF PathTypes
<1>3. ListTypes
    BY DEF ListTypes
<1>4. Joined = {} /\ Cardinality(Joined) = 0
    BY FS_EmptySet DEF Joined
<1>5. PlaceInv
    <2>1. refused \in BOOLEAN
        BY Zenon
    <2>2. /\ list = << >> /\ alive = {} /\ permits = 0 /\ dispatcher = "round" /\ target = None
        OBVIOUS
    <2> QED BY ONLY <1>1, <1>4, <2>1, <2>2 DEF PlaceInv
<1>6. \A h \in Spots : Contents[h] = {}
    <2>1. /\ Contents[At("queue")] = {} /\ Contents[At("dispatcher")] = {}
          /\ Contents[At("responses")] = {} /\ Contents[At("answered")] = {}
          /\ Contents[At("lost")] = {}
        BY <1>1, SpotContents
    <2>2. \A w \in Workers : Contents[<<"inbox", w>>] = {} /\ Contents[<<"outbox", w>>] = {}
        BY <1>1, SpotContents
    <2>3. \A p \in Here : Contents[At(p)] = {}
        BY <2>1 DEF Here
    <2> QED BY ONLY <2>2, <2>3, SpotNames
<1>7. Accepted = {}
    BY DEF Accepted
<1>8. OnceInv
    BY <1>1, <1>6, <1>7 DEF OnceInv, OneSpot
<1>9. LossExplained
    BY DEF LossExplained, Losses
<1> QED BY <1>2, <1>3, <1>5, <1>8, <1>9 DEF PathInv

\* Every step keeps the types of requests, queues and connections' contents.
LEMMA TypeStep ==
    ASSUME PathTypes, ListTypes, PlaceInv, OnceInv, [Next]_vars
    PROVE  PathTypes'
<1> USE PathAssumption
<1>0. Len(queue) \in Nat /\ Len(responses) \in Nat
    BY Carried DEF PathTypes
<1>1. ASSUME NEW r \in Requests, Check(r) PROVE PathTypes'
    BY <1>1 DEF PathTypes, Check, dispatcherVars, workerVars
<1>2. ASSUME NEW r \in Requests, Put(r) PROVE PathTypes'
    <2>1. /\ UNCHANGED <<dispatcher, request, target, inbox, outbox, responses, answers, lost>>
          /\ status' \in [Requests -> {"new", "checked", "accepted", "rejected"}]
        BY <1>2 DEF PathTypes, Put, dispatcherVars, workerVars
    <2>2. queue' \in Seq(Requests) /\ Len(queue') <= QueueCapacity
        <3>1. CASE queue' = queue
            BY <3>1 DEF PathTypes
        <3>2. CASE Len(queue) < QueueCapacity /\ queue' = Append(queue, r)
            BY <1>0, <3>2, Appended DEF PathTypes
        <3> QED BY <1>2, <3>1, <3>2 DEF Put
    <2> QED BY <2>1, <2>2 DEF PathTypes
<1>3. CASE Take
    <2>1. /\ UNCHANGED <<status, dispatcher, target, inbox, outbox, responses, answers, lost>>
          /\ queue # << >> /\ request' = Head(queue) /\ queue' = Tail(queue)
        BY <1>3 DEF Take, workerVars
    <2>2. /\ queue' \in Seq(Requests) /\ Len(queue') = Len(queue) - 1
          /\ request' \in Requests
        BY <2>1, Taken DEF PathTypes
    <2> QED BY <1>0, <2>1, <2>2 DEF PathTypes
<1>4. CASE Choose
    <2>1. Head(list) \in Workers
        BY <1>4, Taken DEF Choose, ListTypes
    <2> QED BY <1>4, <2>1 DEF PathTypes, Choose, workerVars
<1>5. CASE Send
    <2>1. request \in Requests /\ target \in Workers
        BY <1>5 DEF Send, PathTypes, PlaceInv, Joined
    <2>2. Append(inbox[target], request) \in Seq(Requests)
        BY <2>1, Appended DEF PathTypes
    <2>3. inbox' \in [Workers -> Seq(Requests)]
        BY <1>5, <2>1, <2>2 DEF PathTypes, Send
    <2> QED BY <1>5, <2>3 DEF PathTypes, Send, NextRound
<1>6. CASE SendInVain
    <2>1. request \in Requests
        BY <1>6 DEF SendInVain, PathTypes, PlaceInv
    <2>2. lost' \in [Requests -> Losses \cup {None}]
        BY <1>6, <2>1, LoseAdds DEF SendInVain, PathTypes, Losses
    <2> QED BY <1>6, <2>2 DEF PathTypes, SendInVain, NextRound, workerVars
<1>7. CASE SendFails \/ SendRefused
    BY <1>7 DEF PathTypes, SendFails, SendRefused, workerVars
<1>8. CASE Return
    <2>1. request \in Requests
        BY <1>8 DEF Return, PathTypes, PlaceInv
    <2>2. /\ UNCHANGED <<status, inbox, outbox, responses, answers>>
          /\ dispatcher' = "round" /\ request' = None /\ target' = None
        BY <1>8 DEF Return, NextRound, workerVars
    <2>3. CASE Len(queue) < QueueCapacity
        <3>1. queue' = Append(queue, request) /\ lost' = lost
            BY <1>8, <2>3 DEF Return
        <3>2. queue' \in Seq(Requests) /\ Len(queue') = Len(queue) + 1
            BY <2>1, <3>1, Appended DEF PathTypes
        <3>3. Len(queue') <= QueueCapacity
            BY <1>0, <2>3, <3>2
        <3> QED BY <2>2, <3>1, <3>2, <3>3 DEF PathTypes
    <2>4. CASE ~ (Len(queue) < QueueCapacity)
        <3>1. Lose({request}, "request queue") /\ queue' = queue
            BY <1>8, <2>4 DEF Return
        <3>2. lost' \in [Requests -> Losses \cup {None}]
            BY <2>1, <3>1, LoseAdds DEF PathTypes, Losses
        <3> QED BY <2>2, <3>1, <3>2 DEF PathTypes
    <2> QED BY <2>3, <2>4
<1>9. ASSUME NEW w \in Workers, Serve(w) PROVE PathTypes'
    <2>1. /\ inbox[w] # << >> /\ inbox' = [inbox EXCEPT ![w] = Tail(@)]
          /\ outbox' = [outbox EXCEPT ![w] = Append(@, Head(inbox[w]))]
          /\ UNCHANGED <<status, queue, dispatcher, request, target, responses, answers, lost>>
        BY <1>9 DEF Serve, dispatcherVars
    <2>2. inbox[w] \in Seq(Requests) /\ outbox[w] \in Seq(Requests)
        BY DEF PathTypes
    <2>3. Tail(inbox[w]) \in Seq(Requests) /\ Append(outbox[w], Head(inbox[w])) \in Seq(Requests)
        BY <2>1, <2>2, Taken, Appended
    <2> QED BY <2>1, <2>3 DEF PathTypes
<1>10. ASSUME NEW w \in Workers, Crash(w) PROVE PathTypes'
    <2>1. PICK n \in 0 .. Len(outbox[w]) :
             /\ outbox' = [outbox EXCEPT ![w] = SubSeq(@, 1, n)]
             /\ Lose(ToSet(inbox[w]) \cup ToSet(SubSeq(outbox[w], n + 1, Len(outbox[w]))), "worker")
        BY <1>10 DEF Crash
    <2>2. /\ inbox[w] \in Seq(Requests) /\ outbox[w] \in Seq(Requests)
          /\ IsInjective(outbox[w])
        BY DEF PathTypes, OnceInv
    <2>3. /\ SubSeq(outbox[w], 1, n) \in Seq(Requests)
          /\ ToSet(SubSeq(outbox[w], n + 1, Len(outbox[w]))) \subseteq Requests
          /\ ToSet(inbox[w]) \subseteq Requests
        BY <2>2, Cut, Carried
    <2>4. lost' \in [Requests -> Losses \cup {None}]
        BY <2>1, <2>3, LoseAdds DEF PathTypes, Losses
    <2>5. << >> \in Seq(Requests)
        OBVIOUS
    <2> QED BY <1>10, <2>1, <2>3, <2>4, <2>5 DEF PathTypes, Crash, dispatcherVars
<1>11. ASSUME NEW w \in Workers, ReceiveResponse(w) PROVE PathTypes'
    <2>1. /\ outbox[w] # << >> /\ outbox' = [outbox EXCEPT ![w] = Tail(@)]
          /\ UNCHANGED <<status, queue, dispatcher, request, target, inbox, answers>>
        BY <1>11 DEF ReceiveResponse, dispatcherVars
    <2>2. outbox[w] \in Seq(Requests)
        BY DEF PathTypes
    <2>3. Tail(outbox[w]) \in Seq(Requests) /\ Head(outbox[w]) \in Requests
        BY <2>1, <2>2, Taken
    <2>4. outbox' \in [Workers -> Seq(Requests)]
        BY <2>1, <2>3 DEF PathTypes
    <2>5. CASE Len(responses) < ResponseCapacity
        <3>1. responses' = Append(responses, Head(outbox[w])) /\ lost' = lost
            BY <1>11, <2>5 DEF ReceiveResponse
        <3>2. responses' \in Seq(Requests) /\ Len(responses') = Len(responses) + 1
            BY <2>3, <3>1, Appended DEF PathTypes
        <3>3. Len(responses') <= ResponseCapacity
            BY <1>0, <2>5, <3>2
        <3> QED BY <2>1, <2>4, <3>1, <3>2, <3>3 DEF PathTypes
    <2>6. CASE ~ (Len(responses) < ResponseCapacity)
        <3>1. Lose({Head(outbox[w])}, "response queue") /\ responses' = responses
            BY <1>11, <2>6 DEF ReceiveResponse
        <3>2. lost' \in [Requests -> Losses \cup {None}]
            BY <2>3, <3>1, LoseAdds DEF PathTypes, Losses
        <3> QED BY <2>1, <2>4, <3>1, <3>2 DEF PathTypes
    <2> QED BY <2>5, <2>6
<1>12. ASSUME NEW w \in Workers, CloseConnection(w) PROVE PathTypes'
    <2>1. ToSet(inbox[w]) \cup ToSet(outbox[w]) \subseteq Requests
        BY Carried DEF PathTypes
    <2>2. lost' \in [Requests -> Losses \cup {None}]
        BY <1>12, <2>1, LoseAdds DEF PathTypes, CloseConnection, Losses
    <2>3. << >> \in Seq(Requests)
        OBVIOUS
    <2> QED BY <1>12, <2>2, <2>3 DEF PathTypes, CloseConnection, dispatcherVars
<1>13. CASE Deliver
    <2>1. /\ UNCHANGED <<status, queue, dispatcher, request, target, inbox, outbox, lost>>
          /\ responses # << >> /\ responses' = Tail(responses)
          /\ answers' = [answers EXCEPT ![Head(responses)] = @ + 1]
        BY <1>13 DEF Deliver, dispatcherVars, workerVars
    <2>2. /\ responses' \in Seq(Requests) /\ Len(responses') = Len(responses) - 1
          /\ Head(responses) \in Requests
        BY <2>1, Taken DEF PathTypes
    <2>3. Len(responses') <= ResponseCapacity
        BY <1>0, <2>2 DEF PathTypes
    <2>4. answers' \in [Requests -> Nat]
        BY <2>1, <2>2 DEF PathTypes
    <2> QED BY <2>1, <2>2, <2>3, <2>4 DEF PathTypes
<1>14. ASSUME NEW w \in Workers, Join(w) \/ ReceiveFails(w) PROVE PathTypes'
    BY <1>14 DEF PathTypes, Join, ReceiveFails, dispatcherVars
<1>15. CASE UNCHANGED vars
    BY <1>15 DEF PathTypes, vars, dispatcherVars, workerVars
<1>16. ASSUME NEW r \in Requests, Repeat(r) PROVE PathTypes'
    BY <1>16 DEF PathTypes, Repeat, dispatcherVars, workerVars
<1> QED BY <1>1, <1>2, <1>3, <1>4, <1>5, <1>6, <1>7, <1>8, <1>9, <1>10, <1>11, <1>12, <1>13,
           <1>14, <1>15, <1>16 DEF Next, DispatcherStep, NoticesGone, FindsSilent

-----------------------------------------------------------------------------
(* The worker list and the connections.                                    *)

LEMMA ListMoves ==
    ASSUME ListTypes, NEW w \in Workers, RemoveWorker(w)
    PROVE  /\ list' \in Seq(Workers) /\ ToSet(list') \subseteq ToSet(list)
           /\ permits' \in Nat /\ permits' <= permits
<1>1. CASE UNCHANGED listVars
    BY <1>1 DEF ListTypes, listVars
<1>2. CASE permits > 0 /\ permits' = permits - 1 /\ list' = list
    BY <1>2 DEF ListTypes
<1>3. CASE /\ permits > 0 /\ permits' = permits - 1
           /\ \E i \in 1 .. Len(list) : list' = RemoveAt(list, i)
    <2>1. list' \in Seq(Workers) /\ ToSet(list') \subseteq ToSet(list)
        BY <1>3, Removed DEF ListTypes
    <2> QED BY <1>3, <2>1 DEF ListTypes
<1> QED BY <1>1, <1>2, <1>3 DEF RemoveWorker

\* Every step keeps the list to workers that have joined.
LEMMA PlaceStep ==
    ASSUME PathTypes, ListTypes, PlaceInv, [Next]_vars
    PROVE  ListTypes' /\ PlaceInv' /\ Joined \subseteq Joined'
<1> USE PathAssumption
<1>0. IsFiniteSet(Joined) /\ Cardinality(Joined) \in Nat
    <2>1. Joined \in SUBSET Workers
        BY DEF Joined
    <2> QED BY <2>1, FS_Subset, FS_CardinalityType
<1>1. CASE \/ \E r \in Requests : Check(r) \/ Put(r) \/ Repeat(r)
           \/ Deliver
           \/ \E w \in Workers : Serve(w) \/ ReceiveResponse(w)
           \/ UNCHANGED vars
    <2>1. UNCHANGED <<dispatcher, request, target, list, permits, conn, alive, refused>>
        BY <1>1 DEF Check, Put, Repeat, Deliver, Serve, ReceiveResponse, vars, dispatcherVars, listVars,
           workerVars
    <2>2. Joined' = Joined
        BY <2>1 DEF Joined
    <2> QED BY <2>1, <2>2 DEF ListTypes, PlaceInv
<1>2. ASSUME NEW w \in Workers, Join(w) PROVE ListTypes' /\ PlaceInv' /\ Joined \subseteq Joined'
    <2>1. /\ conn[w] = "none" /\ conn' = [conn EXCEPT ![w] = "serve"]
          /\ alive' = alive \cup {w} /\ permits' = permits + 1
          /\ UNCHANGED <<dispatcher, request, target, refused>>
        BY <1>2 DEF Join, dispatcherVars
    <2>2. PICK i \in 1 .. Len(list) + 1 : list' = InsertAt(list, i, w)
        BY <1>2 DEF Join
    <2>3. list' \in Seq(Workers) /\ ToSet(list') \subseteq ToSet(list) \cup {w}
        BY <2>2, Inserted DEF ListTypes
    <2>4. Joined' = Joined \cup {w} /\ w \notin Joined
        BY <2>1 DEF Joined, ListTypes
    <2>5. Cardinality(Joined') = Cardinality(Joined) + 1
        BY <1>0, <2>4, FS_AddElement
    <2>6. ListTypes'
        BY <2>1, <2>3 DEF ListTypes
    <2>7. w \notin alive
        BY <2>4 DEF PlaceInv
    <2>8. target' \in Joined => target' # w
        BY <2>1, <2>4
    <2> QED BY <1>0, <2>1, <2>3, <2>4, <2>5, <2>6, <2>8 DEF PlaceInv, ListTypes
<1>3. ASSUME NEW w \in Workers, Crash(w) PROVE ListTypes' /\ PlaceInv' /\ Joined \subseteq Joined'
    <2>1. /\ UNCHANGED <<dispatcher, request, target, list, permits, conn, refused>>
          /\ alive' = alive \ {w}
        BY <1>3 DEF Crash, dispatcherVars, listVars
    <2>2. Joined' = Joined
        BY <2>1 DEF Joined
    <2> QED BY <2>1, <2>2 DEF ListTypes, PlaceInv
<1>4. ASSUME NEW w \in Workers, ReceiveFails(w)
      PROVE  ListTypes' /\ PlaceInv' /\ Joined \subseteq Joined'
    <2>1. /\ UNCHANGED <<dispatcher, request, target, alive, refused>>
          /\ conn[w] = "serve" /\ conn' = [conn EXCEPT ![w] = "close"]
        BY <1>4 DEF ReceiveFails, dispatcherVars
    <2>2. Joined' = Joined
        BY <2>1 DEF Joined, ListTypes
    <2>3. /\ list' \in Seq(Workers) /\ ToSet(list') \subseteq ToSet(list)
          /\ permits' \in Nat /\ permits' <= permits
        BY <1>4, ListMoves DEF ReceiveFails
    <2> QED BY <1>0, <2>1, <2>2, <2>3 DEF ListTypes, PlaceInv
<1>5. ASSUME NEW w \in Workers, CloseConnection(w)
      PROVE  ListTypes' /\ PlaceInv' /\ Joined \subseteq Joined'
    <2>1. /\ UNCHANGED <<dispatcher, request, target, list, permits, refused>>
          /\ conn[w] = "close" /\ conn' = [conn EXCEPT ![w] = "done"]
          /\ alive' = alive \ {w}
        BY <1>5 DEF CloseConnection, dispatcherVars, listVars
    <2>2. Joined' = Joined
        BY <2>1 DEF Joined, ListTypes
    <2> QED BY <2>1, <2>2 DEF ListTypes, PlaceInv
<1>6. CASE Take
    <2>1. /\ UNCHANGED <<dispatcher, target, list, permits, conn, alive, refused>>
          /\ dispatcher = "round"
        BY <1>6 DEF Take, listVars, workerVars
    <2>2. Joined' = Joined
        BY <2>1 DEF Joined
    <2> QED BY <2>1, <2>2 DEF ListTypes, PlaceInv
<1>7. CASE Choose
    <2>1. /\ request # None /\ list # << >> /\ target' = Head(list)
          /\ list' = Append(Tail(list), Head(list)) /\ dispatcher' = "send"
          /\ UNCHANGED <<request, permits, conn, alive, refused>>
        BY <1>7 DEF Choose, workerVars
    <2>2. /\ Head(list) \in Workers /\ Tail(list) \in Seq(Workers)
          /\ ToSet(list) = ToSet(Tail(list)) \cup {Head(list)}
        BY <2>1, Taken DEF ListTypes
    <2>3. list' \in Seq(Workers) /\ ToSet(list') = ToSet(list)
        <3> DEFINE h == Head(list)
                   t == Tail(list)
        <3>1. h \in Workers /\ t \in Seq(Workers) /\ ToSet(list) = ToSet(t) \cup {h}
            BY <2>2
        <3>2. list' = Append(t, h)
            BY <2>1
        <3> HIDE DEF h, t
        <3> QED BY <3>1, <3>2, Appended
    <2>4. Joined' = Joined
        BY <2>1 DEF Joined
    <2> QED BY <2>1, <2>2, <2>3, <2>4 DEF ListTypes, PlaceInv
<1>8. CASE Send \/ SendInVain \/ Return
    <2>1. /\ UNCHANGED <<list, permits, conn, alive, refused>>
          /\ dispatcher' = "round" /\ target' = None
        BY <1>8 DEF Send, SendInVain, Return, NextRound, listVars, workerVars
    <2>2. Joined' = Joined
        BY <2>1 DEF Joined
    <2> QED BY <2>1, <2>2 DEF ListTypes, PlaceInv
<1>9. CASE SendFails
    <2>1. /\ dispatcher = "send" /\ target \notin alive /\ dispatcher' = "return"
          /\ UNCHANGED <<request, target, conn, alive, refused>>
        BY <1>9 DEF SendFails, workerVars
    <2>2. target \in Joined /\ request # None /\ target \in Workers
        BY <2>1 DEF PlaceInv, Joined
    <2>3. /\ list' \in Seq(Workers) /\ ToSet(list') \subseteq ToSet(list)
          /\ permits' \in Nat /\ permits' <= permits
        BY <1>9, <2>2, ListMoves DEF SendFails, listVars, ListTypes
    <2>4. Joined' = Joined
        BY <2>1 DEF Joined
    <2> QED BY <1>0, <2>1, <2>2, <2>3, <2>4 DEF ListTypes, PlaceInv
<1>10. CASE SendRefused
    <2>1. /\ dispatcher = "send" /\ dispatcher' = "return" /\ refused' = TRUE
          /\ UNCHANGED <<request, target, list, permits, conn, alive>>
        BY <1>10 DEF SendRefused, listVars, workerVars
    <2>2. Joined' = Joined
        BY <2>1 DEF Joined
    <2> QED BY <2>1, <2>2 DEF ListTypes, PlaceInv
<1> QED BY <1>1, <1>2, <1>3, <1>4, <1>5, <1>6, <1>7, <1>8, <1>9, <1>10
    DEF Next, DispatcherStep, NoticesGone, FindsSilent

\* A worker that is gone stays gone.
LEMMA GoneStays ==
    ASSUME ListTypes, Joined \subseteq Joined', [Next]_vars
    PROVE  Gone \subseteq Gone'
<1>1. \A w \in alive' \ alive : w \notin Joined
    BY DEF Next, DispatcherStep, vars, workerVars, Check, Put, Repeat, Join, Take, Choose, Send,
       SendInVain, SendRefused, SendFails, Return, Serve, Crash, ReceiveResponse, ReceiveFails, NoticesGone, FindsSilent,
       CloseConnection, Deliver, Joined
<1>2. Gone = Joined \ alive /\ Gone' = Joined' \ alive'
    BY DEF Gone, Joined
<1> QED BY <1>1, <1>2

\* A refusal is not forgotten.
LEMMA RefusedStays == refused /\ [Next]_vars => refused'
BY DEF Next, DispatcherStep, vars, Check, Put, Repeat, Join, Take, Choose, Send, SendInVain,
   SendRefused, SendFails, Return, Serve, Crash, ReceiveResponse, ReceiveFails, NoticesGone,
   FindsSilent, CloseConnection, Deliver

\* A step that loses a request before the response queue has its cause.
LEMMA LossStep ==
    ASSUME PathTypes, PathTypes', ListTypes, PlaceInv, LossExplained, Joined \subseteq Joined',
           [Next]_vars
    PROVE  LossExplained'
<1>1. /\ Gone = Joined \ alive /\ Gone \subseteq Gone'
      /\ refused => refused'
    BY GoneStays, RefusedStays DEF Gone, Joined
<1>2. CASE Gone # {}
    BY <1>1, <1>2 DEF LossExplained
<1>3. CASE \A r \in Requests : lost'[r] \in {lost[r], "response queue", None}
    BY <1>1, <1>3, PathAssumption DEF LossExplained, Losses
<1>4. CASE SendInVain
    BY <1>1, <1>2, <1>4 DEF SendInVain, PlaceInv
<1>5. CASE Return
    <2>1. target \in Joined \ alive \/ refused
        BY <1>5 DEF Return, PlaceInv
    <2>2. CASE refused
        <3>1. \A r \in Requests : lost'[r] = lost[r] \/ lost'[r] = "request queue"
            BY <1>5 DEF Return, Lose
        <3> QED BY <1>1, <2>2, <3>1 DEF LossExplained
    <2> QED BY <1>1, <1>2, <2>1, <2>2
<1>6. ASSUME NEW w \in Workers, Crash(w) \/ CloseConnection(w) PROVE LossExplained'
    <2>1. w \in Joined
        BY <1>6 DEF Crash, CloseConnection, PlaceInv, Joined
    <2>2. w \notin alive'
        BY <1>6 DEF Crash, CloseConnection
    <2>3. w \in Gone'
        BY <2>1, <2>2 DEF Gone, Joined
    <2> QED BY <2>3 DEF LossExplained
<1>7. ASSUME NEW w \in Workers, ReceiveResponse(w) PROVE LossExplained'
    <2>1. CASE Lose({Head(outbox[w])}, "response queue")
        <3>1. \A r \in Requests : lost'[r] = lost[r] \/ lost'[r] = "response queue"
            BY <2>1 DEF Lose
        <3> QED BY <1>3, <3>1
    <2> QED BY <1>3, <1>7, <2>1 DEF ReceiveResponse
<1>8. ASSUME NEW r \in Requests, Repeat(r) PROVE LossExplained'
    <2>1. \A x \in Requests : lost'[x] = lost[x] \/ lost'[x] = None
        BY <1>8 DEF Repeat, PathTypes
    <2> QED BY <1>3, <2>1
<1>9. CASE lost' = lost
    BY <1>3, <1>9
<1> QED BY <1>4, <1>5, <1>6, <1>7, <1>8, <1>9 DEF Next, DispatcherStep, vars, Check, Put, Join, Take,
       Choose, Send, SendRefused, SendFails, Serve, ReceiveFails, NoticesGone, FindsSilent, Deliver

-----------------------------------------------------------------------------
(* Every accepted request is at one spot.                                  *)

\* A step changes what spots hold where it changes their variables.
LEMMA SameElsewhere ==
    ASSUME NEW A,
           At("queue") \in A \/ queue' = queue,
           At("dispatcher") \in A \/ request' = request,
           At("responses") \in A \/ responses' = responses,
           At("answered") \in A \/ answers' = answers,
           At("lost") \in A \/ lost' = lost,
           \A w \in Workers : <<"inbox", w>> \in A \/ inbox'[w] = inbox[w],
           \A w \in Workers : <<"outbox", w>> \in A \/ outbox'[w] = outbox[w]
    PROVE  \A h \in Spots \ A : Contents'[h] = Contents[h]
<1>1. ASSUME queue' = queue PROVE Contents'[At("queue")] = Contents[At("queue")]
    BY ONLY <1>1, SpotContents
<1>2. ASSUME request' = request PROVE Contents'[At("dispatcher")] = Contents[At("dispatcher")]
    BY ONLY <1>2, SpotContents
<1>3. ASSUME responses' = responses PROVE Contents'[At("responses")] = Contents[At("responses")]
    BY ONLY <1>3, SpotContents
<1>4. ASSUME answers' = answers PROVE Contents'[At("answered")] = Contents[At("answered")]
    BY ONLY <1>4, SpotContents
<1>5. ASSUME lost' = lost PROVE Contents'[At("lost")] = Contents[At("lost")]
    BY ONLY <1>5, SpotContents
<1>6. ASSUME NEW w \in Workers, inbox'[w] = inbox[w]
      PROVE  Contents'[<<"inbox", w>>] = Contents[<<"inbox", w>>]
    <2>1. Contents[<<"inbox", w>>] = ToSet(inbox[w])
        BY SpotContents
    <2>2. Contents'[<<"inbox", w>>] = ToSet(inbox'[w])
        BY SpotContents
    <2>3. ToSet(inbox'[w]) = ToSet(inbox[w])
        BY ONLY <1>6
    <2> QED BY ONLY <2>1, <2>2, <2>3
<1>7. ASSUME NEW w \in Workers, outbox'[w] = outbox[w]
      PROVE  Contents'[<<"outbox", w>>] = Contents[<<"outbox", w>>]
    <2>1. Contents[<<"outbox", w>>] = ToSet(outbox[w])
        BY SpotContents
    <2>2. Contents'[<<"outbox", w>>] = ToSet(outbox'[w])
        BY SpotContents
    <2>3. ToSet(outbox'[w]) = ToSet(outbox[w])
        BY ONLY <1>7
    <2> QED BY ONLY <2>1, <2>2, <2>3
<1>8. \A p \in Here : At(p) \in A \/ Contents'[At(p)] = Contents[At(p)]
    BY <1>1, <1>2, <1>3, <1>4, <1>5 DEF Here
<1>9. \A w \in Workers : <<"inbox", w>> \in A \/ Contents'[<<"inbox", w>>] = Contents[<<"inbox", w>>]
    BY <1>6
<1>10. \A w \in Workers : <<"outbox", w>> \in A \/ Contents'[<<"outbox", w>>] = Contents[<<"outbox", w>>]
    BY <1>7
<1> QED BY ONLY <1>8, <1>9, <1>10, SpotNames

\* A step that takes a request from one spot to another.
LEMMA MoveOnce ==
    ASSUME OnceInv, NEW a \in Spots, NEW b \in Spots, NEW x \in Contents[a], a # b,
           Accepted' = Accepted,
           \A h \in Spots \ {a, b} : Contents'[h] = Contents[h],
           Contents'[a] = Contents[a] \ {x},
           Contents'[b] = Contents[b] \cup {x}
    PROVE  OneSpot(Contents', Accepted')
<1> DEFINE C == Contents
           D == Contents'
           R == Accepted
<1>1. OneSpot(C, R)
    BY DEF OnceInv
<1>2. Accepted' = R
    OBVIOUS
<1>3. /\ x \in C[a] /\ D[a] = C[a] \ {x} /\ D[b] = C[b] \cup {x}
      /\ \A h \in Spots \ {a, b} : D[h] = C[h]
    OBVIOUS
<1> HIDE DEF C, D, R
<1>4. OneSpot(D, R)
    BY <1>1, <1>3, OneMoved
<1> QED BY <1>2, <1>4 DEF D

\* A request that is at one spot is not at another.
LEMMA NowhereElse ==
    ASSUME OnceInv, NEW a \in Spots, NEW b \in Spots, NEW x \in Contents[a], a # b
    PROVE  x \notin Contents[b]
BY DEF OneSpot, OnceInv

\* A request that is put in the queue was nowhere before.
LEMMA PutOnce ==
    ASSUME PathTypes, OnceInv, NEW r \in Requests, Put(r)
    PROVE  OnceInv'
<1> DEFINE q == At("queue")
<1>1. UNCHANGED <<request, inbox, outbox, responses, answers, lost>> /\ status[r] = "checked"
    BY DEF Put, dispatcherVars, workerVars
<1>2. r \notin Accepted
    BY <1>1 DEF Accepted
<1>3. CASE queue' = queue /\ status' = [status EXCEPT ![r] = "rejected"]
    <2>1. Accepted' = Accepted
        BY <1>1, <1>3 DEF Accepted, PathTypes
    <2>2. Contents' = Contents
        BY <1>1, <1>3 DEF Contents
    <2> QED BY <1>1, <1>3, <2>1, <2>2 DEF OnceInv
<1>4. CASE queue' = Append(queue, r) /\ status' = [status EXCEPT ![r] = "accepted"]
    <2>1. Accepted' = Accepted \cup {r}
        BY <1>1, <1>4 DEF Accepted, PathTypes
    <2>2. q \in Spots
        BY SpotNames DEF Here
    <2>3. Contents'[q] = Contents[q] \cup {r}
        BY <1>4, Appended, SpotContents DEF PathTypes
    <2>4. \A h \in Spots \ {q} : Contents'[h] = Contents[h]
        BY <1>1, SameElsewhere
    <2>5. OneSpot(Contents', Accepted') /\ r \notin Contents[q]
        BY <1>2, <2>1, <2>2, <2>3, <2>4, OneCame DEF OnceInv
    <2>6. IsInjective(queue')
        BY <1>4, <2>5, Appended, SpotContents DEF OnceInv, PathTypes
    <2> QED BY <1>1, <2>5, <2>6 DEF OnceInv
<1> QED BY <1>3, <1>4 DEF Put

\* A request that is asked again leaves the spot where it was settled.
LEMMA RepeatOnce ==
    ASSUME PathTypes, OnceInv, NEW r \in Requests, Repeat(r)
    PROVE  OnceInv'
<1> DEFINE y == At("answered")
           b == At("lost")
<1>1. /\ UNCHANGED <<queue, request, inbox, outbox, responses>>
      /\ status[r] = "rejected" \/ answers[r] > 0 \/ lost[r] # None
      /\ status' = [status EXCEPT ![r] = "new"]
      /\ answers' = [answers EXCEPT ![r] = 0] /\ lost' = [lost EXCEPT ![r] = None]
    BY DEF Repeat, Settled, dispatcherVars, workerVars
<1>2. y \in Spots /\ b \in Spots /\ y # b
    BY SpotNames DEF Here
<1>3. Contents'[y] = Contents[y] \ {r} /\ Contents'[b] = Contents[b] \ {r}
    BY <1>1, SpotContents DEF PathTypes
<1>4. \A h \in Spots \ {y, b} : Contents'[h] = Contents[h]
    BY <1>1, SameElsewhere
<1>5. r \in Contents[y] \/ r \in Contents[b] \/ r \notin Accepted
    <2>1. answers[r] > 0 => answers[r] = 1
        BY DEF OnceInv
    <2> QED BY <1>1, <2>1, SpotContents DEF Accepted
<1>6. Accepted' = Accepted \ {r}
    BY <1>1 DEF Accepted, PathTypes
<1> HIDE DEF y, b
<1>7. \A h \in Spots \ {y, b} : r \notin Contents[h]
    <2>1. CASE r \notin Accepted
        BY <2>1 DEF OnceInv, OneSpot
    <2> QED BY <1>2, <1>5, <2>1, NowhereElse
<1>8. \A h \in Spots : Contents'[h] = Contents[h] \ {r}
    BY <1>2, <1>3, <1>4, <1>7
<1>9. OneSpot(Contents', Accepted')
    <2> DEFINE C == Contents
               D == Contents'
    <2>1. OneSpot(C, Accepted) /\ \A h \in Spots : D[h] = C[h] \ {r}
        BY <1>8 DEF OnceInv
    <2> HIDE DEF C, D
    <2>2. OneSpot(D, Accepted \ {r})
        BY <2>1, OneGone
    <2> QED BY <1>6, <2>2 DEF D
<1>10. \A x \in Requests : answers'[x] \in {0, 1}
    BY <1>1 DEF OnceInv, PathTypes
<1> QED BY <1>1, <1>9, <1>10 DEF OnceInv

\* The dispatcher takes a request out of the queue.
LEMMA TakeOnce ==
    ASSUME PathTypes, OnceInv, Take
    PROVE  OnceInv'
<1> DEFINE q == At("queue")
           d == At("dispatcher")
           x == Head(queue)
<1>1. /\ UNCHANGED <<status, inbox, outbox, responses, answers, lost>>
      /\ request = None /\ queue # << >> /\ request' = x /\ queue' = Tail(queue)
    BY DEF Take, workerVars
<1>2. q \in Spots /\ d \in Spots /\ q # d
    BY SpotNames DEF Here
<1>3. /\ x \in Requests /\ x \in ToSet(queue) /\ IsInjective(queue')
      /\ ToSet(queue') = ToSet(queue) \ {x}
    BY <1>1, Taken DEF PathTypes, OnceInv
<1>4. x # None
    BY <1>3, PathAssumption
<1>5. /\ x \in Contents[q]
      /\ Contents'[q] = Contents[q] \ {x}
      /\ Contents'[d] = Contents[d] \cup {x}
    BY <1>1, <1>3, <1>4, SpotContents
<1>6. \A h \in Spots \ {q, d} : Contents'[h] = Contents[h]
    BY <1>1, SameElsewhere
<1>7. Accepted' = Accepted
    BY <1>1 DEF Accepted
<1> HIDE DEF q, d, x
<1>8. OneSpot(Contents', Accepted')
    BY <1>2, <1>5, <1>6, <1>7, MoveOnce
<1> QED BY <1>1, <1>3, <1>8 DEF OnceInv

\* The dispatcher's request goes to the worker's inbox.
LEMMA SendOnce ==
    ASSUME PathTypes, PlaceInv, OnceInv, Send
    PROVE  OnceInv'
<1> DEFINE d == At("dispatcher")
           i == <<"inbox", target>>
           x == request
<1>1. /\ UNCHANGED <<status, queue, outbox, responses, answers, lost>>
      /\ request' = None /\ inbox' = [inbox EXCEPT ![target] = Append(@, x)]
    BY DEF Send, NextRound
<1>2. x # None /\ x \in Requests /\ target \in Workers
    BY DEF Send, PathTypes, PlaceInv, Joined
<1>3. i \in Spots /\ d \in Spots /\ i # d
    BY <1>2, SpotNames DEF Here
<1>4. inbox'[target] = Append(inbox[target], x) /\ inbox[target] \in Seq(Requests)
    BY <1>1, <1>2 DEF PathTypes
<1>5. ToSet(inbox'[target]) = ToSet(inbox[target]) \cup {x}
    BY <1>2, <1>4, Appended
<1>6. /\ x \in Contents[d]
      /\ Contents'[d] = Contents[d] \ {x}
      /\ Contents'[i] = Contents[i] \cup {x}
    BY <1>1, <1>2, <1>5, SpotContents
<1>7. \A h \in Spots \ {d, i} : Contents'[h] = Contents[h]
    BY <1>1, SameElsewhere DEF PathTypes
<1>8. Accepted' = Accepted
    BY <1>1 DEF Accepted
<1>9. x \notin ToSet(inbox[target])
    <2>1. x \notin Contents[i]
        BY <1>3, <1>6, NowhereElse
    <2> QED BY <1>2, <2>1, SpotContents
<1>10. IsInjective(inbox'[target])
    BY <1>2, <1>4, <1>9, Appended DEF OnceInv
<1>11. \A w \in Workers : IsInjective(inbox'[w])
    BY <1>1, <1>10 DEF OnceInv, PathTypes
<1> HIDE DEF d, i, x
<1>12. OneSpot(Contents', Accepted')
    BY <1>3, <1>6, <1>7, <1>8, MoveOnce
<1> QED BY <1>1, <1>11, <1>12 DEF OnceInv

\* The dispatcher's request is lost.
LEMMA DispatcherLosesOnce ==
    ASSUME PathTypes, PlaceInv, OnceInv, NEW where \in Losses,
           request # None, request' = None, Lose({request}, where),
           UNCHANGED <<status, queue, inbox, outbox, responses, answers>>
    PROVE  OnceInv'
<1> DEFINE d == At("dispatcher")
           b == At("lost")
           x == request
<1>1. x \in Requests
    BY DEF PathTypes
<1>2. d \in Spots /\ b \in Spots /\ d # b
    BY SpotNames DEF Here
<1>3. Contents'[b] = Contents[b] \cup {x}
    BY <1>1, LoseAdds DEF PathTypes
<1>4. x \in Contents[d] /\ Contents'[d] = Contents[d] \ {x}
    BY SpotContents
<1>5. \A h \in Spots \ {d, b} : Contents'[h] = Contents[h]
    BY SameElsewhere
<1>6. Accepted' = Accepted
    BY DEF Accepted
<1> HIDE DEF d, b, x
<1>7. OneSpot(Contents', Accepted')
    BY <1>2, <1>3, <1>4, <1>5, <1>6, MoveOnce
<1> QED BY <1>7 DEF OnceInv

\* The dispatcher's request goes back to the queue, or is lost.
LEMMA ReturnOnce ==
    ASSUME PathTypes, PlaceInv, OnceInv, Return
    PROVE  OnceInv'
<1> DEFINE d == At("dispatcher")
           q == At("queue")
           x == request
<1>1. /\ UNCHANGED <<status, inbox, outbox, responses, answers>> /\ request' = None
      /\ x # None /\ x \in Requests
    BY DEF Return, NextRound, workerVars, PlaceInv, PathTypes
<1>2. CASE Lose({request}, "request queue") /\ queue' = queue
    BY <1>1, <1>2, DispatcherLosesOnce DEF Losses
<1>3. CASE queue' = Append(queue, request) /\ lost' = lost
    <2>1. d \in Spots /\ q \in Spots /\ d # q
        BY SpotNames DEF Here
    <2>2. ToSet(queue') = ToSet(queue) \cup {x}
        BY <1>1, <1>3, Appended DEF PathTypes
    <2>3. /\ x \in Contents[d]
          /\ Contents'[d] = Contents[d] \ {x}
          /\ Contents'[q] = Contents[q] \cup {x}
        BY <1>1, <2>2, SpotContents
    <2>4. \A h \in Spots \ {d, q} : Contents'[h] = Contents[h]
        BY <1>1, <1>3, SameElsewhere
    <2>5. Accepted' = Accepted
        BY <1>1 DEF Accepted
    <2>6. x \notin ToSet(queue)
        <3>1. x \notin Contents[q]
            BY <2>1, <2>3, NowhereElse
        <3> QED BY <3>1, SpotContents
    <2>7. IsInjective(queue')
        BY <1>1, <1>3, <2>6, Appended DEF OnceInv, PathTypes
    <2> HIDE DEF d, q, x
    <2>8. OneSpot(Contents', Accepted')
        BY <2>1, <2>3, <2>4, <2>5, MoveOnce
    <2> QED BY <1>1, <1>3, <2>7, <2>8 DEF OnceInv
<1> QED BY <1>2, <1>3 DEF Return

\* A worker turns a request into its response.
LEMMA ServeOnce ==
    ASSUME PathTypes, OnceInv, NEW w \in Workers, Serve(w)
    PROVE  OnceInv'
<1> DEFINE i == <<"inbox", w>>
           o == <<"outbox", w>>
           x == Head(inbox[w])
<1>1. /\ UNCHANGED <<status, queue, request, responses, answers, lost>>
      /\ inbox[w] # << >>
      /\ inbox' = [inbox EXCEPT ![w] = Tail(@)]
      /\ outbox' = [outbox EXCEPT ![w] = Append(@, x)]
    BY DEF Serve, dispatcherVars
<1>2. i \in Spots /\ o \in Spots /\ i # o
    BY SpotNames
<1>3. /\ inbox[w] \in Seq(Requests) /\ outbox[w] \in Seq(Requests)
      /\ IsInjective(inbox[w]) /\ IsInjective(outbox[w])
      /\ inbox'[w] = Tail(inbox[w]) /\ outbox'[w] = Append(outbox[w], x)
    BY <1>1 DEF PathTypes, OnceInv
<1>4. /\ x \in Requests /\ x \in ToSet(inbox[w]) /\ IsInjective(inbox'[w])
      /\ ToSet(inbox'[w]) = ToSet(inbox[w]) \ {x}
    BY <1>1, <1>3, Taken
<1>5. /\ x \in Contents[i]
      /\ Contents'[i] = Contents[i] \ {x}
    BY <1>4, SpotContents
<1>6. x \notin ToSet(outbox[w])
    <2>1. x \notin Contents[o]
        BY <1>2, <1>5, NowhereElse
    <2> QED BY <2>1, SpotContents
<1>7. ToSet(outbox'[w]) = ToSet(outbox[w]) \cup {x} /\ IsInjective(outbox'[w])
    BY <1>3, <1>4, <1>6, Appended
<1>8. Contents'[o] = Contents[o] \cup {x}
    BY <1>7, SpotContents
<1>9. \A h \in Spots \ {i, o} : Contents'[h] = Contents[h]
    BY <1>1, SameElsewhere DEF PathTypes
<1>10. Accepted' = Accepted
    BY <1>1 DEF Accepted
<1>11. \A v \in Workers : IsInjective(inbox'[v]) /\ IsInjective(outbox'[v])
    BY <1>1, <1>4, <1>7 DEF OnceInv, PathTypes
<1> HIDE DEF i, o, x
<1>12. OneSpot(Contents', Accepted')
    BY <1>2, <1>5, <1>8, <1>9, <1>10, MoveOnce
<1> QED BY <1>1, <1>11, <1>12 DEF OnceInv

\* A worker that stops loses all that is on its way to it, and some answers.
LEMMA StopLosesOnce ==
    ASSUME PathTypes, OnceInv, NEW w \in Workers, NEW X,
           ToSet(inbox[w]) \subseteq X, X \subseteq ToSet(inbox[w]) \cup ToSet(outbox[w]),
           Lose(X, "worker"),
           inbox' = [inbox EXCEPT ![w] = << >>],
           outbox' \in [Workers -> Seq(Requests)],
           ToSet(outbox'[w]) = ToSet(outbox[w]) \ X,
           \A v \in Workers \ {w} : outbox'[v] = outbox[v],
           UNCHANGED <<status, queue, request, responses, answers>>
    PROVE  OneSpot(Contents', Accepted')
<1> DEFINE C == Contents
           D == Contents'
           R == Accepted
           b == At("lost")
           i == <<"inbox", w>>
           o == <<"outbox", w>>
<1>1. b \in Spots /\ i \in Spots /\ o \in Spots /\ i # o /\ b # i /\ b # o
    BY SpotNames DEF Here
<1>2. C[i] = ToSet(inbox[w]) /\ C[o] = ToSet(outbox[w]) /\ D[o] = ToSet(outbox'[w])
    BY SpotContents
<1>3. D[i] = {}
    <2>1. inbox'[w] = << >> /\ ToSet(<< >>) = {}
        BY DEF PathTypes, ToSet
    <2> QED BY <2>1, SpotContents
<1>4. OneSpot(C, R)
    BY DEF OnceInv
<1>5. X \subseteq C[i] \cup C[o] /\ C[i] \subseteq X /\ D[o] = C[o] \ X /\ D[i] = C[i] \ X
    BY <1>2, <1>3
<1>6. X \subseteq R
    BY <1>1, <1>4, <1>5 DEF OneSpot
<1>7. D[b] = C[b] \cup X
    <2>1. X \in SUBSET Requests
        BY <1>6 DEF Accepted
    <2> QED BY <2>1, LoseAdds DEF PathTypes, Losses
<1>8. \A h \in Spots \ {i, o, b} : D[h] = C[h]
    BY SameElsewhere DEF PathTypes
<1>9. Accepted' = R
    BY DEF Accepted
<1> HIDE DEF C, D, R, b, i, o
<1>10. \A h \in Spots \ {i, o} : C[h] \cap X = {}
    BY <1>1, <1>4, <1>5 DEF OneSpot
<1>11. \A h \in Spots : h # b => D[h] = C[h] \ X
    BY <1>5, <1>8, <1>10
<1>12. OneSpot(D, R)
    BY ONLY <1>1, <1>4, <1>6, <1>7, <1>11 DEF OneSpot
<1> QED BY <1>9, <1>12 DEF D

\* A worker that dies keeps the first answers under way and loses the rest.
LEMMA CrashOnce ==
    ASSUME PathTypes, PathTypes', OnceInv, NEW w \in Workers, Crash(w)
    PROVE  OnceInv'
<1>1. /\ UNCHANGED <<status, queue, request, responses, answers>>
      /\ inbox' = [inbox EXCEPT ![w] = << >>]
    BY DEF Crash, dispatcherVars
<1>2. PICK n \in 0 .. Len(outbox[w]) :
         /\ outbox' = [outbox EXCEPT ![w] = SubSeq(@, 1, n)]
         /\ Lose(ToSet(inbox[w]) \cup ToSet(SubSeq(outbox[w], n + 1, Len(outbox[w]))), "worker")
    BY DEF Crash
<1> DEFINE late == ToSet(SubSeq(outbox[w], n + 1, Len(outbox[w])))
           X == ToSet(inbox[w]) \cup late
<1>3. /\ outbox[w] \in Seq(Requests) /\ IsInjective(outbox[w])
      /\ outbox'[w] = SubSeq(outbox[w], 1, n)
    BY <1>2 DEF PathTypes, OnceInv
<1>4. /\ IsInjective(outbox'[w]) /\ late \subseteq ToSet(outbox[w])
      /\ ToSet(outbox'[w]) = ToSet(outbox[w]) \ late
    BY <1>3, Cut
<1> HIDE DEF late
<1>5. ToSet(inbox[w]) \cap ToSet(outbox[w]) = {}
    <2>1. Contents[<<"inbox", w>>] \cap Contents[<<"outbox", w>>] = {}
        BY SpotNames DEF OnceInv, OneSpot
    <2> QED BY <2>1, SpotContents
<1>6. ToSet(outbox'[w]) = ToSet(outbox[w]) \ X
    BY <1>4, <1>5
<1>7. Lose(X, "worker")
    BY <1>2 DEF late
<1>8. /\ ToSet(inbox[w]) \subseteq X /\ X \subseteq ToSet(inbox[w]) \cup ToSet(outbox[w])
      /\ outbox' \in [Workers -> Seq(Requests)]
      /\ \A v \in Workers \ {w} : outbox'[v] = outbox[v]
    BY <1>2, <1>4 DEF PathTypes
<1> HIDE DEF X
<1>9. OneSpot(Contents', Accepted')
    BY <1>1, <1>6, <1>7, <1>8, StopLosesOnce
<1>10. IsInjective(<< >>)
    BY DEF IsInjective
<1>11. \A v \in Workers : IsInjective(inbox'[v]) /\ IsInjective(outbox'[v])
    BY <1>1, <1>4, <1>8, <1>10 DEF OnceInv, PathTypes
<1> QED BY <1>1, <1>9, <1>11 DEF OnceInv

\* A connection that is closed loses what is on it.
LEMMA CloseOnce ==
    ASSUME PathTypes, PathTypes', OnceInv, NEW w \in Workers, CloseConnection(w)
    PROVE  OnceInv'
<1> DEFINE X == ToSet(inbox[w]) \cup ToSet(outbox[w])
<1>1. /\ UNCHANGED <<status, queue, request, responses, answers>>
      /\ inbox' = [inbox EXCEPT ![w] = << >>] /\ outbox' = [outbox EXCEPT ![w] = << >>]
      /\ Lose(X, "worker")
    BY DEF CloseConnection, dispatcherVars
<1>2. IsInjective(<< >>) /\ ToSet(<< >>) = {}
    BY DEF IsInjective, ToSet
<1>3. outbox'[w] = << >> /\ \A v \in Workers \ {w} : outbox'[v] = outbox[v]
    BY <1>1 DEF PathTypes
<1>4. ToSet(outbox'[w]) = ToSet(outbox[w]) \ X /\ outbox' \in [Workers -> Seq(Requests)]
    BY <1>2, <1>3 DEF PathTypes
<1>5. ToSet(inbox[w]) \subseteq X /\ X \subseteq ToSet(inbox[w]) \cup ToSet(outbox[w])
    OBVIOUS
<1> HIDE DEF X
<1>6. OneSpot(Contents', Accepted')
    BY <1>1, <1>3, <1>4, <1>5, StopLosesOnce
<1>7. \A v \in Workers : IsInjective(inbox'[v]) /\ IsInjective(outbox'[v])
    BY <1>1, <1>2 DEF OnceInv, PathTypes
<1> QED BY <1>1, <1>6, <1>7 DEF OnceInv

\* A response goes to the response queue, or is lost.
LEMMA ReceiveOnce ==
    ASSUME PathTypes, OnceInv, NEW w \in Workers, ReceiveResponse(w)
    PROVE  OnceInv'
<1> DEFINE o == <<"outbox", w>>
           x == Head(outbox[w])
<1>1. /\ UNCHANGED <<status, queue, request, inbox, answers>>
      /\ outbox[w] # << >> /\ outbox' = [outbox EXCEPT ![w] = Tail(@)]
    BY DEF ReceiveResponse, dispatcherVars
<1>2. /\ outbox[w] \in Seq(Requests) /\ IsInjective(outbox[w])
      /\ outbox'[w] = Tail(outbox[w])
    BY <1>1 DEF PathTypes, OnceInv
<1>3. /\ x \in Requests /\ x \in ToSet(outbox[w]) /\ IsInjective(outbox'[w])
      /\ ToSet(outbox'[w]) = ToSet(outbox[w]) \ {x}
    BY <1>1, <1>2, Taken
<1>4. x \in Contents[o] /\ Contents'[o] = Contents[o] \ {x}
    BY <1>3, SpotContents
<1>5. Accepted' = Accepted
    BY <1>1 DEF Accepted
<1>6. \A v \in Workers : IsInjective(inbox'[v]) /\ IsInjective(outbox'[v])
    BY <1>1, <1>3 DEF OnceInv, PathTypes
<1>7. CASE responses' = Append(responses, x) /\ lost' = lost
    <2> DEFINE b == At("responses")
    <2>1. o \in Spots /\ b \in Spots /\ o # b
        BY SpotNames DEF Here
    <2>2. x \notin ToSet(responses)
        <3>1. x \notin Contents[b]
            BY <1>4, <2>1, NowhereElse
        <3> QED BY <3>1, SpotContents
    <2>3. IsInjective(responses') /\ ToSet(responses') = ToSet(responses) \cup {x}
        BY <1>3, <1>7, <2>2, Appended DEF OnceInv, PathTypes
    <2>4. Contents'[b] = Contents[b] \cup {x}
        BY <2>3, SpotContents
    <2>5. \A h \in Spots \ {o, b} : Contents'[h] = Contents[h]
        BY <1>1, <1>7, SameElsewhere DEF PathTypes
    <2> HIDE DEF o, x, b
    <2>6. OneSpot(Contents', Accepted')
        BY <1>4, <1>5, <2>1, <2>4, <2>5, MoveOnce
    <2> QED BY <1>1, <1>6, <2>3, <2>6 DEF OnceInv
<1>8. CASE Lose({x}, "response queue") /\ responses' = responses
    <2> DEFINE b == At("lost")
    <2>1. o \in Spots /\ b \in Spots /\ o # b
        BY SpotNames DEF Here
    <2>2. Contents'[b] = Contents[b] \cup {x}
        BY <1>3, <1>8, LoseAdds DEF PathTypes, Losses
    <2>3. \A h \in Spots \ {o, b} : Contents'[h] = Contents[h]
        BY <1>1, <1>8, SameElsewhere DEF PathTypes
    <2> HIDE DEF o, x, b
    <2>4. OneSpot(Contents', Accepted')
        BY <1>4, <1>5, <2>1, <2>2, <2>3, MoveOnce
    <2> QED BY <1>1, <1>6, <1>8, <2>4 DEF OnceInv
<1> QED BY <1>7, <1>8 DEF ReceiveResponse

\* A response that is sent makes the first answer to its request.
LEMMA DeliverOnce ==
    ASSUME PathTypes, OnceInv, Deliver
    PROVE  OnceInv'
<1> DEFINE b == At("responses")
           y == At("answered")
           x == Head(responses)
<1>1. /\ UNCHANGED <<status, queue, request, inbox, outbox, lost>>
      /\ responses # << >> /\ responses' = Tail(responses)
      /\ answers' = [answers EXCEPT ![x] = @ + 1]
    BY DEF Deliver, dispatcherVars, workerVars
<1>2. b \in Spots /\ y \in Spots /\ b # y
    BY SpotNames DEF Here
<1>3. /\ x \in Requests /\ x \in ToSet(responses) /\ IsInjective(responses')
      /\ ToSet(responses') = ToSet(responses) \ {x}
    BY <1>1, Taken DEF PathTypes, OnceInv
<1>4. x \in Contents[b] /\ Contents'[b] = Contents[b] \ {x}
    BY <1>3, SpotContents
<1>5. answers[x] = 0
    <2>1. x \notin Contents[y]
        BY <1>2, <1>4, NowhereElse
    <2>2. answers[x] # 1
        BY <1>3, <2>1, SpotContents
    <2> QED BY <1>3, <2>2 DEF OnceInv
<1>6. /\ answers'[x] = 1
      /\ \A r \in Requests : r # x => answers'[r] = answers[r]
    BY <1>1, <1>3, <1>5 DEF PathTypes
<1>7. Contents'[y] = Contents[y] \cup {x}
    BY <1>3, <1>6, SpotContents
<1>8. \A h \in Spots \ {b, y} : Contents'[h] = Contents[h]
    BY <1>1, SameElsewhere
<1>9. Accepted' = Accepted
    BY <1>1 DEF Accepted
<1>10. \A r \in Requests : answers'[r] \in {0, 1}
    BY <1>6 DEF OnceInv
<1> HIDE DEF b, y, x
<1>11. OneSpot(Contents', Accepted')
    BY <1>2, <1>4, <1>7, <1>8, <1>9, MoveOnce
<1> QED BY <1>1, <1>3, <1>10, <1>11 DEF OnceInv

\* Every step keeps each accepted request at one spot.
LEMMA OnceStep ==
    ASSUME PathTypes, PathTypes', PlaceInv, OnceInv, [Next]_vars
    PROVE  OnceInv'
<1>1. ASSUME NEW r \in Requests, Check(r) PROVE OnceInv'
    <2>1. UNCHANGED <<queue, request, inbox, outbox, responses, answers, lost>>
        BY <1>1 DEF Check, dispatcherVars, workerVars
    <2>2. Accepted' = Accepted
        BY <1>1 DEF Check, Accepted, PathTypes
    <2> QED BY <2>1, <2>2 DEF OnceInv, Contents
<1>2. CASE \/ Choose \/ SendFails \/ SendRefused
           \/ (\E w \in Workers : Join(w) \/ ReceiveFails(w)) \/ UNCHANGED vars
    <2>1. UNCHANGED <<status, queue, request, inbox, outbox, responses, answers, lost>>
        BY <1>2 DEF Choose, SendFails, SendRefused, Join, ReceiveFails, vars, dispatcherVars, workerVars
    <2> QED BY <2>1 DEF OnceInv, Contents, Accepted
<1>3. CASE SendInVain
    <2>1. /\ request # None /\ request' = None /\ Lose({request}, "worker")
          /\ UNCHANGED <<status, queue, inbox, outbox, responses, answers>>
        BY <1>3 DEF SendInVain, NextRound, workerVars, PlaceInv
    <2> QED BY <2>1, DispatcherLosesOnce DEF Losses
<1> QED BY <1>1, <1>2, <1>3, PutOnce, RepeatOnce, TakeOnce, SendOnce, ReturnOnce, ServeOnce, CrashOnce,
           CloseOnce, ReceiveOnce, DeliverOnce DEF Next, DispatcherStep, NoticesGone, FindsSilent

-----------------------------------------------------------------------------
(* The theorems.                                                           *)

LEMMA InvStep == PathInv /\ [Next]_vars => PathInv'
<1> SUFFICES ASSUME PathInv, [Next]_vars PROVE PathInv'
    OBVIOUS
<1>1. PathTypes /\ ListTypes /\ PlaceInv /\ OnceInv /\ LossExplained
    BY DEF PathInv
<1>2. PathTypes'
    BY <1>1, TypeStep
<1>3. ListTypes' /\ PlaceInv' /\ Joined \subseteq Joined'
    BY <1>1, PlaceStep
<1>4. OnceInv'
    BY <1>1, <1>2, OnceStep
<1>5. LossExplained'
    BY <1>1, <1>2, <1>3, LossStep
<1> QED BY <1>2, <1>3, <1>4, <1>5 DEF PathInv

\* The inductive invariant holds in every state.
LEMMA Invariance == Spec => []PathInv
BY InitInv, InvStep, PTL DEF Spec

\* The type invariant: a worker gives the list at most one permit.
THEOREM TypeCorrect == Spec => []TypeOK
<1>1. PathInv => TypeOK
    <2> SUFFICES ASSUME PathInv PROVE TypeOK
        OBVIOUS
    <2>1. PathTypes /\ ListTypes /\ permits <= Cardinality(Joined) /\ refused \in BOOLEAN
        BY DEF PathInv, PlaceInv
    <2>2. IsFiniteSet(Workers) /\ Joined \in SUBSET Workers
        BY PathAssumption DEF Joined
    <2>3. /\ Cardinality(Joined) <= Cardinality(Workers)
          /\ Cardinality(Joined) \in Nat /\ Cardinality(Workers) \in Nat
        BY <2>2, FS_Subset, FS_CardinalityType
    <2>4. permits \in 0 .. Cardinality(Workers)
        BY <2>1, <2>3 DEF ListTypes
    <2> QED BY <2>1, <2>4 DEF PathTypes, ListTypes, TypeOK
<1> QED BY <1>1, Invariance, PTL

\* A sequence without duplicates has at most one place for a request.
LEMMA OnePlace ==
    ASSUME NEW s, IsInjective(s), NEW p, NEW w, NEW r
    PROVE  /\ r \notin ToSet(s) => In(p, w, s, r) = {}
           /\ r \in ToSet(s) => \E i : In(p, w, s, r) = {<<p, w, i>>}
<1>1. r \notin ToSet(s) => In(p, w, s, r) = {}
    BY DEF In, ToSet
<1>2. ASSUME r \in ToSet(s) PROVE \E i : In(p, w, s, r) = {<<p, w, i>>}
    <2>1. PICK i \in DOMAIN s : s[i] = r
        BY <1>2 DEF ToSet
    <2>2. {j \in DOMAIN s : s[j] = r} = {i}
        BY <2>1 DEF IsInjective
    <2>3. In(p, w, s, r) = {<<p, w, i>>}
        BY <2>2 DEF In
    <2> QED BY <2>3
<1> QED BY <1>1, <1>2

\* The places of r at one spot.
PlacesAt(p, r) == CASE p = "queue"      -> In("queue", None, queue, r)
                    [] p = "dispatcher" -> In("dispatcher", None, <<request>>, r)
                    [] p = "responses"  -> In("responses", None, responses, r)
                    [] p = "answered"   -> {<<"answered", None, i>> : i \in 1 .. answers[r]}
                    [] p = "lost"       -> {<<"lost", None, 1>> : x \in {lost[r]} \ {None}}

Elsewhere(r) == (UNION {In("inbox", w, inbox[w], r) : w \in Workers})
                \cup (UNION {In("outbox", w, outbox[w], r) : w \in Workers})

\* Places(r), spot by spot.
LEMMA NamedPlaces ==
    ASSUME NEW r \in Requests
    PROVE  /\ PlacesAt("queue", r) = In("queue", None, queue, r)
           /\ PlacesAt("dispatcher", r) = In("dispatcher", None, <<request>>, r)
           /\ PlacesAt("responses", r) = In("responses", None, responses, r)
           /\ PlacesAt("answered", r) = {<<"answered", None, i>> : i \in 1 .. answers[r]}
           /\ PlacesAt("lost", r) = {<<"lost", None, 1>> : x \in {lost[r]} \ {None}}
           /\ Places(r) = PlacesAt("queue", r) \cup PlacesAt("dispatcher", r)
                          \cup PlacesAt("responses", r) \cup PlacesAt("answered", r)
                          \cup PlacesAt("lost", r) \cup Elsewhere(r)
<1>1. /\ PlacesAt("queue", r) = In("queue", None, queue, r)
      /\ PlacesAt("dispatcher", r) = In("dispatcher", None, <<request>>, r)
      /\ PlacesAt("responses", r) = In("responses", None, responses, r)
      /\ PlacesAt("answered", r) = {<<"answered", None, i>> : i \in 1 .. answers[r]}
      /\ PlacesAt("lost", r) = {<<"lost", None, 1>> : x \in {lost[r]} \ {None}}
    BY DEF PlacesAt
<1>2. Places(r) = PlacesAt("queue", r) \cup PlacesAt("dispatcher", r)
                  \cup PlacesAt("responses", r) \cup PlacesAt("answered", r)
                  \cup PlacesAt("lost", r) \cup Elsewhere(r)
    <2> DEFINE Q == PlacesAt("queue", r)
               D == PlacesAt("dispatcher", r)
               P == PlacesAt("responses", r)
               A == PlacesAt("answered", r)
               L == PlacesAt("lost", r)
               I == UNION {In("inbox", w, inbox[w], r) : w \in Workers}
               O == UNION {In("outbox", w, outbox[w], r) : w \in Workers}
    <2>1. Places(r) = Q \cup D \cup I \cup O \cup P \cup A \cup L
        BY <1>1, Zenon DEF Places
    <2>2. Elsewhere(r) = I \cup O
        BY Zenon DEF Elsewhere
    <2> HIDE DEF Q, D, P, A, L, I, O
    <2>3. Places(r) = Q \cup D \cup P \cup A \cup L \cup Elsewhere(r)
        BY <2>1, <2>2
    <2> QED BY <2>3 DEF Q, D, P, A, L
<1> QED BY <1>1, <1>2

\* One place at the spot that holds r, none at the others.
LEMMA OneHere ==
    ASSUME PathTypes, OnceInv, NEW r \in Requests, NEW p \in Here
    PROVE  /\ r \notin Contents[At(p)] => PlacesAt(p, r) = {}
           /\ r \in Contents[At(p)] => \E x : PlacesAt(p, r) = {x}
<1>1. CASE p = "queue"
    <2>1. IsInjective(queue)
        BY DEF OnceInv
    <2>2. PlacesAt(p, r) = In("queue", None, queue, r)
        BY <1>1, NamedPlaces
    <2>3. Contents[At(p)] = ToSet(queue)
        BY <1>1, SpotContents
    <2> QED BY ONLY <2>1, <2>2, <2>3, OnePlace
<1>2. CASE p = "responses"
    <2>1. IsInjective(responses)
        BY DEF OnceInv
    <2>2. PlacesAt(p, r) = In("responses", None, responses, r)
        BY <1>2, NamedPlaces
    <2>3. Contents[At(p)] = ToSet(responses)
        BY <1>2, SpotContents
    <2> QED BY ONLY <2>1, <2>2, <2>3, OnePlace
<1>3. CASE p = "dispatcher"
    <2>1. IsInjective(<<request>>) /\ ToSet(<<request>>) = {request}
        BY DEF IsInjective, ToSet
    <2>2. r # None
        BY PathAssumption
    <2>3. r \in Contents[At(p)] <=> r \in ToSet(<<request>>)
        BY <1>3, <2>1, <2>2, SpotContents
    <2>4. PlacesAt(p, r) = In("dispatcher", None, <<request>>, r)
        BY <1>3, NamedPlaces
    <2> DEFINE s == <<request>>
    <2>5. /\ IsInjective(s) /\ PlacesAt(p, r) = In("dispatcher", None, s, r)
          /\ r \in Contents[At(p)] <=> r \in ToSet(s)
        BY <2>1, <2>3, <2>4
    <2> HIDE DEF s
    <2> QED BY ONLY <2>5, OnePlace
<1>4. CASE p = "answered"
    <2>1. CASE answers[r] = 0
        <3>1. PlacesAt(p, r) = {}
            BY <1>4, <2>1, NamedPlaces
        <3>2. r \notin Contents[At(p)]
            BY <1>4, <2>1, SpotContents
        <3> QED BY <3>1, <3>2
    <2>2. CASE answers[r] = 1
        <3>1. PlacesAt(p, r) = {<<"answered", None, 1>>}
            BY <1>4, <2>2, NamedPlaces
        <3>2. r \in Contents[At(p)]
            BY <1>4, <2>2, SpotContents
        <3> QED BY <3>1, <3>2
    <2> QED BY <2>1, <2>2 DEF OnceInv
<1>5. CASE p = "lost"
    <2>1. CASE lost[r] = None
        <3>1. PlacesAt(p, r) = {}
            BY <1>5, <2>1, NamedPlaces
        <3>2. r \notin Contents[At(p)]
            BY <1>5, <2>1, SpotContents
        <3> QED BY <3>1, <3>2
    <2>2. CASE lost[r] # None
        <3>1. PlacesAt(p, r) = {<<"lost", None, 1>>}
            BY <1>5, <2>2, NamedPlaces
        <3>2. r \in Contents[At(p)]
            BY <1>5, <2>2, SpotContents
        <3> QED BY <3>1, <3>2
    <2> QED BY <2>1, <2>2
<1> QED BY <1>1, <1>2, <1>3, <1>4, <1>5 DEF Here

\* One place on the connections if one of them holds r, else none.
LEMMA OneElsewhere ==
    ASSUME OnceInv, NEW r \in Requests
    PROVE  /\ (\A w \in Workers : r \notin Contents[<<"inbox", w>>] /\ r \notin Contents[<<"outbox", w>>])
              => Elsewhere(r) = {}
           /\ \A h \in Spots : /\ r \in Contents[h]
                               /\ \E w \in Workers : h = <<"inbox", w>> \/ h = <<"outbox", w>>
                               => \E x : Elsewhere(r) = {x}
<1>1. \A w \in Workers : /\ IsInjective(inbox[w]) /\ IsInjective(outbox[w])
                         /\ ToSet(inbox[w]) = Contents[<<"inbox", w>>]
                         /\ ToSet(outbox[w]) = Contents[<<"outbox", w>>]
    BY SpotContents DEF OnceInv
<1>2. ASSUME NEW w \in Workers
      PROVE  /\ r \notin Contents[<<"inbox", w>>] => In("inbox", w, inbox[w], r) = {}
             /\ r \notin Contents[<<"outbox", w>>] => In("outbox", w, outbox[w], r) = {}
    BY <1>1, OnePlace
<1>3. ASSUME NEW w \in Workers
      PROVE  /\ r \in Contents[<<"inbox", w>>] => \E x : In("inbox", w, inbox[w], r) = {x}
             /\ r \in Contents[<<"outbox", w>>] => \E x : In("outbox", w, outbox[w], r) = {x}
    <2> DEFINE s == inbox[w]
               t == outbox[w]
    <2>1. /\ IsInjective(s) /\ IsInjective(t)
          /\ ToSet(s) = Contents[<<"inbox", w>>] /\ ToSet(t) = Contents[<<"outbox", w>>]
        BY <1>1
    <2> HIDE DEF s, t
    <2>2. r \in ToSet(s) => \E i : In("inbox", w, s, r) = {<<"inbox", w, i>>}
        BY ONLY <2>1, OnePlace
    <2>3. r \in ToSet(t) => \E i : In("outbox", w, t, r) = {<<"outbox", w, i>>}
        BY ONLY <2>1, OnePlace
    <2> QED BY <2>1, <2>2, <2>3 DEF s, t
<1>4. ASSUME \A w \in Workers : r \notin Contents[<<"inbox", w>>] /\ r \notin Contents[<<"outbox", w>>]
      PROVE  Elsewhere(r) = {}
    BY <1>2, <1>4 DEF Elsewhere
<1>5. ASSUME NEW w \in Workers, r \in Contents[<<"inbox", w>>] PROVE \E x : Elsewhere(r) = {x}
    <2>1. /\ \A v \in Workers : v # w => r \notin Contents[<<"inbox", v>>]
          /\ \A v \in Workers : r \notin Contents[<<"outbox", v>>]
        BY <1>5, SpotNames, NowhereElse
    <2>2. Elsewhere(r) = In("inbox", w, inbox[w], r)
        BY <1>2, <2>1 DEF Elsewhere
    <2> QED BY <1>3, <1>5, <2>2
<1>6. ASSUME NEW w \in Workers, r \in Contents[<<"outbox", w>>] PROVE \E x : Elsewhere(r) = {x}
    <2>1. /\ \A v \in Workers : v # w => r \notin Contents[<<"outbox", v>>]
          /\ \A v \in Workers : r \notin Contents[<<"inbox", v>>]
        BY <1>6, SpotNames, NowhereElse
    <2>2. Elsewhere(r) = In("outbox", w, outbox[w], r)
        BY <1>2, <2>1 DEF Elsewhere
    <2> QED BY <1>3, <1>6, <2>2
<1> QED BY <1>4, <1>5, <1>6

\* To be at one spot is to have one place.
LEMMA OnceCounted == PathTypes /\ OnceInv => EachRequestOnce
<1> SUFFICES ASSUME PathTypes, OnceInv, NEW r \in Requests
             PROVE  Cardinality(Places(r)) = IF status[r] = "accepted" THEN 1 ELSE 0
    BY DEF EachRequestOnce
<1>1. Places(r) = PlacesAt("queue", r) \cup PlacesAt("dispatcher", r) \cup PlacesAt("responses", r)
                  \cup PlacesAt("answered", r) \cup PlacesAt("lost", r) \cup Elsewhere(r)
    BY NamedPlaces
<1>2. /\ Accepted \subseteq Requests /\ (r \in Accepted <=> status[r] = "accepted")
      /\ OneSpot(Contents, Accepted)
    BY DEF Accepted, OnceInv
<1>3. CASE r \notin Accepted
    <2>1. \A h \in Spots : r \notin Contents[h]
        BY <1>2, <1>3 DEF OneSpot
    <2>2. /\ PlacesAt("queue", r) = {} /\ PlacesAt("dispatcher", r) = {}
          /\ PlacesAt("responses", r) = {} /\ PlacesAt("answered", r) = {}
          /\ PlacesAt("lost", r) = {}
        BY <2>1, OneHere, SpotNames DEF Here
    <2>3. Elsewhere(r) = {}
        BY <2>1, OneElsewhere, SpotNames
    <2>4. Places(r) = {}
        BY <1>1, <2>2, <2>3
    <2> QED BY <1>2, <1>3, <2>4, FS_EmptySet
<1>4. CASE r \in Accepted
    <2>1. PICK h \in Spots : r \in Contents[h]
        BY <1>2, <1>4 DEF OneSpot
    <2>2. \A g \in Spots : g # h => r \notin Contents[g]
        BY <2>1, NowhereElse
    <2>3. \E x : Places(r) = {x}
        <3>1. CASE \E w \in Workers : h = <<"inbox", w>> \/ h = <<"outbox", w>>
            <4>1. \A p \in Here : At(p) \in Spots /\ At(p) # h
                BY <3>1, SpotNames
            <4>2. /\ PlacesAt("queue", r) = {} /\ PlacesAt("dispatcher", r) = {}
                  /\ PlacesAt("responses", r) = {} /\ PlacesAt("answered", r) = {}
                  /\ PlacesAt("lost", r) = {}
                BY <2>2, <4>1, OneHere DEF Here
            <4>3. \E x : Elsewhere(r) = {x}
                BY <2>1, <3>1, OneElsewhere
            <4> QED BY <1>1, <4>2, <4>3
        <3>2. CASE \E p \in Here : h = At(p)
            <4>1. PICK p \in Here : h = At(p)
                BY <3>2
            <4>2. \A q \in Here : q # p => At(q) \in Spots /\ At(q) # h
                BY <4>1, SpotNames
            <4>3. \A q \in Here : q # p => PlacesAt(q, r) = {}
                BY <2>2, <4>2, OneHere
            <4>4. \E x : PlacesAt(p, r) = {x}
                BY <2>1, <4>1, OneHere
            <4>5. Elsewhere(r) = {}
                <5>1. \A w \in Workers : /\ r \notin Contents[<<"inbox", w>>]
                                         /\ r \notin Contents[<<"outbox", w>>]
                    BY <2>2, <4>1, SpotNames
                <5> QED BY <5>1, OneElsewhere
            <4>6. Places(r) = PlacesAt(p, r)
                BY <1>1, <4>3, <4>5 DEF Here
            <4> QED BY <4>4, <4>6
        <3> QED BY <3>1, <3>2, SpotNames
    <2>4. Cardinality(Places(r)) = 1
        BY <2>3, FS_Singleton
    <2> QED BY <1>2, <1>4, <2>4
<1> QED BY <1>3, <1>4

\* Each accepted request is in one place until it is answered or lost, and one
\* that was turned away is nowhere.
THEOREM RequestsAreOnce == Spec => []EachRequestOnce
<1>1. PathInv => EachRequestOnce
    BY OnceCounted DEF PathInv
<1> QED BY <1>1, Invariance, PTL

\* An accepted request is lost on its way to the response queue only if a worker
\* has gone or, at the request queue, if a live one refused a send.
THEOREM LossesAreExplained == Spec => []LossExplained
<1>1. PathInv => LossExplained
    BY DEF PathInv
<1> QED BY <1>1, Invariance, PTL
=============================================================================
