------------------------ MODULE GroundedAnswer_proofs ------------------------
(***************************************************************************)
(* The gateway gives up only when every provider is exhausted; an answer   *)
(* reports every completion it caused, and the prompt it is written from   *)
(* holds retrieved chunks, the first findings in front, within the budget. *)
(***************************************************************************)
EXTENDS GroundedAnswer, Recursion_proofs

-----------------------------------------------------------------------------
(* The gateway *)

\* The fallback is untouched while the primary is asked, and the primary exhausted
\* once the fallback is.
HandedOver ==
    /\ provider = "fallback" => Exhausted("primary")
    /\ provider = "primary" => posts["fallback"] = 0

\* While the last provider is asked, it has attempts left.
AttemptsLeft == call = "asking" => posts[provider] < MaxRetries

GatewayInv == GatewayTypeOK /\ HandedOver /\ AttemptsLeft /\ NoEarlyRaise

\* A fresh completion satisfies the invariant: nothing was sent yet.
LEMMA AskInv ==
    ASSUME GatewayInv, Ask, UNCHANGED <<configured, completions>>
    PROVE  GatewayInv'
  <1>1. MaxRetries \in Nat \ {0}
    BY GatewayAssumption
  <1>. QED
    BY <1>1 DEF GatewayInv, GatewayTypeOK, HandedOver, AttemptsLeft, NoEarlyRaise, Ask,
                Provider, Exhausted

\* A post whose outcome is a retry, a hand-over or an error keeps it.
LEMMA PostInv ==
    ASSUME GatewayInv, GatewayNext
    PROVE  GatewayInv'
  <1>1. MaxRetries \in Nat \ {0}
    BY GatewayAssumption
  <1>2. provider \in Provider /\ configured \subseteq Provider /\ "primary" \in configured
    BY DEF GatewayInv, GatewayTypeOK, Provider
  <1>3. /\ posts' \in [Provider -> 0..MaxRetries]
        /\ posts'[provider] = posts[provider] + 1
        /\ \A p \in Provider \ {provider} : posts'[p] = posts[p]
    <2>1. posts \in [Provider -> 0..MaxRetries] /\ call = "asking" /\ posts[provider] < MaxRetries
      BY DEF GatewayInv, GatewayTypeOK, AttemptsLeft, GatewayNext, Answers, Garbles, Transient,
             Rejects, Post
    <2>2. posts' = [posts EXCEPT ![provider] = posts[provider] + 1]
      BY DEF GatewayNext, Answers, Garbles, Transient, Rejects, Post
    <2>. QED
      BY <1>1, <1>2, <2>1, <2>2
  <1>4. CASE Answers
    BY <1>1, <1>2, <1>3, <1>4 DEF Answers, GatewayInv, GatewayTypeOK, HandedOver, AttemptsLeft,
       NoEarlyRaise, Exhausted, Provider
  <1>5. CASE Garbles
    BY <1>1, <1>2, <1>3, <1>5 DEF Garbles, GatewayInv, GatewayTypeOK, HandedOver, AttemptsLeft,
       NoEarlyRaise, Exhausted, Provider
  <1>6. CASE Transient
    BY <1>1, <1>2, <1>3, <1>6 DEF Transient, GivesUp, Post, GatewayInv, GatewayTypeOK,
       HandedOver, AttemptsLeft, NoEarlyRaise, Exhausted, Provider
  <1>7. CASE Rejects
    BY <1>1, <1>2, <1>3, <1>7 DEF Rejects, GivesUp, Post, GatewayInv, GatewayTypeOK,
       HandedOver, AttemptsLeft, NoEarlyRaise, Exhausted, Provider
  <1>. QED
    BY <1>4, <1>5, <1>6, <1>7 DEF GatewayNext

-----------------------------------------------------------------------------
(* The request *)

\* What a step of the request itself does to the call.
CallStep ==
    /\ UNCHANGED <<configured, completions>>
    /\ Ask \/ (call' = "none" /\ UNCHANGED <<provider, posts, refused>>) \/ UNCHANGED callVars

\* No completion is left unread outside the stages that wait for one.
CallAwaited == stage \in {"retrieve", "again", "stream", "done"} => call = "none"

\* Completions are charged when they are read.
UsageCharged ==
    /\ usage \in Nat
    /\ completions = usage + (IF call = "answered" THEN 1 ELSE 0)

\* Citations are extracted from a finished answer only, after which the sources
\* are never packed again.
CitationsLast ==
    /\ cited \subseteq 1..Len(sources)
    /\ stage \in {"retrieve", "grade", "rewrite", "again", "answer", "stream"} => cited = {}

\* An unparsed verdict states no more than 0.5.
VerdictTyped ==
    /\ verdict.reply \in {"none", "supported", "unsupported", "unparsed"}
    /\ verdict.confidence \in Int
    /\ verdict.reply = "unparsed" => verdict.confidence = 50

Inv == GatewayInv /\ CallAwaited /\ UsageCharged /\ CitationsLast /\ VerdictTyped

\* A step of the gateway, or one that starts, drops or keeps a call.
LEMMA StepOfCall ==
    ASSUME Next
    PROVE  GatewayNext \/ CallStep
  <1>1. Completes => GatewayNext
    BY DEF Completes
  <1>2. Retrieve \/ Grade \/ Rewrite \/ RetrieveAgain \/ Answer \/ Verify => CallStep
    BY DEF Retrieve, Grade, Rewrite, RetrieveAgain, Answer, Verify, Compose, Await, Goto, CallStep
  <1>3. StreamSources \/ StreamToken \/ StreamEnds => CallStep
    BY DEF StreamSources, StreamToken, StreamEnds, CallStep, gatewayVars
  <1>4. RetrievalFails \/ CallFails \/ VerdictMalformed \/ StreamFails => CallStep
    BY DEF RetrievalFails, CallFails, VerdictMalformed, StreamFails, Fail, CallStep, gatewayVars
  <1>. QED
    BY <1>1, <1>2, <1>3, <1>4 DEF Next

LEMMA GatewayStep ==
    ASSUME GatewayInv, [Next]_vars
    PROVE  GatewayInv'
  <1>1. CASE GatewayNext
    BY <1>1, PostInv
  <1>2. CASE CallStep
    <2>1. CASE Ask
      BY <1>2, <2>1, AskInv DEF CallStep
    <2>2. CASE ~Ask
      BY <1>2, <2>2 DEF CallStep, callVars, GatewayInv, GatewayTypeOK, HandedOver, AttemptsLeft,
         NoEarlyRaise, Exhausted
    <2>. QED
      BY <2>1, <2>2
  <1>3. CASE UNCHANGED vars
    BY <1>3 DEF vars, gatewayVars, callVars, GatewayInv, GatewayTypeOK, HandedOver, AttemptsLeft,
       NoEarlyRaise, Exhausted
  <1>. QED
    BY <1>1, <1>2, <1>3, StepOfCall

\* Every stage that starts waiting has charged what it read.
LEMMA UsageStep ==
    ASSUME GatewayInv, CallAwaited, UsageCharged, [Next]_vars
    PROVE  CallAwaited' /\ UsageCharged'
  <1>. USE DEF CallAwaited, UsageCharged
  <1>1. CASE Completes
    <2>1. completions \in Nat
      BY DEF GatewayInv, GatewayTypeOK
    <2>. QED
      BY <1>1, <2>1 DEF Completes, GatewayNext, Answers, Garbles, Transient, Rejects, GivesUp, Post
  <1>2. CASE Retrieve \/ RetrieveAgain
    BY <1>2 DEF Retrieve, RetrieveAgain, Compose, Await, Goto, Ask
  <1>3. CASE Grade \/ Rewrite
    BY <1>3 DEF Grade, Rewrite, Reads, Compose, Await, Goto, Ask
  <1>4. CASE Answer \/ Verify
    BY <1>4 DEF Answer, Verify, Reads, Await, Goto, Ask
  <1>5. CASE StreamSources \/ StreamToken \/ StreamEnds
    BY <1>5 DEF StreamSources, StreamToken, StreamEnds, gatewayVars, callVars
  <1>6. CASE RetrievalFails \/ CallFails \/ VerdictMalformed \/ StreamFails
    BY <1>6 DEF RetrievalFails, CallFails, VerdictMalformed, StreamFails, Fail, gatewayVars, callVars
  <1>7. CASE UNCHANGED vars
    BY <1>7 DEF vars, gatewayVars, callVars
  <1>. QED
    BY <1>1, <1>2, <1>3, <1>4, <1>5, <1>6, <1>7 DEF Next

LEMMA CitationsStep ==
    ASSUME CitationsLast, [Next]_vars
    PROVE  CitationsLast'
  <1>. USE DEF CitationsLast
  <1>1. CASE Completes
    BY <1>1 DEF Completes, resultVars
  <1>2. CASE Retrieve \/ Grade \/ Rewrite \/ RetrieveAgain
    BY <1>2 DEF Retrieve, Grade, Rewrite, RetrieveAgain, Reads, Compose, Await, Goto
  <1>3. CASE Answer \/ StreamEnds
    BY <1>3 DEF Answer, StreamEnds, Citations, Await, Goto
  <1>4. CASE Verify \/ StreamSources \/ StreamToken
    BY <1>4 DEF Verify, Reads, Goto, StreamSources, StreamToken, resultVars
  <1>5. CASE RetrievalFails \/ CallFails \/ VerdictMalformed \/ StreamFails
    BY <1>5 DEF RetrievalFails, CallFails, VerdictMalformed, StreamFails, Fail, resultVars
  <1>6. CASE UNCHANGED vars
    BY <1>6 DEF vars, resultVars
  <1>. QED
    BY <1>1, <1>2, <1>3, <1>4, <1>5, <1>6 DEF Next

LEMMA VerdictStep ==
    ASSUME VerdictTyped, [Next]_vars
    PROVE  VerdictTyped'
  <1>. USE DEF VerdictTyped
  <1>1. CASE Verify
    BY <1>1, AnswerAssumption DEF Verify
  <1>2. CASE ~Verify
    <2>1. UNCHANGED verdict
      BY <1>2 DEF Next, Completes, Retrieve, Grade, Rewrite, RetrieveAgain, Answer, StreamSources,
         StreamToken, StreamEnds, RetrievalFails, CallFails, VerdictMalformed, StreamFails, Fail,
         resultVars, vars
    <2>. QED
      BY <2>1
  <1>. QED
    BY <1>1, <1>2

-----------------------------------------------------------------------------
(* Packing *)

LEMMA TotalRuns ==
  ASSUME NEW s \in Seq(Nat)
  PROVE  \E st \in [0 .. Len(s) -> Nat] :
           /\ st[0] = 0
           /\ \A i \in 1 .. Len(s) : st[i] = st[i - 1] + s[i]
           /\ Total(s) = st[Len(s)]
<1> DEFINE n == Len(s)
           fold == CHOOSE f : f = [t \in SUBSET DOMAIN s |->
                     IF t = {} THEN 0 ELSE f[t \ {Max(t)}] + s[Max(t)]]
           st == [i \in 0 .. n |-> fold[1 .. i]]
<1>1. n \in Nat /\ DOMAIN s = 1 .. n /\ n = Len(s)
  OBVIOUS
<1> HIDE DEF n
<1> USE <1>1
<1>2. Total(s) = fold[1 .. n]
  BY <1>1 DEF Total, FoldLeft, MapThenFoldSet
<1>3. fold = [t \in SUBSET (1 .. n) |-> IF t = {} THEN 0 ELSE fold[t \ {Max(t)}] + s[Max(t)]]
  <2> DEFINE G == [x \in Nat \X (1 .. n) |-> x[1] + s[x[2]]]
  <2>1. G \in [Nat \X (1 .. n) -> Nat]
    OBVIOUS
  <2>2. PICK f : IsFold(f, n, Nat, 0, G)
    <3> HIDE DEF G
    <3>1. QED
      BY <2>1, FoldExists
  <2>3. \A t \in SUBSET (1 .. n) : t # {} => Max(t) \in t
    BY NonEmptyHasMax
  <2>4. \A t \in SUBSET (1 .. n) :
          f[t] = IF t = {} THEN 0 ELSE f[t \ {Max(t)}] + s[Max(t)]
    BY <2>2, <2>3 DEF IsFold
  <2>5. f = [t \in SUBSET (1 .. n) |-> IF t = {} THEN 0 ELSE f[t \ {Max(t)}] + s[Max(t)]]
    BY <2>2, <2>4 DEF IsFold
  <2>6. QED
    BY <1>1, <2>5
<1> HIDE DEF fold
<1>4. fold[1 .. 0] = 0
  BY <1>1, <1>3
<1>5. ASSUME NEW i \in 1 .. n PROVE fold[1 .. i] = fold[1 .. i - 1] + s[i]
  <2>1. Max(1 .. i) = i /\ (1 .. i) \ {i} = 1 .. i - 1 /\ 1 .. i # {} /\ 1 .. i \in SUBSET (1 .. n)
    BY TopOfInterval
  <2>2. QED
    BY <1>3, <2>1
<1>6. \A i \in 0 .. n : fold[1 .. i] \in Nat
  <2> DEFINE T == {i \in 0 .. n : fold[1 .. i] \in Nat}
  <2>1. 0 \in T
    BY <1>4
  <2>2. ASSUME NEW i \in 1 .. n, i - 1 \in T PROVE i \in T
    BY <1>5, <2>2
  <2> HIDE DEF T
  <2>3. \A i \in 0 .. n : i \in T
    BY <2>1, <2>2, InductionTo
  <2>4. QED
    BY <2>3 DEF T
<1>7. st \in [0 .. n -> Nat]
  BY <1>1, <1>6
<1>8. \A i \in 1 .. n : st[i] = st[i - 1] + s[i]
  BY <1>1, <1>5
<1>9. st[0] = 0 /\ st[n] = Total(s)
  BY <1>1, <1>2, <1>4
<1> HIDE DEF st
<1>10. QED
  BY <1>1, <1>7, <1>8, <1>9


LEMMA TokensTyped == ASSUME NEW chars \in Nat PROVE Tokens(chars) \in Nat \ {0}
BY DEF Tokens, CharsPerToken

LEMMA TokensBelow ==
  ASSUME NEW chars \in Nat, NEW n \in Nat, n > 1, chars <= 4 * n - 1
  PROVE  Tokens(chars) \in Nat /\ Tokens(chars) < n
BY DEF Tokens, CharsPerToken

\* Rounding down loses less than a token of characters each time.
LEMMA TotalOfTokens ==
  ASSUME NEW s \in Seq(Nat), \A i \in DOMAIN s : s[i] >= 20,
         NEW e \in Seq(Nat), Len(e) = Len(s), \A i \in DOMAIN s : e[i] = Tokens(s[i])
  PROVE  /\ Total(s) \in Nat /\ Total(e) \in Nat
         /\ Total(s) <= 4 * Total(e) + 3 * Len(s)
         /\ Total(e) >= Len(s)
<1>1. PICK f \in [0 .. Len(s) -> Nat] :
        f[0] = 0 /\ (\A i \in 1 .. Len(s) : f[i] = f[i - 1] + s[i]) /\ Total(s) = f[Len(s)]
  BY TotalRuns
<1>2. PICK g \in [0 .. Len(s) -> Nat] :
        g[0] = 0 /\ (\A i \in 1 .. Len(s) : g[i] = g[i - 1] + e[i]) /\ Total(e) = g[Len(s)]
  BY TotalRuns
<1> DEFINE T == {i \in 0 .. Len(s) : f[i] <= 4 * g[i] + 3 * i /\ g[i] >= i}
<1>3. 0 \in T
  BY <1>1, <1>2
<1>4. ASSUME NEW i \in 1 .. Len(s), i - 1 \in T PROVE i \in T
  <2>0. Len(s) \in Nat /\ i \in Nat /\ i \in DOMAIN s /\ i - 1 \in 0 .. Len(s) /\ i \in 0 .. Len(s)
    OBVIOUS
  <2>1. f[i - 1] \in Nat /\ g[i - 1] \in Nat /\ f[i] \in Nat /\ g[i] \in Nat /\ i \in Nat
    BY <2>0
  <2>2. s[i] \in Nat /\ s[i] >= 20 /\ e[i] = Tokens(s[i])
    BY <2>0
  <2>3. e[i] >= 1 /\ s[i] <= 4 * e[i] + 3 /\ e[i] \in Nat
    BY <2>2 DEF Tokens, CharsPerToken
  <2>4. f[i] = f[i - 1] + s[i] /\ g[i] = g[i - 1] + e[i]
    BY <1>1, <1>2
  <2>5. f[i - 1] <= 4 * g[i - 1] + 3 * (i - 1) /\ g[i - 1] >= i - 1
    BY <1>4
  <2>6. f[i] <= 4 * g[i] + 3 * i /\ g[i] >= i
    <3>1. \A a, b, x, y, k \in Nat :
            a <= 4 * b + 3 * (k - 1) /\ b >= k - 1 /\ x <= 4 * y + 3 /\ y >= 1
              => a + x <= 4 * (b + y) + 3 * k /\ b + y >= k
      OBVIOUS
    <3>2. f[i - 1] + s[i] <= 4 * (g[i - 1] + e[i]) + 3 * i /\ g[i - 1] + e[i] >= i
      BY <2>1, <2>2, <2>3, <2>5, <3>1
    <3>3. QED
      BY <2>4, <3>2
  <2>7. QED
    BY <2>0, <2>6
<1> HIDE DEF T
<1>5. Len(s) \in Nat /\ Len(s) \in 0 .. Len(s)
  OBVIOUS
<1>6. Len(s) \in T
  BY <1>3, <1>4, <1>5, InductionTo
<1>7. QED
  BY <1>1, <1>2, <1>5, <1>6 DEF T

\* Where there is room at all, the longest run of sentences that fits is well defined;
\* joined, it exceeds the room by less than it has sentences.
LEMMA KeptFits ==
  ASSUME NEW c \in Chunk, NEW room \in Nat
  PROVE  /\ Kept(c, room) \in Seq(Nat)
         /\ Len(Kept(c, room)) <= SentenceLimit
         /\ Kept(c, room) # <<>> =>
              /\ Joined(Kept(c, room)) \in Nat
              /\ Joined(Kept(c, room)) < room + SentenceLimit
<1> DEFINE q == Sentences[c]
           n == Len(q)
           Costs(k) == [i \in 1 .. k |-> Tokens(Sentences[c][i])]
           Fits(k) == Total(Costs(k)) <= room
           Most == CHOOSE k \in 0 .. n : Fits(k) /\ \A j \in k + 1 .. n : ~Fits(j)
<1>1. /\ q \in Seq(Nat) /\ n \in Nat /\ n <= SentenceLimit /\ DOMAIN q = 1 .. n
      /\ \A i \in 1 .. n : q[i] \in Nat /\ q[i] >= 20
  BY PackingAssumption
<1>2. \A k \in 0 .. n : Costs(k) \in Seq(Nat) /\ Len(Costs(k)) = k
  <2> SUFFICES ASSUME NEW k \in 0 .. n PROVE Costs(k) \in Seq(Nat) /\ Len(Costs(k)) = k
    OBVIOUS
  <2>1. \A i \in 1 .. k : i \in 1 .. n
    BY <1>1
  <2>2. \A i \in 1 .. k : Sentences[c][i] \in Nat
    BY <1>1, <2>1
  <2>3. \A i \in 1 .. k : Tokens(Sentences[c][i]) \in Nat
    BY <2>2, TokensTyped
  <2>4. QED
    BY <1>1, <2>3
<1>3. Fits(0)
  <2>1. Costs(0) \in Seq(Nat) /\ Len(Costs(0)) = 0
    BY <1>1, <1>2
  <2> HIDE DEF Costs
  <2>2. Total(Costs(0)) = 0
    BY <2>1, TotalRuns
  <2>3. QED
    BY <2>2
<1> HIDE DEF Fits
<1>4. \E k \in 0 .. n : Fits(k) /\ \A j \in k + 1 .. n : ~Fits(j)
  <2> DEFINE T == {k \in 0 .. n : \A j \in k + 1 .. n : ~Fits(j)}
  <2>1. n \in T /\ T \in SUBSET Nat
    BY <1>1
  <2>2. PICK m \in T : \A k \in T : m <= k
    <3> HIDE DEF T
    <3>1. QED
      BY <2>1, LeastExists
  <2>3. Fits(m)
    <3> SUFFICES ASSUME ~Fits(m) PROVE FALSE
      OBVIOUS
    <3>1. m # 0 /\ m \in 1 .. n
      BY <1>1, <1>3, <2>2
    <3>2. m - 1 \in 0 .. n /\ \A j \in m - 1 + 1 .. n : j = m \/ j \in m + 1 .. n
      BY <1>1, <3>1
    <3>3. m - 1 \in T
      BY <2>2, <3>2
    <3>4. ~(m <= m - 1)
      BY <1>1, <3>1
    <3> HIDE DEF T
    <3>5. QED
      BY <2>2, <3>3, <3>4
  <2>4. QED
    BY <2>2, <2>3
<1>5. Most \in 0 .. n /\ Fits(Most)
  BY <1>4
<1>6. Kept(c, room) = SubSeq(q, 1, Most)
  BY DEF Kept, Fits
<1> HIDE DEF Most
<1> DEFINE s == SubSeq(q, 1, Most)
<1>7. /\ s \in Seq(Nat) /\ Len(s) = Most /\ Most \in Nat /\ Most <= SentenceLimit
      /\ \A i \in DOMAIN s : s[i] = q[i] /\ s[i] >= 20
  BY <1>1, <1>5 DEF SentenceLimit
<1>8. \A i \in DOMAIN s : Costs(Most)[i] = Tokens(s[i])
  BY <1>7
<1>9. Costs(Most) \in Seq(Nat) /\ Len(Costs(Most)) = Len(s) /\ Total(Costs(Most)) <= room
  BY <1>2, <1>5, <1>7 DEF Fits
<1> HIDE DEF s, Costs
<1>10. /\ Total(s) \in Nat /\ Total(Costs(Most)) \in Nat
       /\ Total(s) <= 4 * Total(Costs(Most)) + 3 * Most /\ Total(Costs(Most)) >= Most
  BY <1>7, <1>8, <1>9, TotalOfTokens
<1>11. ASSUME s # <<>> PROVE Joined(s) \in Nat /\ Joined(s) < room + SentenceLimit
  <2>1. Most >= 1 /\ room >= 1
    BY <1>7, <1>9, <1>10, <1>11
  <2>2. Total(s) + Most - 1 \in Nat /\ Total(s) + Most - 1 <= 4 * (room + Most) - 1
    BY <1>7, <1>9, <1>10, <2>1
  <2>3. Tokens(Total(s) + Most - 1) \in Nat /\ Tokens(Total(s) + Most - 1) < room + Most
    BY <1>7, <2>1, <2>2, TokensBelow
  <2>4. QED
    BY <1>7, <2>3 DEF Joined, SentenceLimit
<1>12. QED
  BY <1>6, <1>7, <1>11 DEF s

\* A packing, as far as the loop is.
Packed == [kept : Seq(Chunk), used : Int]
NothingPacked == [kept |-> <<>>, used |-> 0]

LEMMA AddExtends ==
  ASSUME NEW packed \in Packed, NEW c \in Chunk
  PROVE  /\ Add(packed, c) \in Packed
         /\ \/ Add(packed, c) = packed
            \/ Add(packed, c).kept = Append(packed.kept, c)
         /\ packed.used < Budget + SentenceLimit => Add(packed, c).used < Budget + SentenceLimit
<1> DEFINE whole == Tokens(Length[c])
           room == Budget - packed.used
           excerpt == Kept(c, room)
           with(cost) == [kept |-> Append(packed.kept, c), used |-> packed.used + cost]
<1>1. packed.used \in Int /\ packed.kept \in Seq(Chunk) /\ Budget \in Nat /\ MinExcerpt \in Nat
      /\ whole \in Nat /\ room \in Int
  BY PackingAssumption, TokensTyped DEF Packed
<1>2. \A cost \in Int : with(cost) \in Packed /\ with(cost).kept = Append(packed.kept, c)
                        /\ with(cost).used = packed.used + cost
  BY <1>1 DEF Packed
<1>3. CASE whole <= room
  <2>1. Add(packed, c) = with(whole)
    BY <1>1, <1>3 DEF Add
  <2>2. packed.used + whole < Budget + SentenceLimit /\ whole \in Int
    BY <1>1, <1>3 DEF SentenceLimit
  <2> HIDE DEF with, whole
  <2>3. QED
    BY <1>2, <2>1, <2>2
<1>4. CASE whole > room /\ room >= MinExcerpt /\ excerpt # <<>>
  <2>1. Add(packed, c) = with(Joined(excerpt))
    BY <1>1, <1>4 DEF Add
  <2>2. room \in Nat
    BY <1>1, <1>4
  <2>3. Joined(excerpt) \in Nat /\ Joined(excerpt) < room + SentenceLimit
    BY <1>4, <2>2, KeptFits
  <2> HIDE DEF with, excerpt
  <2>4. packed.used + Joined(excerpt) < Budget + SentenceLimit
    BY <1>1, <2>3 DEF SentenceLimit
  <2>5. QED
    BY <1>2, <2>1, <2>3, <2>4
<1>5. CASE ~(whole <= room) /\ ~(whole > room /\ room >= MinExcerpt /\ excerpt # <<>>)
  <2>1. Add(packed, c) = packed
    BY <1>5 DEF Add
  <2>2. QED
    BY <2>1
<1>6. QED
  BY <1>3, <1>4, <1>5

\* The packing loop, chunk by chunk.
IsPacking(st, s) ==
  /\ st \in [0 .. Len(s) -> Packed]
  /\ st[0] = NothingPacked
  /\ \A i \in 1 .. Len(s) : st[i] = Add(st[i - 1], s[i])

LEMMA PackRuns ==
  ASSUME NEW s \in Seq(Chunk)
  PROVE  \E st : IsPacking(st, s) /\ Pack(s) = st[Len(s)]
<1> DEFINE n == Len(s)
           fold == CHOOSE f : f = [t \in SUBSET DOMAIN s |->
                     IF t = {} THEN NothingPacked ELSE Add(f[t \ {Max(t)}], s[Max(t)])]
           st == [i \in 0 .. n |-> fold[1 .. i]]
<1>1. n \in Nat /\ DOMAIN s = 1 .. n /\ n = Len(s) /\ \A i \in 1 .. n : s[i] \in Chunk
  OBVIOUS
<1> HIDE DEF n
<1> USE <1>1
<1>2. Pack(s) = fold[1 .. n]
  BY DEF Pack, FoldLeft, MapThenFoldSet, NothingPacked
<1>3. fold = [t \in SUBSET (1 .. n) |->
                IF t = {} THEN NothingPacked ELSE Add(fold[t \ {Max(t)}], s[Max(t)])]
  <2> DEFINE G == [x \in Packed \X (1 .. n) |-> Add(x[1], s[x[2]])]
  <2>1. G \in [Packed \X (1 .. n) -> Packed]
    BY AddExtends
  <2>2. PICK f : IsFold(f, n, Packed, NothingPacked, G)
    <3> HIDE DEF G
    <3>1. NothingPacked \in Packed
      BY DEF NothingPacked, Packed
    <3>2. QED
      BY <2>1, <3>1, FoldExists
  <2>3. \A t \in SUBSET (1 .. n) : t # {} => Max(t) \in 1 .. n /\ t \ {Max(t)} \in SUBSET (1 .. n)
    BY NonEmptyHasMax
  <2>4. \A t \in SUBSET (1 .. n) :
          f[t] = IF t = {} THEN NothingPacked ELSE Add(f[t \ {Max(t)}], s[Max(t)])
    BY <2>2, <2>3 DEF IsFold
  <2>5. f = [t \in SUBSET (1 .. n) |->
               IF t = {} THEN NothingPacked ELSE Add(f[t \ {Max(t)}], s[Max(t)])]
    BY <2>2, <2>4 DEF IsFold
  <2>6. QED
    BY <2>5
<1> HIDE DEF fold
<1>4. fold[1 .. 0] = NothingPacked
  BY <1>3
<1>5. ASSUME NEW i \in 1 .. n PROVE fold[1 .. i] = Add(fold[1 .. i - 1], s[i])
  <2>1. Max(1 .. i) = i /\ (1 .. i) \ {i} = 1 .. i - 1 /\ 1 .. i # {} /\ 1 .. i \in SUBSET (1 .. n)
    BY TopOfInterval
  <2>2. QED
    BY <1>3, <2>1
<1>6. \A i \in 0 .. n : fold[1 .. i] \in Packed
  <2> DEFINE T == {i \in 0 .. n : fold[1 .. i] \in Packed}
  <2>0. NothingPacked \in Packed
    BY DEF NothingPacked, Packed
  <2>1. 0 \in T
    BY <1>4, <2>0
  <2>2. ASSUME NEW i \in 1 .. n, i - 1 \in T PROVE i \in T
    BY <1>5, <2>2, AddExtends
  <2> HIDE DEF T
  <2>3. \A i \in 0 .. n : i \in T
    BY <2>1, <2>2, InductionTo
  <2>4. QED
    BY <2>3 DEF T
<1>7. st \in [0 .. n -> Packed] /\ st[0] = NothingPacked /\ st[n] = Pack(s)
  BY <1>2, <1>4, <1>6
<1>8. \A i \in 1 .. n : st[i] = Add(st[i - 1], s[i])
  BY <1>5
<1> HIDE DEF st
<1>9. QED
  BY <1>7, <1>8 DEF IsPacking

\* One sequence is a beginning of another.
Begins(s, t) == Len(s) <= Len(t) /\ \A i \in 1 .. Len(s) : s[i] = t[i]

LEMMA BeginsIsPrefix ==
  ASSUME NEW V, NEW s \in Seq(V), NEW t \in Seq(V), Begins(s, t)
  PROVE  IsPrefix(s, t)
BY DEF Begins, IsPrefix

\* From one chunk to a later one, a packing only grows, and holds nothing but the chunks
\* the loop has passed.
LEMMA PackingGrows ==
  ASSUME NEW s \in Seq(Chunk), NEW st, IsPacking(st, s), NEW m \in 0 .. Len(s)
  PROVE  \A i \in m .. Len(s) : Begins(st[m].kept, st[i].kept)
<1> DEFINE T == {i \in 0 .. Len(s) : i >= m => Begins(st[m].kept, st[i].kept)}
<1>0. Len(s) \in Nat /\ m \in Nat
  OBVIOUS
<1>1. \A i \in 0 .. Len(s) : st[i] \in Packed /\ st[i].kept \in Seq(Chunk) /\ Len(st[i].kept) \in Nat
  BY DEF IsPacking, Packed
<1>2. Begins(st[m].kept, st[m].kept)
  BY <1>1 DEF Begins
<1>3. 0 \in T
  BY <1>0, <1>2
<1>4. ASSUME NEW i \in 1 .. Len(s), i - 1 \in T PROVE i \in T
  <2>1. i \in Nat /\ i \in 0 .. Len(s) /\ i - 1 \in 0 .. Len(s) /\ s[i] \in Chunk
    BY <1>0
  <2>2. CASE i <= m
    BY <1>0, <1>2, <2>1, <2>2
  <2>3. CASE i > m
    <3>1. Begins(st[m].kept, st[i - 1].kept)
      BY <1>0, <1>4, <2>1, <2>3
    <3>2. st[i] = st[i - 1] \/ st[i].kept = Append(st[i - 1].kept, s[i])
      BY <1>1, <2>1, AddExtends DEF IsPacking
    <3>3. \A q \in Seq(Chunk) : Begins(q, st[i - 1].kept) =>
            Begins(q, Append(st[i - 1].kept, s[i]))
      BY <1>1, <2>1 DEF Begins
    <3>4. st[m].kept \in Seq(Chunk)
      BY <1>1
    <3>5. Begins(st[m].kept, st[i].kept)
      BY <3>1, <3>2, <3>3, <3>4
    <3>6. QED
      BY <2>1, <3>5
  <2>4. QED
    BY <1>0, <2>1, <2>2, <2>3
<1> HIDE DEF T
<1>5. \A i \in 0 .. Len(s) : i \in T
  BY <1>0, <1>3, <1>4, InductionTo
<1>6. QED
  BY <1>0, <1>5 DEF T

\* Chunks in front of the sequence are packed the same whatever comes behind them.
LEMMA PackingsAgree ==
  ASSUME NEW s \in Seq(Chunk), NEW t \in Seq(Chunk), Begins(s, t),
         NEW a, IsPacking(a, s), NEW b, IsPacking(b, t)
  PROVE  a[Len(s)] = b[Len(s)]
<1> DEFINE T == {i \in 0 .. Len(s) : a[i] = b[i]}
<1>0. Len(s) \in Nat /\ Len(t) \in Nat /\ Len(s) <= Len(t)
  BY DEF Begins
<1>1. 0 \in T
  BY <1>0 DEF IsPacking
<1>2. ASSUME NEW i \in 1 .. Len(s), i - 1 \in T PROVE i \in T
  <2>1. i \in 1 .. Len(t) /\ i \in 0 .. Len(s) /\ s[i] = t[i]
    BY <1>0 DEF Begins
  <2>2. a[i] = Add(a[i - 1], s[i]) /\ b[i] = Add(b[i - 1], t[i]) /\ a[i - 1] = b[i - 1]
    BY <1>2, <2>1 DEF IsPacking
  <2>3. QED
    BY <2>1, <2>2
<1> HIDE DEF T
<1>3. \A i \in 0 .. Len(s) : i \in T
  BY <1>0, <1>1, <1>2, InductionTo
<1>4. QED
  BY <1>0, <1>3 DEF T

LEMMA PackBegins ==
  ASSUME NEW s \in Seq(Chunk), NEW t \in Seq(Chunk), Begins(s, t)
  PROVE  Begins(Pack(s).kept, Pack(t).kept)
<1>1. PICK a : IsPacking(a, s) /\ Pack(s) = a[Len(s)]
  BY PackRuns
<1>2. PICK b : IsPacking(b, t) /\ Pack(t) = b[Len(t)]
  BY PackRuns
<1>3. Len(s) \in 0 .. Len(t) /\ Len(t) \in Len(s) .. Len(t)
  BY DEF Begins
<1>4. a[Len(s)] = b[Len(s)]
  BY <1>1, <1>2, PackingsAgree
<1>5. \A i \in Len(s) .. Len(t) : Begins(b[Len(s)].kept, b[i].kept)
  BY <1>2, <1>3, PackingGrows
<1>6. QED
  BY <1>1, <1>2, <1>3, <1>4, <1>5

LEMMA ToSetOfAppend ==
  ASSUME NEW V, NEW s \in Seq(V), NEW v \in V
  PROVE  ToSet(Append(s, v)) = ToSet(s) \cup {v}
<1>1. Len(s) \in Nat /\ Len(Append(s, v)) = Len(s) + 1 /\ Append(s, v)[Len(s) + 1] = v
  OBVIOUS
<1>2. \A i \in 1 .. Len(s) : Append(s, v)[i] = s[i]
  OBVIOUS
<1>3. DOMAIN s = 1 .. Len(s) /\ DOMAIN Append(s, v) = 1 .. Len(s) + 1
  BY <1>1
<1>4. \A i : i \in 1 .. Len(s) + 1 <=> i \in 1 .. Len(s) \/ i = Len(s) + 1
  BY <1>1
<1> DEFINE t == Append(s, v)
<1> HIDE DEF t
<1>5. QED
  BY <1>1, <1>2, <1>3, <1>4 DEF ToSet, t

\* What is packed are chunks of the sequence, within the budget but for the blanks and
\* remainders of excerpts.
LEMMA PackKeeps ==
  ASSUME NEW s \in Seq(Chunk)
  PROVE  /\ Pack(s).kept \in Seq(Chunk)
         /\ ToSet(Pack(s).kept) \subseteq ToSet(s)
         /\ Pack(s).used < Budget + SentenceLimit
<1>1. PICK st : IsPacking(st, s) /\ Pack(s) = st[Len(s)]
  BY PackRuns
<1> DEFINE Good(p) == ToSet(p.kept) \subseteq ToSet(s) /\ p.used < Budget + SentenceLimit
           T == {i \in 0 .. Len(s) : Good(st[i])}
<1>2. Len(s) \in Nat /\ Budget \in Nat
  BY PackingAssumption
<1>3. \A i \in 0 .. Len(s) : st[i] \in Packed /\ st[i].kept \in Seq(Chunk)
  BY <1>1 DEF IsPacking, Packed
<1>4. 0 \in T
  <2>1. st[0].kept = <<>> /\ st[0].used = 0
    BY <1>1 DEF IsPacking, NothingPacked
  <2>2. ToSet(st[0].kept) = {}
    BY <2>1 DEF ToSet
  <2>3. QED
    BY <1>2, <2>1, <2>2 DEF SentenceLimit
<1>5. ASSUME NEW i \in 1 .. Len(s), i - 1 \in T PROVE i \in T
  <2>1. i \in 0 .. Len(s) /\ i - 1 \in 0 .. Len(s) /\ s[i] \in Chunk /\ s[i] \in ToSet(s)
    BY <1>2 DEF ToSet
  <2>2. st[i - 1] \in Packed /\ st[i - 1].kept \in Seq(Chunk) /\ Good(st[i - 1])
    BY <1>3, <1>5, <2>1
  <2>3. st[i] = Add(st[i - 1], s[i])
    BY <1>1 DEF IsPacking
  <2>4. st[i].used < Budget + SentenceLimit
    BY <2>1, <2>2, <2>3, AddExtends
  <2>5. ToSet(Append(st[i - 1].kept, s[i])) \subseteq ToSet(s)
    BY <2>1, <2>2, ToSetOfAppend
  <2>6. st[i] = st[i - 1] \/ st[i].kept = Append(st[i - 1].kept, s[i])
    BY <2>1, <2>2, <2>3, AddExtends
  <2>7. QED
    BY <2>1, <2>2, <2>4, <2>5, <2>6
<1> HIDE DEF T
<1>6. \A i \in 0 .. Len(s) : i \in T
  BY <1>2, <1>4, <1>5, InductionTo
<1>7. QED
  BY <1>1, <1>2, <1>3, <1>6 DEF T

\* The first chunk always fits, so something is packed when something was found.
LEMMA PackNotEmpty ==
  ASSUME NEW s \in Seq(Chunk), s # <<>>
  PROVE  Pack(s).kept # <<>>
<1>1. PICK st : IsPacking(st, s) /\ Pack(s) = st[Len(s)]
  BY PackRuns
<1>2. Len(s) \in Nat /\ Len(s) >= 1 /\ 1 \in 1 .. Len(s) /\ s[1] \in Chunk /\ 1 - 1 = 0
      /\ 1 \in 0 .. Len(s) /\ Len(s) \in 1 .. Len(s)
  OBVIOUS
<1>3. st[1] = Add(NothingPacked, s[1])
  BY <1>1, <1>2 DEF IsPacking
<1>4. Tokens(Length[s[1]]) <= Budget - NothingPacked.used
  BY <1>2, PackingAssumption DEF NothingPacked
<1>5. st[1].kept = <<s[1]>>
  BY <1>3, <1>4 DEF Add, NothingPacked
<1>6. \A i \in 1 .. Len(s) : Begins(st[1].kept, st[i].kept)
  BY <1>1, <1>2, PackingGrows
<1>7. Begins(st[1].kept, Pack(s).kept)
  BY <1>1, <1>2, <1>6
<1>8. QED
  BY <1>5, <1>7 DEF Begins

-----------------------------------------------------------------------------
(* Merging *)

\* One chunk of the second result.
Merged(first, merged, c) == IF c \in ToSet(first) THEN merged ELSE Append(merged, c)

\* The merging loop, chunk by chunk.
IsMerging(st, first, second) ==
  /\ st \in [0 .. Len(second) -> Seq(Chunk)]
  /\ st[0] = first
  /\ \A i \in 1 .. Len(second) : st[i] = Merged(first, st[i - 1], second[i])

LEMMA MergeRuns ==
  ASSUME NEW first \in Seq(Chunk), NEW second \in Seq(Chunk)
  PROVE  \E st : IsMerging(st, first, second) /\ Merge(first, second) = st[Len(second)]
<1> DEFINE n == Len(second)
           fold == CHOOSE f : f = [t \in SUBSET DOMAIN second |->
                     IF t = {} THEN first ELSE Merged(first, f[t \ {Max(t)}], second[Max(t)])]
           st == [i \in 0 .. n |-> fold[1 .. i]]
<1>1. n \in Nat /\ DOMAIN second = 1 .. n /\ n = Len(second) /\ \A i \in 1 .. n : second[i] \in Chunk
  OBVIOUS
<1> HIDE DEF n
<1> USE <1>1
<1>2. Merge(first, second) = fold[1 .. n]
  BY DEF Merge, FoldLeft, MapThenFoldSet, Merged
<1>3. fold = [t \in SUBSET (1 .. n) |->
                IF t = {} THEN first ELSE Merged(first, fold[t \ {Max(t)}], second[Max(t)])]
  <2> DEFINE G == [x \in Seq(Chunk) \X (1 .. n) |-> Merged(first, x[1], second[x[2]])]
  <2>1. G \in [Seq(Chunk) \X (1 .. n) -> Seq(Chunk)]
    BY DEF Merged
  <2>2. PICK f : IsFold(f, n, Seq(Chunk), first, G)
    <3> HIDE DEF G
    <3>1. QED
      BY <2>1, FoldExists
  <2>3. \A t \in SUBSET (1 .. n) : t # {} => Max(t) \in 1 .. n /\ t \ {Max(t)} \in SUBSET (1 .. n)
    BY NonEmptyHasMax
  <2>4. \A t \in SUBSET (1 .. n) :
          f[t] = IF t = {} THEN first ELSE Merged(first, f[t \ {Max(t)}], second[Max(t)])
    BY <2>2, <2>3 DEF IsFold
  <2>5. f = [t \in SUBSET (1 .. n) |->
               IF t = {} THEN first ELSE Merged(first, f[t \ {Max(t)}], second[Max(t)])]
    BY <2>2, <2>4 DEF IsFold
  <2>6. QED
    BY <2>5
<1> HIDE DEF fold
<1>4. fold[1 .. 0] = first
  BY <1>3
<1>5. ASSUME NEW i \in 1 .. n PROVE fold[1 .. i] = Merged(first, fold[1 .. i - 1], second[i])
  <2>1. Max(1 .. i) = i /\ (1 .. i) \ {i} = 1 .. i - 1 /\ 1 .. i # {} /\ 1 .. i \in SUBSET (1 .. n)
    BY TopOfInterval
  <2>2. QED
    BY <1>3, <2>1
<1>6. \A i \in 0 .. n : fold[1 .. i] \in Seq(Chunk)
  <2> DEFINE T == {i \in 0 .. n : fold[1 .. i] \in Seq(Chunk)}
  <2>1. 0 \in T
    BY <1>4
  <2>2. ASSUME NEW i \in 1 .. n, i - 1 \in T PROVE i \in T
    <3>1. i \in 0 .. n /\ second[i] \in Chunk /\ fold[1 .. i - 1] \in Seq(Chunk)
      BY <2>2
    <3>2. fold[1 .. i] = Merged(first, fold[1 .. i - 1], second[i])
      BY <1>5
    <3>3. Merged(first, fold[1 .. i - 1], second[i]) \in Seq(Chunk)
      BY <3>1 DEF Merged
    <3>4. QED
      BY <3>1, <3>2, <3>3
  <2> HIDE DEF T
  <2>3. \A i \in 0 .. n : i \in T
    BY <2>1, <2>2, InductionTo
  <2>4. QED
    BY <2>3 DEF T
<1>7. st \in [0 .. n -> Seq(Chunk)] /\ st[0] = first /\ st[n] = Merge(first, second)
  BY <1>2, <1>4, <1>6
<1>8. \A i \in 1 .. n : st[i] = Merged(first, st[i - 1], second[i])
  BY <1>5
<1> HIDE DEF st
<1>9. QED
  BY <1>7, <1>8 DEF IsMerging

\* A chunk that is not yet there is appended without becoming a duplicate.
LEMMA AppendStaysInjective ==
  ASSUME NEW s \in Seq(Chunk), IsInjective(s), NEW c \in Chunk, c \notin ToSet(s)
  PROVE  IsInjective(Append(s, c))
<1> DEFINE t == Append(s, c)
<1>1. Len(s) \in Nat /\ DOMAIN s = 1 .. Len(s) /\ DOMAIN t = 1 .. Len(s) + 1 /\ t[Len(s) + 1] = c
  OBVIOUS
<1>2. \A i \in 1 .. Len(s) : t[i] = s[i] /\ s[i] # c
  BY DEF ToSet
<1>3. \A i : i \in 1 .. Len(s) + 1 <=> i \in 1 .. Len(s) \/ i = Len(s) + 1
  BY <1>1
<1> HIDE DEF t
<1>4. IsInjective(t)
  BY <1>1, <1>2, <1>3 DEF IsInjective
<1>5. QED
  BY <1>4 DEF t

\* What a second result without duplicates adds comes behind the first one, and no chunk
\* twice.
LEMMA MergeExtends ==
  ASSUME NEW first \in Seq(Chunk), IsInjective(first), NEW second \in Seq(Chunk), IsInjective(second)
  PROVE  /\ Merge(first, second) \in Seq(Chunk)
         /\ IsInjective(Merge(first, second))
         /\ Begins(first, Merge(first, second))
<1>1. PICK st : IsMerging(st, first, second) /\ Merge(first, second) = st[Len(second)]
  BY MergeRuns
<1> DEFINE Good(m, i) == /\ IsInjective(m)
                         /\ Begins(first, m)
                         /\ ToSet(m) \subseteq ToSet(first) \cup {second[j] : j \in 1 .. i}
           T == {i \in 0 .. Len(second) : Good(st[i], i)}
<1>2. Len(second) \in Nat /\ Len(first) \in Nat /\ DOMAIN second = 1 .. Len(second)
  OBVIOUS
<1>3. \A i \in 0 .. Len(second) : st[i] \in Seq(Chunk)
  BY <1>1 DEF IsMerging
<1>4. 0 \in T
  <2>1. st[0] = first
    BY <1>1 DEF IsMerging
  <2>2. QED
    BY <1>2, <2>1 DEF Begins
<1>5. ASSUME NEW i \in 1 .. Len(second), i - 1 \in T PROVE i \in T
  <2>1. i \in Nat /\ i \in 0 .. Len(second) /\ i - 1 \in 0 .. Len(second) /\ second[i] \in Chunk
    BY <1>2
  <2>2. st[i - 1] \in Seq(Chunk) /\ Good(st[i - 1], i - 1)
    BY <1>3, <1>5, <2>1
  <2>3. st[i] = Merged(first, st[i - 1], second[i])
    BY <1>1 DEF IsMerging
  <2>4. {second[j] : j \in 1 .. i - 1} \cup {second[i]} \subseteq {second[j] : j \in 1 .. i}
    BY <2>1
  <2>5. CASE second[i] \in ToSet(first)
    <3>1. st[i] = st[i - 1]
      BY <2>3, <2>5 DEF Merged
    <3>2. ToSet(st[i]) \subseteq ToSet(first) \cup {second[j] : j \in 1 .. i}
      <4>1. ToSet(st[i - 1]) \subseteq ToSet(first) \cup {second[j] : j \in 1 .. i - 1}
        BY <2>2
      <4>2. QED
        BY <2>4, <3>1, <4>1
    <3>3. QED
      BY <2>1, <2>2, <3>1, <3>2
  <2>6. CASE second[i] \notin ToSet(first)
    <3>1. st[i] = Append(st[i - 1], second[i])
      BY <2>3, <2>6 DEF Merged
    <3>2. \A j \in 1 .. i - 1 : second[j] # second[i]
      BY <1>2, <2>1 DEF IsInjective
    <3>3. second[i] \notin ToSet(st[i - 1])
      BY <2>2, <2>6, <3>2
    <3>4. IsInjective(st[i])
      BY <2>1, <2>2, <3>1, <3>3, AppendStaysInjective
    <3>5. ToSet(st[i]) = ToSet(st[i - 1]) \cup {second[i]}
      BY <2>1, <2>2, <3>1, ToSetOfAppend
    <3>6. Begins(first, st[i])
      BY <1>2, <2>1, <2>2, <3>1 DEF Begins
    <3>7. ToSet(st[i]) \subseteq ToSet(first) \cup {second[j] : j \in 1 .. i}
      BY <2>2, <2>4, <3>5
    <3>8. QED
      BY <2>1, <3>4, <3>6, <3>7
  <2>7. QED
    BY <2>5, <2>6
<1> HIDE DEF T
<1>6. \A i \in 0 .. Len(second) : i \in T
  BY <1>2, <1>4, <1>5, InductionTo
<1>7. Len(second) \in 0 .. Len(second)
  BY <1>2
<1>8. QED
  BY <1>1, <1>3, <1>6, <1>7 DEF T

-----------------------------------------------------------------------------
(* The prompt *)

EventKind == {"sources", "token", "done"}

\* What the request carries besides its chunks.
RequestTyped ==
    /\ request \in [streaming : BOOLEAN, corrective : BOOLEAN, verify : BOOLEAN]
    /\ stage \in Stage
    /\ grade \in {"none", "sufficient", "insufficient"}
    /\ cited \in SUBSET Markers
    /\ events \in Seq(EventKind)

\* The first result stays in front of all the chunks found.
FindingsInFront ==
    /\ hits \in Found
    /\ chunks \in Seq(Chunk) /\ IsInjective(chunks)
    /\ Begins(hits, chunks)

\* The sources are the packing of all the chunks found, once there is an answer to write.
SourcesPacked ==
    /\ sources = <<>> \/ sources = Pack(chunks).kept
    /\ stage \in {"retrieve", "grade", "rewrite", "again"} => sources = <<>>
    /\ stage \in {"answer", "verify", "stream"} => sources # <<>>

PromptInv == RequestTyped /\ FindingsInFront /\ SourcesPacked

LEMMA FoundTyped ==
  ASSUME NEW found \in Found
  PROVE  found \in Seq(Chunk) /\ IsInjective(found) /\ Begins(found, found)
<1>1. Limit \in Nat
  BY AnswerAssumption
<1>2. PICK m \in 0 .. Limit : found \in [1 .. m -> Chunk]
  BY DEF Found, SeqOf
<1>3. found \in Seq(Chunk)
  BY <1>1, <1>2
<1>4. QED
  BY <1>3 DEF Found, Begins

\* An answer is composed from all the chunks found, or not at all.
LEMMA ComposePacks ==
  ASSUME NEW found \in Seq(Chunk), chunks' = found, sources = <<>>, Compose(found)
  PROVE  SourcesPacked' /\ stage' \in {"done", "answer"}
<1>1. CASE found = <<>> /\ Goto("done") /\ UNCHANGED sources
  BY <1>1 DEF Goto, SourcesPacked
<1>2. CASE found # <<>> /\ sources' = Pack(found).kept /\ Await("answer")
  <2>1. Pack(found).kept # <<>>
    BY <1>2, PackNotEmpty
  <2>2. stage' = "answer" /\ sources' = Pack(chunks').kept
    BY <1>2 DEF Await
  <2>3. QED
    BY <1>2, <2>1, <2>2 DEF SourcesPacked
<1>3. QED
  BY <1>1, <1>2 DEF Compose

\* A step that leaves the chunks alone and does not start an answer.
LEMMA KeepsPacked ==
  ASSUME SourcesPacked, UNCHANGED <<foundVars, sources>>,
         \/ stage' = stage
         \/ stage' \in {"done", "failed"}
         \/ stage' \in {"rewrite", "again"} /\ stage \in {"grade", "rewrite"}
         \/ stage' = "verify" /\ stage = "answer"
  PROVE  SourcesPacked'
BY DEF SourcesPacked, foundVars

LEMMA PromptOfRetrieve ==
  ASSUME PromptInv, Retrieve
  PROVE  PromptInv'
<1>1. PICK found \in Found :
        /\ hits' = found /\ chunks' = found
        /\ \/ ~request.corrective /\ Compose(found) /\ UNCHANGED grade
           \/ request.corrective /\ found # <<>> /\ Await("grade") /\ UNCHANGED <<sources, grade>>
           \/ /\ request.corrective /\ found = <<>>
              /\ grade' = "insufficient"
              /\ Await("rewrite")
              /\ UNCHANGED sources
  BY DEF Retrieve
<1>2. found \in Seq(Chunk) /\ IsInjective(found) /\ Begins(found, found)
  BY FoundTyped
<1>3. FindingsInFront'
  BY <1>1, <1>2 DEF FindingsInFront
<1>4. stage = "retrieve" /\ sources = <<>> /\ UNCHANGED <<request, cited, events>>
  BY DEF Retrieve, PromptInv, SourcesPacked
<1>5. CASE Compose(found) /\ UNCHANGED grade
  <2>1. SourcesPacked' /\ stage' \in {"done", "answer"}
    BY <1>1, <1>2, <1>4, <1>5, ComposePacks
  <2>2. QED
    BY <1>3, <1>4, <1>5, <2>1 DEF PromptInv, RequestTyped, Stage
<1>6. CASE ~(Compose(found) /\ UNCHANGED grade)
  <2>1. stage' \in {"grade", "rewrite"} /\ grade' \in {grade, "insufficient"} /\ sources' = sources
    BY <1>1, <1>6 DEF Await
  <2>2. SourcesPacked'
    BY <1>4, <2>1 DEF SourcesPacked
  <2>3. QED
    BY <1>3, <1>4, <2>1, <2>2 DEF PromptInv, RequestTyped, Stage
<1>7. QED
  BY <1>5, <1>6

LEMMA PromptOfSecondAttempt ==
  ASSUME PromptInv, Grade \/ Rewrite
  PROVE  PromptInv'
<1>1. UNCHANGED <<request, foundVars, cited, events>> /\ stage \in {"grade", "rewrite"}
  BY DEF Grade, Rewrite, Reads
<1>2. FindingsInFront' /\ chunks \in Seq(Chunk) /\ chunks' = chunks
  BY <1>1 DEF PromptInv, FindingsInFront, foundVars
<1>3. sources = <<>>
  BY <1>1 DEF PromptInv, SourcesPacked
<1>4. grade' \in {"none", "sufficient", "insufficient"}
  BY DEF Grade, Rewrite, PromptInv, RequestTyped
<1>5. CASE Compose(chunks)
  <2>1. SourcesPacked' /\ stage' \in {"done", "answer"}
    BY <1>2, <1>3, <1>5, ComposePacks
  <2>2. QED
    BY <1>1, <1>2, <1>4, <2>1 DEF PromptInv, RequestTyped, Stage
<1>6. CASE ~Compose(chunks)
  <2>1. stage' \in {"rewrite", "again"} /\ sources' = sources
    BY <1>6 DEF Grade, Rewrite, Await, Goto
  <2>2. SourcesPacked'
    BY <1>1, <2>1, KeepsPacked DEF PromptInv
  <2>3. QED
    BY <1>1, <1>2, <1>4, <2>1, <2>2 DEF PromptInv, RequestTyped, Stage
<1>7. QED
  BY <1>5, <1>6

LEMMA PromptOfRetrieveAgain ==
  ASSUME PromptInv, RetrieveAgain
  PROVE  PromptInv'
<1>1. PICK found \in Found : chunks' = Merge(chunks, found) /\ Compose(chunks')
  BY DEF RetrieveAgain
<1>2. UNCHANGED <<request, hits, grade, cited, events>> /\ stage = "again" /\ sources = <<>>
  BY DEF RetrieveAgain, PromptInv, SourcesPacked
<1>3. found \in Seq(Chunk) /\ IsInjective(found) /\ hits \in Seq(Chunk) /\ hits \in Found
  BY FoundTyped DEF PromptInv, FindingsInFront
<1>4. chunks \in Seq(Chunk) /\ IsInjective(chunks) /\ Begins(hits, chunks)
  BY DEF PromptInv, FindingsInFront
<1>5. chunks' \in Seq(Chunk) /\ IsInjective(chunks') /\ Begins(chunks, chunks')
  BY <1>1, <1>3, <1>4, MergeExtends
<1>6. Begins(hits, chunks')
  BY <1>3, <1>4, <1>5 DEF Begins
<1>7. FindingsInFront'
  BY <1>2, <1>3, <1>5, <1>6 DEF FindingsInFront
<1>8. SourcesPacked' /\ stage' \in {"done", "answer"}
  BY <1>1, <1>2, <1>5, ComposePacks
<1>9. QED
  BY <1>2, <1>7, <1>8 DEF PromptInv, RequestTyped, Stage

LEMMA PromptOfAnswer ==
  ASSUME PromptInv, Answer \/ Verify
  PROVE  PromptInv'
<1>1. UNCHANGED <<request, foundVars, sources, grade, events>>
  BY DEF Answer, Verify
<1>2. (stage = "answer" /\ stage' = "verify") \/ stage' = "done"
  BY DEF Answer, Verify, Reads, Await, Goto
<1>3. cited' \in SUBSET Markers
  BY DEF Answer, Verify, Citations, PromptInv, RequestTyped
<1>4. SourcesPacked'
  BY <1>1, <1>2, KeepsPacked DEF PromptInv
<1>5. QED
  BY <1>1, <1>2, <1>3, <1>4 DEF PromptInv, RequestTyped, Stage, FindingsInFront, foundVars

LEMMA PromptOfStreamSources ==
  ASSUME PromptInv, StreamSources
  PROVE  PromptInv'
<1>1. PICK found \in Found :
        /\ hits' = found /\ chunks' = found
        /\ \/ /\ found = <<>>
              /\ stage' = "done"
              /\ events' = <<"sources", "token", "done">>
              /\ UNCHANGED sources
           \/ /\ found # <<>>
              /\ stage' = "stream"
              /\ sources' = Pack(found).kept
              /\ events' = <<"sources">>
  BY DEF StreamSources
<1>2. found \in Seq(Chunk) /\ IsInjective(found) /\ Begins(found, found)
  BY FoundTyped
<1>3. FindingsInFront'
  BY <1>1, <1>2 DEF FindingsInFront
<1>4. UNCHANGED <<request, grade, cited>> /\ sources = <<>>
  BY DEF StreamSources, PromptInv, SourcesPacked
<1>5. events' \in Seq(EventKind) /\ stage' \in {"done", "stream"}
  <2>1. <<"sources">> \in Seq(EventKind) /\ <<"sources", "token", "done">> \in Seq(EventKind)
    BY DEF EventKind
  <2>2. QED
    BY <1>1, <2>1
<1>6. SourcesPacked'
  <2>1. CASE found = <<>>
    BY <1>1, <1>4, <2>1 DEF SourcesPacked
  <2>2. CASE found # <<>>
    <3>1. Pack(found).kept # <<>>
      BY <1>2, <2>2, PackNotEmpty
    <3>2. QED
      BY <1>1, <2>2, <3>1 DEF SourcesPacked
  <2>3. QED
    BY <2>1, <2>2
<1>7. QED
  BY <1>3, <1>4, <1>5, <1>6 DEF PromptInv, RequestTyped, Stage

LEMMA PromptOfStream ==
  ASSUME PromptInv, StreamToken \/ StreamEnds
  PROVE  PromptInv'
<1>1. UNCHANGED <<request, foundVars, sources, grade>>
  BY DEF StreamToken, StreamEnds, resultVars
<1>2. stage' \in {stage, "done"}
  BY DEF StreamToken, StreamEnds
<1>3. cited' \in SUBSET Markers
  BY DEF StreamToken, StreamEnds, Citations, PromptInv, RequestTyped, resultVars
<1>4. events' \in Seq(EventKind)
  BY DEF StreamToken, StreamEnds, EventKind, PromptInv, RequestTyped
<1>5. SourcesPacked'
  BY <1>1, <1>2, KeepsPacked DEF PromptInv
<1>6. QED
  BY <1>1, <1>2, <1>3, <1>4, <1>5 DEF PromptInv, RequestTyped, Stage, FindingsInFront, foundVars

LEMMA PromptOfOthers ==
  ASSUME PromptInv, \/ Completes
                    \/ RetrievalFails \/ CallFails \/ VerdictMalformed \/ StreamFails
                    \/ UNCHANGED vars
  PROVE  PromptInv'
<1>1. UNCHANGED <<request, foundVars, resultVars, events>> /\ stage' \in {stage, "failed"}
  BY DEF Completes, RetrievalFails, CallFails, VerdictMalformed, StreamFails, Fail, vars
<1>2. SourcesPacked'
  BY <1>1, KeepsPacked DEF PromptInv, resultVars
<1>3. QED
  BY <1>1, <1>2 DEF PromptInv, RequestTyped, Stage, FindingsInFront, foundVars, resultVars

LEMMA PromptStep ==
  ASSUME PromptInv, [Next]_vars
  PROVE  PromptInv'
BY PromptOfRetrieve, PromptOfSecondAttempt, PromptOfRetrieveAgain, PromptOfAnswer,
   PromptOfStreamSources, PromptOfStream, PromptOfOthers DEF Next

-----------------------------------------------------------------------------
(* Theorems *)

LEMMA InvHolds == Spec => []Inv
  <1>1. Init => Inv
    <2>1. Init => GatewayInv
      BY GatewayAssumption DEF Init, GatewayInit, GatewayInv, GatewayTypeOK, HandedOver, AttemptsLeft,
         NoEarlyRaise, Exhausted, Provider
    <2>2. Init => CallAwaited /\ UsageCharged /\ CitationsLast /\ VerdictTyped
      BY DEF Init, GatewayInit, CallAwaited, UsageCharged, CitationsLast, VerdictTyped, NoVerdict
    <2>. QED
      BY <2>1, <2>2 DEF Inv
  <1>2. Inv /\ [Next]_vars => Inv'
    BY GatewayStep, UsageStep, CitationsStep, VerdictStep DEF Inv
  <1>. QED
    BY <1>1, <1>2, PTL DEF Spec

\* A completion raises LLMError only after every configured provider rejected it or
\* was tried MaxRetries times, however often the provider recovers in between.
THEOREM GatewayPersists == Spec => []NoEarlyRaise
  <1>1. Inv => NoEarlyRaise
    BY DEF Inv, GatewayInv
  <1>. QED
    BY <1>1, InvHolds, PTL

\* An answer reports exactly the completions its request caused.
THEOREM UsageReported == Spec => []UsageIsComplete
  <1>1. Inv => UsageIsComplete
    BY DEF Inv, CallAwaited, UsageCharged, UsageIsComplete
  <1>. QED
    BY <1>1, InvHolds, PTL

\* Whatever is retrieved, packed and replied, citations index the sources shown.
THEOREM CitationsValid == Spec => []CitationsResolve
  <1>1. Inv => CitationsResolve
    BY DEF Inv, CitationsLast, CitationsResolve
  <1>. QED
    BY <1>1, InvHolds, PTL

\* Whatever confidence a verifier states, the one shown is capped, and above 0.8
\* only with its support.
THEOREM ConfidenceEarned == Spec => []ConfidenceIsEarned
  <1>1. VerdictTyped => ConfidenceIsEarned
    <2>. DEFINE base == 50 + (IF grade = "sufficient" THEN 20 ELSE 0) + (IF cited # {} THEN 10 ELSE 0)
    <2>1. base \in 50..80
      OBVIOUS
    <2>. QED
      BY <2>1 DEF VerdictTyped, ConfidenceIsEarned, Confidence, Score
  <1>. QED
    BY <1>1, InvHolds, PTL DEF Inv

\* The prompt of every answer holds retrieved chunks only and at least one, the first
\* findings in front as they would have been packed alone, and stays within the token
\* budget but for the remainders of excerpts, whatever the second attempt adds; and
\* the citations index it.
THEOREM PromptStaysGrounded == Spec => []PromptIsGrounded
  <1>1. Init => PromptInv
    <2>1. Init => FindingsInFront
      <3>1. <<>> \in Found
        <4>1. <<>> \in [1 .. 0 -> Chunk] /\ 0 \in 0 .. Limit
          BY AnswerAssumption
        <4>2. IsInjective(<<>>)
          BY DEF IsInjective
        <4>3. QED
          BY <4>1, <4>2 DEF Found, SeqOf
      <3>2. QED
        BY <3>1, FoundTyped DEF Init, FindingsInFront
    <2>2. QED
      BY <2>1 DEF Init, PromptInv, RequestTyped, Stage, SourcesPacked
  <1>2. PromptInv /\ [Next]_vars => PromptInv'
    BY PromptStep
  <1>3. Inv /\ PromptInv => PromptIsGrounded
    <2>. SUFFICES ASSUME Inv, PromptInv
                  PROVE  PromptIsGrounded
      OBVIOUS
    <2>1. hits \in Seq(Chunk) /\ chunks \in Seq(Chunk) /\ Begins(hits, chunks)
      BY FoundTyped DEF PromptInv, FindingsInFront
    <2>2. Pack(chunks).kept \in Seq(Chunk) /\ ToSet(Pack(chunks).kept) \subseteq ToSet(chunks)
          /\ ContextFits
      BY <2>1, PackKeeps DEF ContextFits
    <2>3. ToSet(sources) \subseteq ToSet(chunks)
      <3>1. ToSet(<<>>) = {}
        BY DEF ToSet
      <3>2. QED
        BY <2>2, <3>1 DEF PromptInv, SourcesPacked
    <2>4. ToSet(chunks) \subseteq Chunk /\ ToSet(events) \subseteq EventKind
      BY <2>1 DEF ToSet, PromptInv, RequestTyped
    <2>5. TypeOK
      BY <2>3, <2>4 DEF TypeOK, Inv, GatewayInv, UsageCharged, VerdictTyped, PromptInv,
         RequestTyped, FindingsInFront, EventKind
    <2>6. FirstFindingsKept
      <3>1. Pack(hits).kept \in Seq(Chunk) /\ Begins(Pack(hits).kept, Pack(chunks).kept)
        BY <2>1, PackKeeps, PackBegins
      <3>2. IsPrefix(Pack(hits).kept, Pack(chunks).kept)
        BY <2>2, <3>1, BeginsIsPrefix
      <3>3. QED
        BY <3>2 DEF FirstFindingsKept, PromptInv, SourcesPacked
    <2>7. AnswerHasSource /\ CitationsResolve
      BY DEF AnswerHasSource, CitationsResolve, PromptInv, SourcesPacked, Inv, CitationsLast
    <2>. QED
      BY <2>2, <2>5, <2>6, <2>7 DEF PromptIsGrounded
  <1>. QED
    BY <1>1, <1>2, <1>3, InvHolds, PTL DEF Spec

===============================================================================
