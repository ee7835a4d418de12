------------------------- MODULE RateLimiterProofs -------------------------
(***************************************************************************)
(* Proofs about RateLimiter, for any addresses, rate and window.           *)
(*                                                                         *)
(* AtMostTwoBudgets looks at every stretch of a window's length, the code  *)
(* at one window at a time.  A stretch that reaches the present window     *)
(* begins at most a window's length before it; so what must be known of    *)
(* the past is that the requests let through in that time were no more     *)
(* than one budget (Present below), and nothing at all when the visitor    *)
(* was forgotten.                                                          *)
(***************************************************************************)
EXTENDS RateLimiter, FiniteSetTheorems, TLAPS

\* Requests of a let through in lo .. hi, and from lo on.
Between(a, lo, hi) == {x \in admitted : x[1] = a /\ lo <= x[2] /\ x[2] <= hi}
From(a, lo)        == {x \in admitted : x[1] = a /\ x[2] >= lo}

\* Each request has its own number among those of its address and its time.
Numbered ==
    \A x \in admitted : x[2] <= now /\ x[3] <= Cardinality(AdmittedAt(x[1], x[2]))

\* A forgotten visitor has let a window pass since its last request.
Forgotten(a) == \A x \in admitted : x[1] = a => x[2] + Window < now

\* The present window of a, and the stretch before it.
Present(a) ==
    LET start == visitors[a].lastReset IN
    /\ start <= now
    /\ \A x \in admitted : x[1] = a => x[2] <= start + Window
    /\ visitors[a].tokens + Cardinality(From(a, start)) = Rate
    /\ Cardinality(Between(a, start - Window, start - 1)) <= Rate

Windows ==
    \A a \in Addresses :
        IF visitors[a] = NoVisitor THEN Forgotten(a) ELSE Present(a)

\* AtMostTwoBudgets, for stretches that have not begun too.
TwoBudgets ==
    \A a \in Addresses : \A t \in Nat :
        Cardinality(Between(a, t, t + Window)) <= 2 * Rate

IInv ==
    /\ LimiterTypeOK
    /\ IsFiniteSet(admitted)
    /\ Numbered
    /\ Windows
    /\ TwoBudgets

-----------------------------------------------------------------------------
(* Counting *)

\* A part of the requests is finite, and no larger than one it is part of.
LEMMA Part ==
    ASSUME NEW S, NEW T, IsFiniteSet(T), S \subseteq T
    PROVE  /\ IsFiniteSet(S)
           /\ Cardinality(S) \in Nat /\ Cardinality(T) \in Nat
           /\ Cardinality(S) <= Cardinality(T)
<1>1. IsFiniteSet(S) /\ Cardinality(S) <= Cardinality(T)
  BY FS_Subset
<1> QED BY <1>1, FS_CardinalityType

\* Two parts cover no more than both together.
LEMMA Cover ==
    ASSUME NEW S, NEW T, NEW U, IsFiniteSet(T), IsFiniteSet(U), S \subseteq T \cup U
    PROVE  Cardinality(S) <= Cardinality(T) + Cardinality(U)
<1>1. /\ IsFiniteSet(T \cup U)
      /\ Cardinality(T \cup U) =
             Cardinality(T) + Cardinality(U) - Cardinality(T \cap U)
  BY FS_Union
<1>2. Cardinality(S) \in Nat /\ Cardinality(S) <= Cardinality(T \cup U)
  BY <1>1, Part
<1>3. IsFiniteSet(T \cap U)
  BY Part
<1>4. Cardinality(T) \in Nat /\ Cardinality(U) \in Nat /\ Cardinality(T \cap U) \in Nat
  BY <1>3, FS_CardinalityType
<1> QED BY <1>1, <1>2, <1>4

\* The parts of the requests that are counted are finite.
LEMMA Finite ==
    ASSUME IsFiniteSet(admitted), NEW a, NEW lo, NEW hi
    PROVE  /\ IsFiniteSet(Between(a, lo, hi))
           /\ Cardinality(Between(a, lo, hi)) \in Nat
           /\ IsFiniteSet(From(a, lo))
           /\ Cardinality(From(a, lo)) \in Nat
           /\ IsFiniteSet(AdmittedAt(a, lo))
           /\ Cardinality(AdmittedAt(a, lo)) \in Nat
<1>1. /\ Between(a, lo, hi) \subseteq admitted
      /\ From(a, lo) \subseteq admitted
      /\ AdmittedAt(a, lo) \subseteq admitted
  BY DEF Between, From, AdmittedAt
<1> QED BY <1>1, Part

-----------------------------------------------------------------------------
(* One more request of a, whatever its window *)

\* The entry that LetThrough adds.
Entry(a) == <<a, now, Cardinality(AdmittedAt(a, now)) + 1>>

\* The entry is new, so every part it falls into grows by one.
LEMMA OneMore ==
    ASSUME IInv, NEW a \in Addresses, LetThrough(a)
    PROVE  /\ Entry(a) \in Addresses \X Nat \X Nat
           /\ Entry(a) \notin admitted
           /\ admitted' = admitted \cup {Entry(a)}
           /\ IsFiniteSet(admitted')
<1>1. Cardinality(AdmittedAt(a, now)) \in Nat
  BY Finite DEF IInv
<1>2. Entry(a) \in Addresses \X Nat \X Nat
  BY <1>1 DEF Entry, IInv, LimiterTypeOK
<1>3. Entry(a) \notin admitted
  <2> SUFFICES ASSUME Entry(a) \in admitted PROVE FALSE
    OBVIOUS
  <2>1. Entry(a)[3] <= Cardinality(AdmittedAt(Entry(a)[1], Entry(a)[2]))
    BY DEF IInv, Numbered
  <2>2. /\ Entry(a)[1] = a /\ Entry(a)[2] = now
        /\ Entry(a)[3] = Cardinality(AdmittedAt(a, now)) + 1
    BY DEF Entry
  <2> QED BY <1>1, <2>1, <2>2
<1>4. admitted' = admitted \cup {Entry(a)}
  BY DEF LetThrough, Entry
<1>5. IsFiniteSet(admitted')
  BY <1>4, FS_AddElement DEF IInv
<1> QED BY <1>2, <1>3, <1>4, <1>5

\* The numbering goes on.
LEMMA NumberedKept ==
    ASSUME IInv, NEW a \in Addresses, LetThrough(a), UNCHANGED now
    PROVE  Numbered'
<1>1. /\ Entry(a) \notin admitted
      /\ admitted' = admitted \cup {Entry(a)}
      /\ IsFiniteSet(admitted')
  BY OneMore
<1>2. Entry(a)[1] = a /\ Entry(a)[2] = now
      /\ Entry(a)[3] = Cardinality(AdmittedAt(a, now)) + 1
  BY DEF Entry
<1> SUFFICES ASSUME NEW x \in admitted'
             PROVE  x[2] <= now' /\ x[3] <= Cardinality(AdmittedAt(x[1], x[2])')
  BY DEF Numbered, AdmittedAt
<1>3. CASE x \in admitted
  <2>1. AdmittedAt(x[1], x[2]) \subseteq AdmittedAt(x[1], x[2])'
    BY <1>1 DEF AdmittedAt
  <2>2. AdmittedAt(x[1], x[2])' \subseteq admitted'
    BY DEF AdmittedAt
  <2>3. IsFiniteSet(AdmittedAt(x[1], x[2])')
    BY <1>1, <2>2, Part
  <2>4. /\ Cardinality(AdmittedAt(x[1], x[2])) \in Nat
        /\ Cardinality(AdmittedAt(x[1], x[2])') \in Nat
        /\ Cardinality(AdmittedAt(x[1], x[2])) <= Cardinality(AdmittedAt(x[1], x[2])')
    BY <2>1, <2>3, Part
  <2>5. /\ x[2] <= now /\ x[3] <= Cardinality(AdmittedAt(x[1], x[2]))
        /\ x[3] \in Nat
    BY <1>3 DEF IInv, Numbered, LimiterTypeOK
  <2> QED BY <2>4, <2>5
<1>4. CASE x = Entry(a)
  <2>1. AdmittedAt(a, now)' = AdmittedAt(a, now) \cup {Entry(a)}
    BY <1>1, <1>2 DEF AdmittedAt
  <2>2. IsFiniteSet(AdmittedAt(a, now))
    BY Finite DEF IInv
  <2> Entry(a) \notin AdmittedAt(a, now)
    BY <1>1 DEF AdmittedAt
  <2>3. Cardinality(AdmittedAt(a, now)') = Cardinality(AdmittedAt(a, now)) + 1
    BY <2>1, <2>2, FS_AddElement
  <2>4. Cardinality(AdmittedAt(a, now)) \in Nat /\ now \in Nat
    BY Finite DEF IInv, LimiterTypeOK
  <2>5. AdmittedAt(x[1], x[2])' = AdmittedAt(a, now)'
    BY <1>2, <1>4 DEF AdmittedAt
  <2>6. x[2] <= now' /\ x[3] <= Cardinality(AdmittedAt(a, now)')
    BY <1>2, <1>4, <2>3, <2>4
  <2> QED BY <2>5, <2>6
<1> QED BY <1>1, <1>3, <1>4

\* What is counted of other addresses, or of other times, stays.
LEMMA Apart ==
    ASSUME IInv, NEW a \in Addresses, LetThrough(a), NEW b, NEW lo, NEW hi
    PROVE  /\ b # a => Between(b, lo, hi)' = Between(b, lo, hi)
           /\ b # a => From(b, lo)' = From(b, lo)
           /\ ~(lo <= now /\ now <= hi) => Between(b, lo, hi)' = Between(b, lo, hi)
<1>1. admitted' = admitted \cup {Entry(a)}
  BY OneMore
<1>2. Entry(a)[1] = a /\ Entry(a)[2] = now
  BY DEF Entry
<1> QED BY <1>1, <1>2 DEF Between, From

\* What the new request falls into grows by one.
LEMMA Grows ==
    ASSUME IInv, NEW a \in Addresses, LetThrough(a), NEW lo, NEW hi,
           lo <= now, now <= hi
    PROVE  Cardinality(Between(a, lo, hi)') = Cardinality(Between(a, lo, hi)) + 1
<1>1. Entry(a) \notin admitted /\ admitted' = admitted \cup {Entry(a)}
  BY OneMore
<1>2. Entry(a)[1] = a /\ Entry(a)[2] = now
  BY DEF Entry
<1>3. Between(a, lo, hi)' = Between(a, lo, hi) \cup {Entry(a)}
  BY <1>1, <1>2 DEF Between
<1>4. Entry(a) \notin Between(a, lo, hi)
  BY <1>1 DEF Between
<1>5. IsFiniteSet(Between(a, lo, hi))
  BY Finite DEF IInv
<1> QED BY <1>3, <1>4, <1>5, FS_AddElement

\* Addresses other than a keep what Windows says of them.
LEMMA OthersKept ==
    ASSUME IInv, NEW a \in Addresses, LetThrough(a), UNCHANGED now,
           NEW b \in Addresses, b # a, visitors'[b] = visitors[b]
    PROVE  (IF visitors[b] = NoVisitor THEN Forgotten(b) ELSE Present(b))'
<1>1. admitted' = admitted \cup {Entry(a)} /\ Entry(a)[1] = a
  BY OneMore DEF Entry
<1>2. IF visitors[b] = NoVisitor THEN Forgotten(b) ELSE Present(b)
  BY DEF IInv, Windows
<1>3. CASE visitors[b] = NoVisitor
  BY <1>1, <1>2, <1>3 DEF Forgotten
<1>4. CASE visitors[b] # NoVisitor
  <2> DEFINE start == visitors[b].lastReset
  <2>1. /\ From(b, start)' = From(b, start)
        /\ Between(b, start - Window, start - 1)' =
               Between(b, start - Window, start - 1)
    BY <1>1 DEF From, Between
  <2>2. Present(b)
    BY <1>2, <1>4
  <2>3. \A x \in admitted' : x[1] = b => x \in admitted
    BY <1>1
  <2>4. Present(b)'
    BY <2>1, <2>2, <2>3 DEF Present
  <2> QED BY <1>4, <2>4
<1> QED BY <1>3, <1>4

-----------------------------------------------------------------------------
(* The actions *)

\* Windows and stretches of a, once the new request is let through, make up the
\* invariant.
LEMMA LetThroughKeeps ==
    ASSUME IInv, NEW a \in Addresses, LetThrough(a), UNCHANGED now,
           \A b \in Addresses : b # a => visitors'[b] = visitors[b],
           visitors' \in [Addresses -> Visitor \cup {NoVisitor}],
           visitors'[a] # NoVisitor,
           Present(a)',
           \A t \in Nat : t <= now /\ now <= t + Window =>
               Cardinality(Between(a, t, t + Window)) + 1 <= 2 * Rate
    PROVE  IInv'
<1>1. LimiterTypeOK'
  <2>1. admitted' \subseteq Addresses \X Nat \X Nat
    BY OneMore DEF IInv, LimiterTypeOK
  <2> QED BY <2>1 DEF IInv, LimiterTypeOK
<1>2. IsFiniteSet(admitted')
  BY OneMore
<1>3. Numbered'
  BY NumberedKept
<1>4. Windows'
  <2> SUFFICES ASSUME NEW b \in Addresses
               PROVE  (IF visitors[b] = NoVisitor THEN Forgotten(b) ELSE Present(b))'
    BY DEF Windows
  <2>1. CASE b = a
    BY <2>1
  <2>2. CASE b # a
    BY <2>2, OthersKept
  <2> QED BY <2>1, <2>2
<1>5. TwoBudgets'
  <2> SUFFICES ASSUME NEW b \in Addresses, NEW t \in Nat
               PROVE  Cardinality(Between(b, t, t + Window)') <= 2 * Rate
    BY DEF TwoBudgets, Between
  <2>1. Cardinality(Between(b, t, t + Window)) <= 2 * Rate
    BY DEF IInv, TwoBudgets
  <2>2. CASE b = a /\ t <= now /\ now <= t + Window
    BY <2>2, Grows
  <2>3. CASE ~(b = a /\ t <= now /\ now <= t + Window)
    <3>1. Between(b, t, t + Window)' = Between(b, t, t + Window)
      BY <2>3, Apart
    <3> QED BY <2>1, <3>1
  <2> QED BY <2>2, <2>3
<1> QED BY <1>1, <1>2, <1>3, <1>4, <1>5 DEF IInv

\* A new window: all requests of a were before now, and those of the last window's
\* length belong to one window.
LEMMA OpenWindowKeeps ==
    ASSUME IInv, NEW a \in Addresses, OpenWindow(a)
    PROVE  IInv'
<1> USE RateAssumption, WindowAssumption, NoVisitorAssumption
<1>1. /\ now \in Nat
      /\ visitors \in [Addresses -> Visitor \cup {NoVisitor}]
      /\ admitted \subseteq Addresses \X Nat \X Nat
      /\ IsFiniteSet(admitted)
  BY DEF IInv, LimiterTypeOK
<1>2. LetThrough(a) /\ now' = now /\ NewWindow(a)
  BY DEF OpenWindow
<1>3. /\ visitors' \in [Addresses -> Visitor \cup {NoVisitor}]
      /\ visitors'[a] = [tokens |-> Rate - 1, lastReset |-> now]
      /\ \A b \in Addresses : b # a => visitors'[b] = visitors[b]
  <2>1. [tokens |-> Rate - 1, lastReset |-> now] \in Visitor
    BY <1>1 DEF Visitor
  <2> QED BY <1>1, <2>1 DEF OpenWindow
<1>4. visitors'[a] # NoVisitor
  BY <1>1, <1>3 DEF Visitor
<1>5. /\ \A x \in admitted : x[1] = a => x[2] < now
      /\ Cardinality(Between(a, now - Window, now - 1)) <= Rate
  <2>1. CASE visitors[a] = NoVisitor
    <3>1. \A x \in admitted : x[1] = a => x[2] + Window < now
      BY <2>1 DEF IInv, Windows, Forgotten
    <3>2. Between(a, now - Window, now - 1) = {}
      BY <1>1, <3>1 DEF Between
    <3> QED BY <1>1, <3>1, <3>2, FS_EmptySet
  <2>2. CASE visitors[a] # NoVisitor
    <3> DEFINE start == visitors[a].lastReset
    <3>1. Present(a)
      BY <2>2 DEF IInv, Windows
    <3>2. start \in Nat /\ visitors[a].tokens \in Nat
      BY <1>1, <2>2 DEF Visitor
    <3>3. start + Window < now
      BY <1>1, <1>2, <2>2, <3>2 DEF NewWindow, Since
    <3>4. \A x \in admitted : x[1] = a => x[2] < now
      BY <1>1, <3>1, <3>2, <3>3 DEF Present
    <3>5. Between(a, now - Window, now - 1) \subseteq From(a, start)
      BY <1>1, <3>2, <3>3 DEF Between, From
    <3>6. /\ Cardinality(From(a, start)) \in Nat
          /\ Cardinality(Between(a, now - Window, now - 1)) \in Nat
          /\ Cardinality(Between(a, now - Window, now - 1)) <= Cardinality(From(a, start))
      BY <1>1, <3>5, Part, Finite
    <3>7. Cardinality(From(a, start)) <= Rate
      BY <3>1, <3>2, <3>6 DEF Present
    <3> QED BY <3>4, <3>6, <3>7
  <2> QED BY <2>1, <2>2
<1>6. Present(a)'
  <2>1. Entry(a) \notin admitted /\ admitted' = admitted \cup {Entry(a)}
    BY <1>2, OneMore
  <2>2. Entry(a)[1] = a /\ Entry(a)[2] = now
    BY DEF Entry
  <2>3. visitors'[a].lastReset = now /\ visitors'[a].tokens = Rate - 1
    BY <1>3
  <2>4. \A x \in admitted' : x[1] = a => x[2] <= now + Window
    BY <1>1, <1>5, <2>1, <2>2
  <2>5. From(a, now)' = {Entry(a)}
    BY <1>1, <1>2, <1>5, <2>1, <2>2 DEF From
  <2>6. Cardinality(From(a, now)') = 1
    BY <2>5, FS_Singleton
  <2>7. Between(a, now - Window, now - 1)' = Between(a, now - Window, now - 1)
    BY <1>1, <1>2, <2>1, <2>2 DEF Between
  <2>8. From(a, visitors[a].lastReset)' = From(a, now)'
    BY <1>2, <2>3 DEF From
  <2>9. Between(a, visitors[a].lastReset - Window, visitors[a].lastReset - 1)' =
            Between(a, now - Window, now - 1)'
    BY <1>2, <2>3 DEF Between
  <2> QED BY <1>1, <1>2, <1>5, <2>3, <2>4, <2>6, <2>7, <2>8, <2>9 DEF Present
<1>7. ASSUME NEW t \in Nat, t <= now, now <= t + Window
      PROVE  Cardinality(Between(a, t, t + Window)) + 1 <= 2 * Rate
  <2>1. Between(a, t, t + Window) \subseteq Between(a, now - Window, now - 1)
    BY <1>1, <1>5, <1>7 DEF Between
  <2>2. /\ Cardinality(Between(a, t, t + Window)) \in Nat
        /\ Cardinality(Between(a, now - Window, now - 1)) \in Nat
        /\ Cardinality(Between(a, t, t + Window)) <=
               Cardinality(Between(a, now - Window, now - 1))
    BY <1>1, <2>1, Part, Finite
  <2> QED BY <1>5, <2>2
<1> QED BY <1>2, <1>3, <1>4, <1>6, <1>7, LetThroughKeeps

\* A token: a stretch that holds now begins no earlier than the stretch before the
\* present window, and what it holds of this window is short of the budget.
LEMMA TakeTokenKeeps ==
    ASSUME IInv, NEW a \in Addresses, TakeToken(a)
    PROVE  IInv'
<1> USE RateAssumption, WindowAssumption, NoVisitorAssumption
<1> DEFINE start == visitors[a].lastReset
<1>1. /\ now \in Nat
      /\ visitors \in [Addresses -> Visitor \cup {NoVisitor}]
      /\ admitted \subseteq Addresses \X Nat \X Nat
      /\ IsFiniteSet(admitted)
  BY DEF IInv, LimiterTypeOK
<1>2. /\ LetThrough(a) /\ now' = now
      /\ visitors[a] # NoVisitor
      /\ ~(Since(a) > Window)
      /\ visitors[a].tokens > 0
  BY Zenon DEF TakeToken, NewWindow
<1>3. visitors[a] \in Visitor /\ start \in Nat /\ visitors[a].tokens \in Nat
  BY <1>1, <1>2 DEF Visitor
<1>4. /\ visitors' \in [Addresses -> Visitor \cup {NoVisitor}]
      /\ visitors'[a] \in Visitor
      /\ visitors'[a].tokens = visitors[a].tokens - 1
      /\ visitors'[a].lastReset = start
      /\ \A b \in Addresses : b # a => visitors'[b] = visitors[b]
  <2>1. visitors' = [visitors EXCEPT ![a] = [visitors[a] EXCEPT !.tokens = @ - 1]]
    BY DEF TakeToken
  <2>2. /\ [visitors[a] EXCEPT !.tokens = @ - 1] \in Visitor
        /\ [visitors[a] EXCEPT !.tokens = @ - 1].tokens = visitors[a].tokens - 1
        /\ [visitors[a] EXCEPT !.tokens = @ - 1].lastReset = start
    BY <1>2, <1>3 DEF Visitor
  <2>3. visitors'[a] = [visitors[a] EXCEPT !.tokens = @ - 1]
    BY <1>1, <2>1
  <2> QED BY <1>1, <2>1, <2>2, <2>3
<1>5. visitors'[a] # NoVisitor
  BY <1>4
<1>6. Present(a)
  BY <1>2 DEF IInv, Windows
<1>7. start <= now /\ now <= start + Window
  BY <1>1, <1>2, <1>3, <1>6 DEF Since, Present
<1>8. /\ IsFiniteSet(From(a, start))
      /\ Cardinality(From(a, start)) \in Nat
      /\ IsFiniteSet(Between(a, start - Window, start - 1))
      /\ Cardinality(Between(a, start - Window, start - 1)) \in Nat
  BY <1>1, Finite
<1>9. /\ Cardinality(From(a, start)) + 1 <= Rate
      /\ Cardinality(Between(a, start - Window, start - 1)) <= Rate
  BY <1>2, <1>3, <1>6, <1>8 DEF Present
<1>10. Present(a)'
  <2>1. Entry(a) \notin admitted /\ admitted' = admitted \cup {Entry(a)}
    BY <1>2, OneMore
  <2>2. Entry(a)[1] = a /\ Entry(a)[2] = now
    BY DEF Entry
  <2>3. \A x \in admitted' : x[1] = a => x[2] <= start + Window
    BY <1>6, <1>7, <2>1, <2>2 DEF Present
  <2>4. From(a, start)' = From(a, start) \cup {Entry(a)}
    <3>1. From(a, start)' = {x \in admitted' : x[1] = a /\ x[2] >= start}
      BY <1>4 DEF From
    <3> QED BY <1>7, <2>1, <2>2, <3>1 DEF From
  <2>5. Cardinality(From(a, start)') = Cardinality(From(a, start)) + 1
    <3>1. Entry(a) \notin From(a, start)
      BY <2>1 DEF From
    <3> QED BY <1>8, <2>4, <3>1, FS_AddElement
  <2>6. Between(a, start - Window, start - 1)' =
            Between(a, start - Window, start - 1)
    <3>1. Between(a, start - Window, start - 1)' =
              {x \in admitted' : x[1] = a /\ start - Window <= x[2] /\ x[2] <= start - 1}
      BY <1>4 DEF Between
    <3> QED BY <1>1, <1>3, <1>7, <2>1, <2>2, <3>1 DEF Between
  <2>7. start' = start
    BY <1>4
  <2> QED
    BY <1>2, <1>3, <1>4, <1>6, <1>7, <1>8, <2>3, <2>5, <2>6, <2>7 DEF Present
<1>11. ASSUME NEW t \in Nat, t <= now, now <= t + Window
       PROVE  Cardinality(Between(a, t, t + Window)) + 1 <= 2 * Rate
  <2>1. Between(a, t, t + Window) \subseteq
            Between(a, start - Window, start - 1) \cup From(a, start)
    BY <1>1, <1>3, <1>7, <1>11 DEF Between, From
  <2>2. Cardinality(Between(a, t, t + Window)) <=
            Cardinality(Between(a, start - Window, start - 1)) +
            Cardinality(From(a, start))
    BY <1>8, <2>1, Cover
  <2>3. Cardinality(Between(a, t, t + Window)) \in Nat
    BY <1>1, Finite
  <2> QED BY <1>8, <1>9, <2>2, <2>3
<1> HIDE DEF start
<1> QED BY <1>2, <1>4, <1>5, <1>10, <1>11, LetThroughKeeps

\* Time passes: no count depends on it.
LEMMA TickKeeps ==
    ASSUME IInv, Tick
    PROVE  IInv'
<1> USE WindowAssumption
<1>1. now' = now + 1 /\ visitors' = visitors /\ admitted' = admitted
  BY DEF Tick
<1>2. now \in Nat /\ admitted \subseteq Addresses \X Nat \X Nat
  BY DEF IInv, LimiterTypeOK
<1>3. Numbered'
  BY <1>1, <1>2 DEF IInv, Numbered, AdmittedAt
<1>4. Windows'
  <2> SUFFICES ASSUME NEW a \in Addresses
               PROVE  (IF visitors[a] = NoVisitor THEN Forgotten(a) ELSE Present(a))'
    BY DEF Windows
  <2>1. CASE visitors[a] = NoVisitor
    BY <1>1, <1>2, <2>1 DEF IInv, Windows, Forgotten
  <2>2. CASE visitors[a] # NoVisitor
    <3>1. visitors[a].lastReset \in Nat
      BY <2>2 DEF IInv, LimiterTypeOK, Visitor
    <3>2. Present(a)
      BY <2>2 DEF IInv, Windows
    <3> QED BY <1>1, <1>2, <2>2, <3>1, <3>2 DEF Present, From, Between
  <2> QED BY <2>1, <2>2
<1>5. TwoBudgets'
  BY <1>1 DEF IInv, TwoBudgets, Between
<1> QED BY <1>1, <1>2, <1>3, <1>4, <1>5 DEF IInv, LimiterTypeOK

\* A visitor is forgotten a window after its window: none of its requests is younger
\* than that.
LEMMA CleanupKeeps ==
    ASSUME IInv, Cleanup
    PROVE  IInv'
<1> USE WindowAssumption
<1>1. now' = now /\ admitted' = admitted
  BY DEF Cleanup
<1>2. /\ now \in Nat
      /\ visitors \in [Addresses -> Visitor \cup {NoVisitor}]
      /\ admitted \subseteq Addresses \X Nat \X Nat
  BY DEF IInv, LimiterTypeOK
<1>3. \A a \in Addresses :
          \/ visitors'[a] = visitors[a]
          \/ /\ visitors'[a] = NoVisitor
             /\ visitors[a] # NoVisitor /\ Since(a) > 2 * Window
  BY DEF Cleanup
<1>4. LimiterTypeOK'
  BY <1>1, <1>2 DEF Cleanup, LimiterTypeOK
<1>5. Numbered' /\ TwoBudgets'
  BY <1>1 DEF IInv, Numbered, AdmittedAt, TwoBudgets, Between
<1>6. Windows'
  <2> SUFFICES ASSUME NEW a \in Addresses
               PROVE  (IF visitors[a] = NoVisitor THEN Forgotten(a) ELSE Present(a))'
    BY DEF Windows
  <2>1. CASE visitors'[a] = visitors[a]
    BY <1>1, <2>1 DEF IInv, Windows, Forgotten, Present, From, Between
  <2>2. CASE /\ visitors'[a] = NoVisitor
             /\ visitors[a] # NoVisitor /\ Since(a) > 2 * Window
    <3>1. Present(a) /\ visitors[a].lastReset \in Nat
      BY <1>2, <2>2 DEF IInv, Windows, Visitor
    <3>2. \A x \in admitted : x[1] = a => x[2] + Window < now
      BY <1>2, <2>2, <3>1 DEF Present, Since
    <3> QED BY <1>1, <2>2, <3>2 DEF Forgotten
  <2> QED BY <1>3, <2>1, <2>2
<1> QED BY <1>1, <1>4, <1>5, <1>6 DEF IInv

LEMMA InitIInv == LimiterInit => IInv
<1> SUFFICES ASSUME LimiterInit PROVE IInv
  OBVIOUS
<1> USE RateAssumption, WindowAssumption DEF LimiterInit
<1>1. LimiterTypeOK /\ Numbered
  BY DEF LimiterTypeOK, Numbered
<1>2. IsFiniteSet(admitted)
  BY FS_EmptySet
<1>3. Windows
  BY DEF Windows, Forgotten
<1>4. TwoBudgets
  <2> SUFFICES ASSUME NEW a \in Addresses, NEW t \in Nat
               PROVE  Cardinality(Between(a, t, t + Window)) <= 2 * Rate
    BY DEF TwoBudgets
  <2>1. Between(a, t, t + Window) = {}
    BY DEF Between
  <2>2. Cardinality(Between(a, t, t + Window)) = 0
    BY <2>1, FS_EmptySet
  <2> HIDE DEF LimiterInit
  <2> QED BY <2>2
<1> QED BY <1>1, <1>2, <1>3, <1>4 DEF IInv

LEMMA NextKeeps == IInv /\ [LimiterNext]_limiterVars => IInv'
<1> SUFFICES ASSUME IInv, [LimiterNext]_limiterVars
             PROVE  IInv'
  OBVIOUS
<1>1. CASE UNCHANGED limiterVars
  BY <1>1 DEF IInv, LimiterTypeOK, Numbered, AdmittedAt, Windows, Forgotten, Present, From,
              Between, TwoBudgets, limiterVars
<1>2. ASSUME NEW a \in Addresses, Refused(a)
      PROVE  IInv'
  BY <1>1, <1>2 DEF Refused
<1> QED
  BY <1>1, <1>2, TickKeeps, OpenWindowKeeps, TakeTokenKeeps, CleanupKeeps DEF LimiterNext

LEMMA Inductive == LimiterSpec => []IInv
<1> QED BY InitIInv, NextKeeps, PTL DEF LimiterSpec

-----------------------------------------------------------------------------
(* The theorems *)

\* The variables of the limiter keep their types; no token count goes below zero
\* (allow).
THEOREM LimiterTypeCorrect == LimiterSpec => []LimiterTypeOK
<1>1. IInv => LimiterTypeOK
  BY DEF IInv
<1> QED BY <1>1, Inductive, PTL

\* Tokens and requests let through make up the budget of the present window, however
\* allow and cleanup alternate.
THEOREM BudgetIsKept == LimiterSpec => []BudgetKept
<1>1. IInv => BudgetKept
  BY DEF IInv, Windows, Present, From, BudgetKept
<1> QED BY <1>1, Inductive, PTL

\* No stretch of a window's length sees more than two budgets of an address (allow
\* and cleanup).
THEOREM NoMoreThanTwoBudgets == LimiterSpec => []AtMostTwoBudgets
<1>1. IInv => AtMostTwoBudgets
  <2> SUFFICES ASSUME IInv, NEW a \in Addresses, NEW t \in 0 .. now
               PROVE  Count(a, t) <= 2 * Rate
    BY DEF AtMostTwoBudgets
  <2>1. now \in Nat /\ admitted \subseteq Addresses \X Nat \X Nat
    BY DEF IInv, LimiterTypeOK
  <2>2. {x \in admitted : x[1] = a /\ x[2] \in t .. t + Window} =
            Between(a, t, t + Window)
    BY <2>1, WindowAssumption DEF Between
  <2>3. t \in Nat
    BY <2>1
  <2> QED BY <2>2, <2>3 DEF IInv, TwoBudgets, Count
<1> QED BY <1>1, Inductive, PTL
=============================================================================
