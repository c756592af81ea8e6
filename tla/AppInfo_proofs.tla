--------------------------- MODULE AppInfo_proofs ---------------------------
(***************************************************************************)
(* Proofs about AppInfo, for any answers, however they are cut into        *)
(* packets, and any sections, in whatever order they are merged.           *)
(***************************************************************************)
EXTENDS AppInfo, WellFoundedInduction, TLAPS

----------------------------------------------------------------------------
(***************************************************************************)
(* Lists.                                                                  *)
(***************************************************************************)
LEMMA ListLen ==
  ASSUME NEW s, IsList(s)
  PROVE  Len(s) \in Nat /\ DOMAIN s = 1 .. Len(s) /\ \A k \in DOMAIN s : s[k] \in ToSet(s)
BY DEF IsList, ToSet

LEMMA ListOf ==
  ASSUME NEW S, NEW s \in Seq(S)
  PROVE  IsList(s)
<1>1. DOMAIN s = 1 .. Len(s) /\ Len(s) \in Nat /\ s = [k \in 1 .. Len(s) |-> s[k]]
  OBVIOUS
<1>2. s \in [1 .. Len(s) -> ToSet(s)]
  BY <1>1 DEF ToSet
<1> QED
  BY <1>1, <1>2 DEF IsList

LEMMA FunctionList ==
  ASSUME NEW n \in Nat, NEW S, NEW s \in [1 .. n -> S]
  PROVE  s \in Seq(S) /\ Len(s) = n
OBVIOUS

LEMMA EmptyList == IsList(<<>>) /\ ToSet(<<>>) = {} /\ Len(<<>>) = 0
BY DEF IsList, ToSet

LEMMA ListTail ==
  ASSUME NEW s, IsList(s), s # <<>>
  PROVE  /\ IsList(Tail(s)) /\ Len(Tail(s)) = Len(s) - 1
         /\ \A k \in 1 .. Len(s) - 1 : Tail(s)[k] = s[k + 1]
         /\ Head(s) = s[1] /\ Len(s) > 0
         /\ ToSet(s) = {Head(s)} \cup ToSet(Tail(s))
<1>1. /\ Tail(s) \in Seq(ToSet(s)) /\ Len(Tail(s)) = Len(s) - 1 /\ Len(s) \in Nat \ {0}
      /\ \A k \in 1 .. Len(s) - 1 : Tail(s)[k] = s[k + 1]
      /\ Head(s) = s[1] /\ DOMAIN s = 1 .. Len(s)
  BY DEF IsList
<1>2. DOMAIN Tail(s) = 1 .. Len(s) - 1
  BY <1>1
<1>3. IsList(Tail(s))
  BY <1>1, ListOf
<1>4. ToSet(s) = {Head(s)} \cup ToSet(Tail(s))
  <2>1. ASSUME NEW k \in 1 .. Len(s) PROVE s[k] = Head(s) \/ s[k] \in ToSet(Tail(s))
    <3>1. CASE k = 1
      BY <1>1, <3>1
    <3>2. CASE k # 1
      <4>1. k - 1 \in 1 .. Len(s) - 1 /\ s[k] = Tail(s)[k - 1]
        BY <1>1, <3>2
      <4> QED BY <1>2, <4>1 DEF ToSet
    <3> QED BY <3>1, <3>2
  <2>2. Head(s) \in ToSet(s)
    BY <1>1 DEF ToSet
  <2>3. ToSet(Tail(s)) \subseteq ToSet(s)
    BY <1>1, <1>2 DEF ToSet
  <2>4. ToSet(s) \subseteq {Head(s)} \cup ToSet(Tail(s))
    BY <1>1, <2>1 DEF ToSet
  <2> QED BY <2>2, <2>3, <2>4
<1> QED
  BY <1>1, <1>3, <1>4

LEMMA ListAppend ==
  ASSUME NEW s, IsList(s), NEW x
  PROVE  /\ IsList(Append(s, x)) /\ Append(s, x) # <<>>
         /\ Len(Append(s, x)) = Len(s) + 1 /\ Append(s, x)[Len(s) + 1] = x
         /\ \A k \in DOMAIN s : Append(s, x)[k] = s[k]
         /\ ToSet(Append(s, x)) = ToSet(s) \cup {x}
<1> DEFINE t == Append(s, x)
<1>1. s \in Seq(ToSet(s) \cup {x}) /\ DOMAIN s = 1 .. Len(s) /\ Len(s) \in Nat
  BY ListLen DEF IsList, ToSet
<1>2. /\ t \in Seq(ToSet(s) \cup {x}) /\ Len(t) = Len(s) + 1 /\ t[Len(s) + 1] = x
      /\ \A k \in DOMAIN s : t[k] = s[k]
  BY <1>1
<1>3. DOMAIN t = 1 .. Len(s) + 1
  BY <1>1, <1>2
<1> HIDE DEF t
<1>4. ToSet(t) = ToSet(s) \cup {x}
  <2>1. ToSet(t) \subseteq ToSet(s) \cup {x}
    BY <1>2, <1>3 DEF ToSet
  <2>2. ASSUME NEW k \in DOMAIN s PROVE s[k] \in ToSet(t)
    BY <1>1, <1>2, <1>3, <2>2 DEF ToSet
  <2>3. x \in ToSet(t)
    BY <1>1, <1>2, <1>3 DEF ToSet
  <2> QED BY <2>1, <2>2, <2>3 DEF ToSet
<1>5. t # <<>>
  BY <1>1, <1>2
<1> QED
  BY <1>2, <1>4, <1>5 DEF t, IsList

\* Sorting neither drops nor adds anything.
LEMMA ByIdSame ==
  ASSUME NEW s, IsList(s), NEW t \in ById(s)
  PROVE  /\ IsList(t) /\ Len(t) = Len(s) /\ ToSet(t) = ToSet(s) /\ DOMAIN t = DOMAIN s
         /\ \A j, k \in DOMAIN t : j < k => t[j].id <= t[k].id
         /\ \E p \in Bijection(DOMAIN s, DOMAIN s) : \A k \in DOMAIN s : t[k] = s[p[k]]
<1>1. PICK p \in Bijection(DOMAIN s, DOMAIN s) :
        /\ \A j, k \in DOMAIN s : j < k => s[p[j]].id <= s[p[k]].id
        /\ t = [k \in DOMAIN s |-> s[p[k]]]
  BY DEF ById
<1>2. /\ p \in [DOMAIN s -> DOMAIN s]
      /\ \A k \in DOMAIN s : \E j \in DOMAIN s : p[j] = k
  BY DEF Bijection, Surjection, Injection
<1>3. DOMAIN t = DOMAIN s /\ \A k \in DOMAIN s : t[k] = s[p[k]]
  BY <1>1
<1>4. ToSet(t) = ToSet(s)
  <2>1. ToSet(t) \subseteq ToSet(s)
    BY <1>2, <1>3 DEF ToSet
  <2>2. ASSUME NEW k \in DOMAIN s PROVE s[k] \in ToSet(t)
    BY <1>2, <1>3 DEF ToSet
  <2> QED BY <2>1, <2>2 DEF ToSet
<1>5. t \in [1 .. Len(s) -> ToSet(s)] /\ Len(s) \in Nat
  BY <1>1, <1>2, ListLen
<1>6. t \in Seq(ToSet(s)) /\ Len(t) = Len(s)
  BY <1>5
<1> QED
  BY <1>1, <1>3, <1>4, <1>6 DEF IsList

LEMMA AppsOfSame ==
  ASSUME NEW s, NEW t, ToSet(s) = ToSet(t)
  PROVE  AppsOf(s) = AppsOf(t)
<1>1. ASSUME NEW x, NEW y, ToSet(x) = ToSet(y) PROVE AppsOf(x) \subseteq AppsOf(y)
  <2>1. ASSUME NEW k \in DOMAIN x, Counts(x[k])
        PROVE  \E j \in DOMAIN y : Counts(y[j]) /\ y[j] = x[k]
    BY <1>1, <2>1 DEF ToSet
  <2> QED BY <2>1 DEF AppsOf
<1> QED
  BY <1>1

----------------------------------------------------------------------------
(***************************************************************************)
(* The inductive invariant: what the handlers have kept of the items they  *)
(* have seen.                                                              *)
(***************************************************************************)
\* The items of the answer that were handled.
Seen == 1 .. Len(sent) - Len(due)

Cut ==
  /\ IsList(sent) /\ IsList(due) /\ IsList(got) /\ ToSet(got) \subseteq ToSet(sent)
  /\ Len(due) <= Len(sent)
  /\ \A k \in 1 .. Len(due) : due[k] = sent[Len(sent) - Len(due) + k]

Stages ==
  /\ command \in {"app", "apps"} /\ all \in BOOLEAN
  /\ stage \in IF command = "app"
               THEN {"token", "info", "body", "merge", "app", "failed", "refused"}
               ELSE {"licenses", "packages", "tokens", "names", "listed", "failed", "refused"}
  /\ unlocked \subseteq DOMAIN Private
  /\ stage \notin {"merge", "app"} => app = NoApp /\ unlocked = {}
  /\ IF stage = "merge" THEN IsList(section) /\ ToSet(section) \subseteq Entries
                        ELSE section = <<>>

\* The last item on the app that is wanted, and none that says it is unknown.
InfoKept ==
  stage \in {"info", "body", "merge", "app"} =>
    /\ sent \in AppAnswers
    /\ \A k \in Seen : sent[k].id = Wanted => sent[k].body # "unknown"
    /\ \/ got = <<>> /\ \A k \in Seen : sent[k].id # Wanted
       \/ /\ got # <<>>
          /\ \E m \in Seen : /\ sent[m].id = Wanted /\ Info = sent[m]
                             /\ \A k \in Seen : sent[k].id = Wanted => k <= m
    /\ stage # "info" => got # <<>> /\ due = <<>>

\* Every package, as it came.
PackagesKept ==
  /\ stage \in {"licenses", "packages"} => packages = <<>>
  /\ stage = "packages" =>
       /\ Len(got) = Len(sent) - Len(due)
       /\ \A k \in Seen : got[k] = sent[k] /\ sent[k].body \notin {"short", "garbled"}

\* The last name of each app.
NamesKept ==
  /\ stage \notin {"names", "listed", "failed"} => names = <<>>
  /\ stage = "names" => LastNames(names, sent, Seen)
  /\ DOMAIN names \subseteq {item.id : item \in ToSet(sent)}

Kept == Cut /\ Stages /\ InfoKept /\ PackagesKept /\ NamesKept /\ AnswerWhole

----------------------------------------------------------------------------
LEMMA SeenLen ==
  ASSUME Cut
  PROVE  /\ Len(sent) \in Nat /\ Len(due) \in Nat /\ Len(sent) - Len(due) \in Nat
         /\ DOMAIN sent = 1 .. Len(sent) /\ Seen \subseteq DOMAIN sent
         /\ due = <<>> => Seen = DOMAIN sent
<1>1. /\ Len(sent) \in Nat /\ Len(due) \in Nat /\ Len(due) <= Len(sent)
      /\ DOMAIN sent = 1 .. Len(sent)
  BY ListLen DEF Cut
<1>2. due = <<>> => Len(due) = 0
  BY EmptyList
<1>3. Len(sent) - Len(due) \in Nat /\ Seen \subseteq 1 .. Len(sent)
  BY <1>1 DEF Seen
<1>4. Len(due) = 0 => Seen = 1 .. Len(sent)
  BY <1>1 DEF Seen
<1> QED
  BY <1>1, <1>2, <1>3, <1>4

\* A turn of the handler's loop has seen one more item.
LEMMA OneMore ==
  ASSUME Cut, due # <<>>, due' = Tail(due), sent' = sent
  PROVE  LET n == Len(sent) - Len(due) + 1
         IN  /\ n \in DOMAIN sent /\ Head(due) = sent[n] /\ n \in Nat
             /\ IsList(due') /\ Len(due') <= Len(sent)
             /\ \A k \in 1 .. Len(due') : due'[k] = sent[Len(sent) - Len(due') + k]
             /\ Seen' = Seen \cup {n} /\ \A k \in Seen : k < n
             /\ Len(sent) - Len(due') = n
<1> DEFINE n == Len(sent) - Len(due) + 1
<1>1. /\ Len(sent) \in Nat /\ Len(due) \in Nat /\ Len(due) <= Len(sent) /\ Len(due) > 0
      /\ DOMAIN sent = 1 .. Len(sent)
      /\ IsList(due') /\ Len(due') = Len(due) - 1 /\ Head(due) = due[1]
      /\ \A k \in 1 .. Len(due) - 1 : due'[k] = due[k + 1]
  BY ListLen, ListTail DEF Cut
<1>2. n \in Nat /\ n \in DOMAIN sent /\ Head(due) = sent[n]
  BY <1>1 DEF Cut
<1>3. Seen' = Seen \cup {n} /\ \A k \in Seen : k < n
  BY <1>1 DEF Seen
<1>4. ASSUME NEW k \in 1 .. Len(due') PROVE due'[k] = sent[Len(sent) - Len(due') + k]
  <2>1. due'[k] = due[k + 1] /\ k + 1 \in 1 .. Len(due)
    BY <1>1
  <2>2. due[k + 1] = sent[Len(sent) - Len(due) + (k + 1)]
    BY <2>1 DEF Cut
  <2>3. Len(sent) - Len(due) + (k + 1) = Len(sent) - Len(due') + k
    BY <1>1
  <2> QED BY <2>1, <2>2, <2>3
<1> QED
  BY <1>1, <1>2, <1>3, <1>4

LEMMA KeptInit == AppInit => Kept
<1> SUFFICES ASSUME AppInit PROVE Kept
  OBVIOUS
<1>1. Cut
  BY EmptyList DEF AppInit, Cut
<1>2. Stages
  BY DEF AppInit, Stages
<1> QED
  BY <1>1, <1>2 DEF AppInit, Kept, InfoKept, PackagesKept, NamesKept, AnswerWhole

\* A request is sent: its answer is still to come.
LEMMA AskForKept ==
  ASSUME NEW answer \in AppAnswers \cup PackageAnswers \cup NameAnswers,
         sent' = answer, due' = answer, got' = <<>>
  PROVE  Cut' /\ Seen' = {} /\ ToSet(got') = {}
<1>1. IsList(answer)
  BY AnswersAssumption DEF AnswersAssumption
<1>2. Len(answer) \in Nat /\ Len(answer) - Len(answer) = 0
  BY <1>1, ListLen
<1>3. Cut'
  BY <1>1, <1>2, EmptyList DEF Cut
<1>4. Seen' = {}
  BY <1>2 DEF Seen
<1> QED
  BY <1>3, <1>4, EmptyList

----------------------------------------------------------------------------
LEMMA ItemKept ==
  ASSUME Kept, Item
  PROVE  Kept'
<1> DEFINE n == Len(sent) - Len(due) + 1
<1>1. /\ n \in DOMAIN sent /\ Head(due) = sent[n] /\ n \in Nat /\ Seen' = Seen \cup {n}
      /\ \A k \in Seen : k < n
      /\ IsList(due') /\ Len(due') <= Len(sent) /\ Len(sent) - Len(due') = n
      /\ \A k \in 1 .. Len(due') : due'[k] = sent[Len(sent) - Len(due') + k]
  BY OneMore DEF Item, Kept
<1>2. /\ stage \in {"info", "packages", "names"} /\ stage' \in {stage, "refused"}
      /\ UNCHANGED <<command, sent, packages, all, app, section, unlocked>>
  BY DEF Item, Answered, Merged
<1>3. /\ Len(sent) - Len(due) \in Nat /\ Seen \subseteq DOMAIN sent /\ DOMAIN sent = 1 .. Len(sent)
      /\ Seen = 1 .. n - 1
  <2>1. Len(sent) \in Nat /\ Len(due) \in Nat
    BY SeenLen DEF Kept
  <2>2. n - 1 = Len(sent) - Len(due)
    BY <2>1
  <2>3. Seen = 1 .. n - 1
    BY <2>2 DEF Seen
  <2> QED BY <2>3, SeenLen DEF Kept
<1>4. /\ IsList(got') /\ ToSet(got') \subseteq ToSet(sent)
      /\ \/ stage' = "refused" /\ got' = got /\ Fatal(sent[n])
         \/ /\ stage' = stage /\ ~Fatal(sent[n]) /\ ~Keeps(sent[n]) /\ got' = got
         \/ stage' = stage /\ stage = "names" /\ got' = got
         \/ /\ stage' = stage /\ ~Fatal(sent[n]) /\ Keeps(sent[n])
            /\ got' = Append(got, sent[n]) /\ got' # <<>> /\ Len(got') = Len(got) + 1
            /\ Last(got') = sent[n] /\ \A k \in DOMAIN got : got'[k] = got[k]
            /\ ToSet(got') = ToSet(got) \cup {sent[n]}
  <2>1. IsList(got) /\ ToSet(got) \subseteq ToSet(sent) /\ sent[n] \in ToSet(sent)
    BY <1>1, ListLen DEF Kept, Cut
  <2>2. CASE Fatal(Head(due))
    BY <1>1, <2>1, <2>2 DEF Item
  <2>3. CASE ~Fatal(Head(due)) /\ ~Keeps(Head(due))
    BY <1>1, <2>1, <2>3 DEF Item
  <2>4. CASE ~Fatal(Head(due)) /\ stage = "names"
    BY <1>1, <2>1, <2>4 DEF Item, Keep
  <2>5. CASE ~Fatal(Head(due)) /\ Keeps(Head(due)) /\ stage # "names"
    <3>1. got' = Append(got, sent[n]) /\ stage' = stage
      BY <1>1, <2>5 DEF Item, Keep
    <3>2. /\ IsList(got') /\ got' # <<>> /\ Len(got') = Len(got) + 1
          /\ got'[Len(got) + 1] = sent[n] /\ \A k \in DOMAIN got : got'[k] = got[k]
          /\ ToSet(got') = ToSet(got) \cup {sent[n]}
      BY <2>1, <3>1, ListAppend
    <3> QED BY <1>1, <2>1, <2>5, <3>1, <3>2 DEF Last
  <2> QED BY <2>2, <2>3, <2>4, <2>5
<1>11. /\ stage # "names" => names' = names
       /\ stage = "names" => names' = IF sent[n].body = "inline" THEN Named(sent[n]) ELSE names
  BY <1>1 DEF Item, Keep, Keeps, Fatal
<1> HIDE DEF n
<1>5. Cut'
  BY <1>1, <1>2, <1>4 DEF Kept, Cut
<1>6. Stages'
  BY <1>2 DEF Kept, Stages
<1>7. InfoKept'
  <2> SUFFICES ASSUME stage' = "info" PROVE InfoKept'
    BY <1>2 DEF InfoKept
  <2>1. stage = "info" /\ sent' = sent /\ InfoKept
    BY <1>2 DEF Kept
  <2>2. ~(sent[n].id = Wanted /\ sent[n].body = "unknown")
    BY <1>4, <2>1 DEF Fatal
  <2>3. /\ sent \in AppAnswers
        /\ \A k \in Seen' : sent[k].id = Wanted => sent[k].body # "unknown"
    BY <1>1, <2>1, <2>2 DEF InfoKept
  <2>4. CASE Keeps(sent[n])
    <3>1. sent[n].id = Wanted
      BY <2>1, <2>4 DEF Keeps
    <3>2. got' # <<>> /\ Last(got') = sent[n]
      BY <1>4, <2>1, <2>4
    <3>3. n \in Seen' /\ \A k \in Seen' : k <= n
      BY <1>1, <1>3
    <3> QED BY <2>1, <2>3, <3>1, <3>2, <3>3 DEF InfoKept, Info
  <2>5. CASE ~Keeps(sent[n])
    <3>1. sent[n].id # Wanted
      BY <2>1, <2>2, <2>5 DEF Keeps
    <3>2. got' = got
      BY <1>4, <2>5
    <3> QED BY <1>1, <2>1, <2>3, <3>1, <3>2 DEF InfoKept, Info
  <2> QED BY <2>4, <2>5
<1>8. PackagesKept'
  <2>1. packages' = packages /\ (stage' = "packages" => stage = "packages")
    BY <1>2
  <2> SUFFICES ASSUME stage' = "packages", stage = "packages"
               PROVE  /\ Len(got') = Len(sent') - Len(due')
                      /\ \A k \in Seen' :
                           got'[k] = sent'[k] /\ sent'[k].body \notin {"short", "garbled"}
    BY <1>2, <2>1 DEF Kept, PackagesKept
  <2>2. /\ got' = Append(got, sent[n]) /\ Len(got') = Len(got) + 1
        /\ Last(got') = sent[n] /\ \A k \in DOMAIN got : got'[k] = got[k]
        /\ sent[n].body \notin {"short", "garbled"}
    BY <1>4 DEF Keeps, Fatal
  <2>3. /\ Len(got) = n - 1 /\ DOMAIN got = Seen
        /\ \A k \in Seen : got[k] = sent[k] /\ sent[k].body \notin {"short", "garbled"}
    <3>1. Len(got) = Len(sent) - Len(due) /\ DOMAIN got = 1 .. Len(got)
      BY ListLen DEF Kept, PackagesKept, Cut
    <3> QED BY <1>1, <1>3, <3>1, SeenLen DEF Kept, PackagesKept, n
  <2>4. got'[n] = sent[n] /\ Len(got') = n
    BY <1>1, <2>2, <2>3 DEF Last
  <2> QED BY <1>1, <1>2, <2>2, <2>3, <2>4
<1>9. NamesKept'
  <2>1. CASE stage # "names"
    BY <1>2, <1>11, <2>1 DEF Kept, NamesKept
  <2>2. CASE stage = "names"
    <3> DEFINE said == {k \in Seen : sent[k].body = "inline"}
               said1 == {k \in Seen' : sent[k].body = "inline"}
    <3>1. /\ DOMAIN names = {sent[k].id : k \in said} /\ sent' = sent
          /\ \A k \in said : (\A j \in said : sent[j].id = sent[k].id => j <= k) =>
                               names[sent[k].id] = sent[k].mark
      BY <1>2, <2>2 DEF Kept, NamesKept, LastNames
    <3>2. said \subseteq Nat /\ \A k \in said : k < n
      BY <1>1, <1>3
    <3>3. ASSUME sent[n].body = "inline" PROVE LastNames(names', sent, Seen')
      <4>1. said1 = said \cup {n} /\ names' = Named(sent[n])
        BY <1>1, <1>11, <2>2, <3>3
      <4>2. /\ DOMAIN names' = {sent[k].id : k \in said1}
            /\ names'[sent[n].id] = sent[n].mark
            /\ \A id \in DOMAIN names : id # sent[n].id => names'[id] = names[id]
        BY <3>1, <4>1 DEF Named
      <4>3. ASSUME NEW k \in said1, \A j \in said1 : sent[j].id = sent[k].id => j <= k
            PROVE  names'[sent[k].id] = sent[k].mark
        <5>1. CASE sent[k].id = sent[n].id
          <6>1. n <= k /\ (k = n \/ k < n) /\ k \in Nat
            BY <1>1, <3>2, <4>1, <4>3, <5>1
          <6>2. k = n
            BY <1>1, <6>1
          <6> QED BY <4>2, <6>2
        <5>2. CASE sent[k].id # sent[n].id
          <6>1. k \in said /\ sent[k].id \in DOMAIN names
            BY <3>1, <4>1, <5>2
          <6>2. names[sent[k].id] = sent[k].mark
            BY <3>1, <4>1, <4>3, <6>1
          <6> QED BY <4>2, <5>2, <6>1, <6>2
        <5> QED BY <5>1, <5>2
      <4> QED BY <3>1, <4>2, <4>3 DEF LastNames
    <3>4. ASSUME sent[n].body # "inline" PROVE LastNames(names', sent, Seen')
      <4>1. said1 = said /\ names' = names
        BY <1>1, <1>11, <2>2, <3>4
      <4> QED BY <3>1, <4>1 DEF LastNames
    <3>5. LastNames(names', sent', Seen')
      BY <3>1, <3>3, <3>4
    <3>6. DOMAIN names' \subseteq {item.id : item \in ToSet(sent')}
      <4>1. sent[n] \in ToSet(sent)
        BY <1>1 DEF ToSet
      <4> QED BY <1>11, <2>2, <3>1, <4>1 DEF Kept, NamesKept, Named, LastNames
    <3>7. stage' \in {"names", "refused"} /\ (stage' = "refused" => Fatal(sent[n]))
      BY <1>2, <1>4, <2>2
    <3>8. stage' = "names"
      BY <2>2, <3>7 DEF Fatal
    <3> QED BY <3>5, <3>6, <3>8 DEF NamesKept
  <2> QED BY <2>1, <2>2
<1>10. AnswerWhole'
  <2> SUFFICES ASSUME stage' = "refused" PROVE AnswerWhole'
    BY <1>2 DEF AnswerWhole
  <2>1. Fatal(sent[n]) /\ sent' = sent /\ command' = command
    BY <1>2, <1>4
  <2>2. CASE stage = "info"
    <3>1. command = "app"
      BY <2>2 DEF Kept, Stages
    <3>2. sent[n].id = Wanted /\ sent[n].body = "unknown"
      BY <2>1, <2>2 DEF Fatal
    <3> QED BY <1>1, <2>1, <3>1, <3>2 DEF AnswerWhole
  <2>3. CASE stage = "packages"
    <3>1. command = "apps"
      BY <2>3 DEF Kept, Stages
    <3> QED BY <1>1, <2>1, <2>3, <3>1 DEF Fatal, AnswerWhole
  <2>4. CASE stage = "names"
    BY <2>1, <2>4 DEF Fatal
  <2> QED BY <1>2, <2>2, <2>3, <2>4
<1> QED
  BY <1>5, <1>6, <1>7, <1>8, <1>9, <1>10 DEF Kept

\* The info that Fetch goes on with is the last one on the app.
LEMMA InfoIsLast ==
  ASSUME Cut, InfoKept, stage \in {"info", "body", "merge", "app"}, due = <<>>, got # <<>>
  PROVE  LET Wants == {k \in DOMAIN sent : sent[k].id = Wanted}
         IN  /\ Info = sent[Max(Wants)] /\ \A k \in Wants : sent[k].body # "unknown"
             /\ Info \in ToSet(sent) /\ Info.id = Wanted
<1> DEFINE Wants == {k \in DOMAIN sent : sent[k].id = Wanted}
<1>1. Seen = DOMAIN sent /\ DOMAIN sent = 1 .. Len(sent) /\ Len(sent) \in Nat
  BY SeenLen
<1>2. PICK m \in Seen : /\ sent[m].id = Wanted /\ Info = sent[m]
                        /\ \A k \in Seen : sent[k].id = Wanted => k <= m
  BY DEF InfoKept
<1>3. m \in Wants /\ m \in Nat /\ Wants \subseteq Nat /\ \A k \in Wants : m >= k
  BY <1>1, <1>2
<1>4. \A x \in Wants : (\A k \in Wants : x >= k) => x = m
  BY <1>3
<1>5. Max(Wants) = m
  BY <1>3, <1>4 DEF Max
<1>6. \A k \in Wants : sent[k].body # "unknown"
  BY <1>1 DEF InfoKept
<1>7. Info \in ToSet(sent)
  BY <1>1, <1>2 DEF ToSet
<1> QED
  BY <1>2, <1>5, <1>6, <1>7

LEMMA PacketEndsKept ==
  ASSUME Kept, NEW pending \in BOOLEAN, PacketEnds(pending)
  PROVE  Kept'
<1>1. /\ Answered /\ UNCHANGED <<command, due, sent, got, names, all, app, section, unlocked>>
      /\ stage \in {"info", "packages", "names"}
  BY DEF PacketEnds, Answered, Merged
<1>2. Cut' /\ Seen' = Seen
  BY <1>1 DEF Kept, Cut, Seen
<1>3. CASE pending
  <2>1. UNCHANGED <<stage, packages>>
    BY <1>3 DEF PacketEnds, IsLast
  <2> QED BY <1>1, <1>2, <2>1
      DEF Kept, Stages, Entries, InfoKept, PackagesKept, NamesKept, AnswerWhole, Seen, Info,
          AppsOf, Counts
<1>4. CASE ~pending
  <2>1. Used /\ due = <<>>
    BY <1>4 DEF PacketEnds, IsLast
  <2>2. Seen = DOMAIN sent /\ DOMAIN sent = 1 .. Len(sent) /\ Len(sent) \in Nat /\ Len(due) = 0
    BY <2>1, SeenLen, EmptyList DEF Kept
  <2>3. CASE stage = "info"
    <3>1. command = "app" /\ packages' = packages
      BY <2>1, <2>3 DEF Used, Kept, Stages
    <3>2. CASE got = <<>>
      <4>1. stage' = "failed"
        BY <2>1, <2>3, <3>2 DEF Used
      <4> QED BY <1>1, <1>2, <3>1, <4>1, <2>3
          DEF Kept, Stages, InfoKept, PackagesKept, NamesKept, AnswerWhole
    <3>3. CASE got # <<>>
      <4>1. stage' = "body"
        BY <2>1, <2>3, <3>3 DEF Used
      <4>2. InfoKept'
        BY <1>1, <1>2, <2>1, <2>3, <3>3, <4>1 DEF Kept, InfoKept, Info, Seen
      <4>3. AnswerWhole'
        <5>1. LET Wants == {k \in DOMAIN sent : sent[k].id = Wanted}
              IN  Info = sent[Max(Wants)] /\ \A k \in Wants : sent[k].body # "unknown"
          BY <2>1, <2>3, <3>3, InfoIsLast DEF Kept
        <5>2. sent' = sent /\ Info' = Info
          BY <1>1 DEF Info
        <5> QED BY <4>1, <5>1, <5>2 DEF AnswerWhole
      <4> QED BY <1>1, <1>2, <2>3, <3>1, <4>1, <4>2, <4>3
          DEF Kept, Stages, PackagesKept, NamesKept
    <3> QED BY <3>2, <3>3
  <2>4. CASE stage = "packages"
    <3>1. /\ command = "apps" /\ packages' \in ById(got)
          /\ stage' = IF AppsOf(got) = {} THEN "listed" ELSE "tokens"
      BY <2>1, <2>4 DEF Used, Kept, Stages
    <3>2. IsList(got) /\ Len(got) = Len(sent) /\ \A k \in DOMAIN sent : got[k] = sent[k]
      BY <2>2, <2>4 DEF Kept, Cut, PackagesKept
    <3>3. \A k \in DOMAIN sent : sent[k].body \notin {"short", "garbled"}
      BY <2>2, <2>4 DEF Kept, PackagesKept
    <3>4. ToSet(got) = ToSet(sent)
      <4>1. DOMAIN got = DOMAIN sent
        BY <2>2, <3>2, ListLen
      <4> QED BY <3>2, <4>1 DEF ToSet
    <3>5. /\ ToSet(packages') = ToSet(sent) /\ Len(packages') = Len(sent)
          /\ \A j, k \in DOMAIN packages' : j < k => packages'[j].id <= packages'[k].id
          /\ ToSet(packages') = ToSet(got)
      BY <3>1, <3>2, <3>4, ByIdSame
    <3>6. AppsOf(packages)' = AppsOf(got)
      <4>1. AppsOf(packages') = AppsOf(got)
        BY <3>5, AppsOfSame
      <4>2. AppsOf(packages)' = AppsOf(packages')
        BY <1>1 DEF AppsOf, Counts
      <4> QED BY <4>1, <4>2
    <3>7. AnswerWhole'
      <4>1. CASE stage' = "listed"
        BY <3>1, <3>6, <4>1 DEF AnswerWhole
      <4>2. CASE stage' = "tokens"
        BY <1>1, <3>3, <3>5, <4>2 DEF AnswerWhole
      <4> QED BY <3>1, <4>1, <4>2
    <3> QED BY <1>1, <1>2, <2>4, <3>1, <3>7
        DEF Kept, Stages, InfoKept, PackagesKept, NamesKept
  <2>5. CASE stage = "names"
    <3>1. command = "apps" /\ stage' = "listed" /\ packages' = packages
      BY <2>1, <2>5 DEF Used, Kept, Stages
    <3>2. LastNames(names, sent, DOMAIN sent)
      BY <2>2, <2>5 DEF Kept, NamesKept
    <3>3. AnswerWhole'
      BY <1>1, <3>1, <3>2 DEF AnswerWhole
    <3> QED BY <1>1, <1>2, <2>5, <3>1, <3>3
        DEF Kept, Stages, InfoKept, PackagesKept, NamesKept
  <2> QED BY <1>1, <2>3, <2>4, <2>5
<1> QED
  BY <1>3, <1>4

\* Once the answer is there, nothing is asked for an app any more.
LEMMA WithBody ==
  ASSUME Kept, stage \in {"body", "merge", "app"},
         stage' \in {"body", "merge", "app", "failed"},
         UNCHANGED <<command, due, sent, got, packages, names, all>>
  PROVE  Cut' /\ InfoKept' /\ PackagesKept' /\ NamesKept' /\ AnswerWhole'
<1>1. Cut' /\ Seen' = Seen /\ Info' = Info
  BY DEF Kept, Cut, Seen, Info
<1>2. InfoKept'
  BY <1>1 DEF Kept, InfoKept
<1>3. AnswerWhole'
  BY <1>1 DEF Kept, AnswerWhole
<1>4. NamesKept'
  <2>1. names = <<>> /\ names' = names /\ sent' = sent /\ stage' # "names"
    BY DEF Kept, NamesKept
  <2>2. DOMAIN names' \subseteq {item.id : item \in ToSet(sent')}
    BY <2>1
  <2> QED BY <2>1, <2>2 DEF NamesKept
<1> QED
  BY <1>1, <1>2, <1>3, <1>4 DEF PackagesKept

LEMMA KeptNext ==
  ASSUME Kept, AppNext
  PROVE  Kept'
<1>1. ASSUME EndAs("failed"), UNCHANGED <<command, packages, names, all, Merged>>,
             stage \notin {"merge", "app"}
      PROVE  Kept'
  BY <1>1 DEF EndAs, Merged, Kept, Cut, Stages, InfoKept, PackagesKept, NamesKept, AnswerWhole
<1>2. CASE TokenAnswered
  <2>1. ASSUME NEW answer \in AppAnswers, AskFor("info", answer) PROVE Kept'
    <3>1. Cut' /\ Seen' = {} /\ sent' = answer /\ got' = <<>> /\ stage' = "info"
      BY <2>1, AskForKept DEF AskFor
    <3>2. /\ stage = "token" /\ UNCHANGED <<command, packages, names, all, app, section, unlocked>>
          /\ command = "app"
      BY <1>2 DEF TokenAnswered, Merged, Kept, Stages
    <3> QED BY <3>1, <3>2
        DEF Kept, Stages, InfoKept, PackagesKept, NamesKept, AnswerWhole
  <2> QED BY <1>1, <1>2, <2>1 DEF TokenAnswered
<1>3. CASE LicensesPushed
  <2>1. /\ stage = "licenses" /\ UNCHANGED <<command, packages, names, all, app, section, unlocked>>
        /\ packages = <<>> /\ command = "apps"
    BY <1>3 DEF LicensesPushed, Merged, Kept, PackagesKept, Stages
  <2>2. CASE EndAs("listed")
    <3>1. Cut' /\ stage' = "listed"
      BY <2>1, <2>2 DEF EndAs, Kept, Cut
    <3>2. AppsOf(packages') = {}
      BY <2>1 DEF AppsOf
    <3>3. AppsOf(packages)' = AppsOf(packages')
      BY <2>1 DEF AppsOf, Counts
    <3> QED BY <2>1, <3>1, <3>2, <3>3
        DEF Kept, Stages, InfoKept, PackagesKept, NamesKept, AnswerWhole
  <2>3. ASSUME NEW answer \in PackageAnswers, AskFor("packages", answer) PROVE Kept'
    <3>1. Cut' /\ Seen' = {} /\ sent' = answer /\ due' = answer /\ got' = <<>>
          /\ stage' = "packages"
      BY <2>3, AskForKept DEF AskFor
    <3>2. Len(got') = Len(sent') - Len(due')
      <4>1. Len(answer) \in Nat
        BY <3>1, ListLen DEF Cut
      <4> QED BY <3>1, <4>1
    <3> QED BY <2>1, <3>1, <3>2
        DEF Kept, Stages, InfoKept, PackagesKept, NamesKept, AnswerWhole
  <2> QED BY <1>3, <2>2, <2>3 DEF LicensesPushed
<1>4. CASE TokensAnswered
  <2>1. PICK answer \in NameAnswers : AskFor("names", answer)
    BY <1>4 DEF TokensAnswered
  <2>2. Cut' /\ Seen' = {} /\ ToSet(got') = {} /\ stage' = "names"
    BY <2>1, AskForKept DEF AskFor
  <2>3. /\ stage = "tokens" /\ UNCHANGED <<command, packages, names, all, app, section, unlocked>>
        /\ command = "apps"
    BY <1>4 DEF TokensAnswered, Merged, Kept, Stages
  <2>4. NamesKept'
    <3>1. names = <<>> /\ DOMAIN names = {}
      BY <2>3 DEF Kept, NamesKept
    <3>2. LastNames(names', sent', {}) /\ DOMAIN names' = {}
      BY <2>3, <3>1 DEF LastNames
    <3>3. LastNames(names', sent', Seen')
      BY <2>2, <3>2
    <3> QED BY <2>2, <3>2, <3>3 DEF NamesKept
  <2> QED BY <2>2, <2>3, <2>4
      DEF Kept, Stages, InfoKept, PackagesKept, AnswerWhole
<1>5. CASE RequestBreaks
  BY <1>1, <1>5 DEF RequestBreaks, Answered
<1>6. CASE Item
  BY <1>6, ItemKept
<1>7. ASSUME NEW pending \in BOOLEAN, PacketEnds(pending) PROVE Kept'
  BY <1>7, PacketEndsKept
<1>8. ASSUME stage = "body", NotParsed, UNCHANGED <<command, packages, names, all, unlocked>>
      PROVE  Kept'
  BY <1>1, <1>8 DEF NotParsed, EndAs, Merged
<1>9. ASSUME stage = "body", NEW mark \in DOMAIN Public, mark = Info.mark, Parsed(mark),
             UNCHANGED <<command, packages, names, all, unlocked>>
      PROVE  Kept'
  <2>1. /\ stage' = "merge" /\ section' = Public[mark] /\ command = "app" /\ unlocked = {}
        /\ UNCHANGED <<due, sent, got>>
    BY <1>9 DEF Parsed, EndAs, Kept, Stages
  <2>2. IsList(Public[mark])
    BY SectionsAssumption DEF SectionsAssumption
  <2>3. ToSet(section') \subseteq Entries'
    <3>1. Entries' = ToSet(Public[Info.mark]) \cup UNION {ToSet(Private[b]) : b \in {}}
      BY <1>9, <2>1 DEF Entries, Info
    <3> QED BY <1>9, <2>1, <3>1
  <2>4. Stages'
    BY <1>9, <2>1, <2>2, <2>3 DEF Kept, Stages
  <2> QED BY <1>9, <2>1, <2>4, WithBody DEF Kept
<1>10. CASE InlineBody
  <2>1. CASE Info.body = "inline"
    <3>1. Info \in ToSet(sent) /\ Info.id = Wanted /\ sent \in AppAnswers
      BY <1>10, InfoIsLast DEF InlineBody, Kept, InfoKept
    <3>2. Info.mark \in DOMAIN Public
      BY <2>1, <3>1, AnswersAssumption DEF AnswersAssumption
    <3> QED BY <1>9, <1>10, <2>1, <3>2 DEF InlineBody
  <2>2. CASE Info.body # "inline"
    BY <1>8, <1>10, <2>2 DEF InlineBody
  <2> QED BY <2>1, <2>2
<1>11. CASE RemoteBody
  BY <1>8, <1>9, <1>11 DEF RemoteBody, HashRight
<1>12. CASE MergeEntry
  <2>1. /\ stage = "merge" /\ section # <<>> /\ section' = Tail(section)
        /\ UNCHANGED <<command, stage, due, sent, got, packages, names, all, unlocked>>
    BY <1>12 DEF MergeEntry
  <2>2. IsList(section) /\ ToSet(section) \subseteq Entries
    BY <2>1 DEF Kept, Stages
  <2>3. IsList(section') /\ ToSet(section') \subseteq Entries /\ Entries' = Entries
    BY <2>1, <2>2, ListTail DEF Entries, Info
  <2>4. Stages'
    BY <2>1, <2>3 DEF Kept, Stages
  <2> QED BY <2>1, <2>4, WithBody DEF Kept
<1>13. CASE MergeEnds
  <2>1. /\ stage = "merge" /\ section = <<>> /\ stage' = "app"
        /\ UNCHANGED <<command, due, sent, got, packages, names, all, section, unlocked>>
    BY <1>13 DEF MergeEnds, EndAs
  <2>2. Stages'
    BY <2>1 DEF Kept, Stages
  <2> QED BY <2>1, <2>2, WithBody DEF Kept
<1>14. ASSUME NEW b \in DOMAIN Private, PrivateBeta(b) PROVE Kept'
  <2>1. /\ stage = "app" /\ stage' = "merge" /\ section' = Private[b]
        /\ unlocked' = unlocked \cup {b}
        /\ UNCHANGED <<command, due, sent, got, packages, names, all>>
    BY <1>14 DEF PrivateBeta, EndAs
  <2>2. IsList(section') /\ ToSet(section') \subseteq Entries'
    BY <2>1, SectionsAssumption DEF SectionsAssumption, Entries
  <2>3. Stages'
    BY <2>1, <2>2 DEF Kept, Stages
  <2> QED BY <2>1, <2>3, WithBody DEF Kept
<1> QED
  BY <1>2, <1>3, <1>4, <1>5, <1>6, <1>7, <1>10, <1>11, <1>12, <1>13, <1>14 DEF AppNext

LEMMA KeptAlways == AppSpec => []Kept
<1>1. ASSUME Kept, UNCHANGED appVars PROVE Kept'
  <2>1. /\ UNCHANGED <<command, stage, due, sent, got>>
        /\ UNCHANGED <<packages, names, all, app, section, unlocked>>
        /\ Seen' = Seen /\ Info' = Info /\ Entries' = Entries /\ AppsOf(packages)' = AppsOf(packages)
    BY <1>1 DEF appVars, Seen, Info, Entries, AppsOf, Counts
  <2>2. Cut' /\ Stages'
    BY <1>1, <2>1 DEF Kept, Cut, Stages
  <2>3. InfoKept' /\ PackagesKept' /\ NamesKept'
    BY <1>1, <2>1 DEF Kept, InfoKept, PackagesKept, NamesKept
  <2>4. AnswerWhole'
    BY <1>1, <2>1 DEF Kept, AnswerWhole
  <2> QED BY <2>2, <2>3, <2>4 DEF Kept
<1>2. Kept /\ [AppNext]_appVars => Kept'
  BY <1>1, KeptNext
<1> QED
  BY <1>2, KeptInit, PTL DEF AppSpec

\* Every variable has its type; what is due is the end of what was sent
\* (appinfo.go:118-196, licenses.go:75-184).
THEOREM TypeCorrect == AppSpec => []AppTypeOK
<1>1. Kept => AppTypeOK
  <2> SUFFICES ASSUME Kept PROVE AppTypeOK
    OBVIOUS
  <2>1. /\ Len(sent) \in Nat /\ Len(due) \in Nat /\ Len(due) <= Len(sent)
        /\ \A k \in 1 .. Len(due) : due[k] = sent[Len(sent) - Len(due) + k]
    BY SeenLen DEF Kept, Cut
  <2>2. IsSuffix(due, sent)
    <3> DEFINE n == Len(due)
               d == Reverse(due)
               r == Reverse(sent)
    <3>1. /\ d = [k \in 1 .. n |-> due[(n - k) + 1]] /\ n \in Nat
          /\ r = [k \in 1 .. Len(sent) |-> sent[(Len(sent) - k) + 1]]
      BY <2>1 DEF Reverse
    <3>2. d \in [1 .. n -> ToSet(due)] /\ r \in [1 .. Len(sent) -> ToSet(sent)]
      <4>1. /\ \A k \in 1 .. n : (n - k) + 1 \in 1 .. n
            /\ \A k \in 1 .. Len(sent) : (Len(sent) - k) + 1 \in 1 .. Len(sent)
        BY <2>1
      <4>2. /\ \A k \in 1 .. n : due[k] \in ToSet(due)
            /\ \A k \in 1 .. Len(sent) : sent[k] \in ToSet(sent)
        BY ListLen DEF Kept, Cut
      <4> QED BY <3>1, <4>1, <4>2
    <3>3. ASSUME NEW k \in 1 .. n PROVE d[k] = r[k]
      <4>1. (n - k) + 1 \in 1 .. n /\ k \in 1 .. Len(sent)
        BY <2>1
      <4>2. due[(n - k) + 1] = sent[Len(sent) - n + ((n - k) + 1)]
        BY <2>1, <4>1
      <4>3. Len(sent) - n + ((n - k) + 1) = (Len(sent) - k) + 1
        BY <2>1
      <4> QED BY <3>1, <4>1, <4>2, <4>3
    <3>4. Len(d) = n /\ Len(r) = Len(sent) /\ d \in Seq(ToSet(due)) /\ r \in Seq(ToSet(sent))
      BY <2>1, <3>2, FunctionList
    <3> HIDE DEF d, r
    <3>5. SubSeq(d, 1, n) = [k \in 1 .. n |-> d[k]] /\ SubSeq(r, 1, n) = [k \in 1 .. n |-> r[k]]
      BY <2>1, <3>2, <3>4
    <3>6. IsPrefix(d, r)
      BY <2>1, <3>3, <3>4, <3>5 DEF IsPrefix
    <3> QED BY <3>6 DEF IsSuffix, d, r
  <2>3. DOMAIN names \subseteq {item.id : item \in ToSet(sent)}
    BY DEF Kept, NamesKept
  <2> QED BY <2>2, <2>3 DEF Kept, Cut, Stages, AppTypeOK
<1> QED
  BY <1>1, KeptAlways, PTL

\* What a request gives is what Steam sent, for any answer and however it is cut into
\* packets (appinfo.go:147-165, licenses.go:82-101, 166-184).
THEOREM AnswerWholeCorrect == AppSpec => []AnswerWhole
<1>1. Kept => AnswerWhole
  BY DEF Kept
<1> QED
  BY <1>1, KeptAlways, PTL

----------------------------------------------------------------------------
(***************************************************************************)
(* What mergeDepots makes of sections.                                     *)
(***************************************************************************)
LEMMA MaxIn ==
  ASSUME NEW n \in Nat, NEW K \in SUBSET (1 .. n), K # {}
  PROVE  Max(K) \in K
<1> DEFINE R == {m \in Nat : n - m \in K}
<1>1. PICK k \in K : TRUE
  OBVIOUS
<1>2. n - k \in R
  BY <1>1
<1>3. PICK m \in R : \A j \in R : m <= j
  <2>1. R \subseteq Nat /\ R # {}
    BY <1>2
  <2> HIDE DEF R
  <2>2. PICK m \in R : \A j \in R : ~(<<j, m>> \in OpToRel(<, Nat))
    BY <2>1, WFMin, NatLessThanWellFounded
  <2>3. ASSUME NEW j \in R PROVE m <= j
    <3>1. m \in Nat /\ j \in Nat
      BY <2>1
    <3>2. ~(j < m)
      BY <2>2, <3>1 DEF OpToRel
    <3> QED BY <3>1, <3>2
  <2> QED BY <2>3
<1>4. n - m \in K
  BY <1>3
<1>5. ASSUME NEW j \in K PROVE n - m >= j
  <2>1. n - j \in R /\ j \in Nat /\ m \in Nat
    BY <1>3
  <2>2. m <= n - j
    BY <1>3, <2>1
  <2> QED BY <2>1, <2>2
<1>6. \E x \in K : \A j \in K : x >= j
  BY <1>4, <1>5
<1> QED
  BY <1>6 DEF Max

\* What a list says is added to what is known, if it does not contradict it.
LEMMA WithAdds ==
  ASSUME NEW f, NEW list, IsList(list), NEW K \in SUBSET DOMAIN list,
         \A p, q \in Pairs(f) \cup PairsAt(list, K) : p[1] = q[1] => p = q
  PROVE  Pairs(With(f, list, K)) = Pairs(f) \cup PairsAt(list, K)
<1> DEFINE S == PairsAt(list, K)
           of(name) == {k \in K : list[k].name = name}
           g == With(f, list, K)
           listed == {list[k].name : k \in K}
<1>1. /\ DOMAIN g = DOMAIN f \cup listed
      /\ \A name \in DOMAIN f \cup listed :
           g[name] = IF of(name) = {} THEN f[name] ELSE list[Max(of(name))].gid
  BY DEF With
<1>2. ASSUME NEW name, of(name) # {} PROVE <<name, g[name]>> \in S /\ name \in listed
  <2>1. Len(list) \in Nat /\ of(name) \in SUBSET (1 .. Len(list))
    BY ListLen
  <2>2. Max(of(name)) \in of(name)
    BY <1>2, <2>1, MaxIn
  <2>3. name \in listed
    BY <1>2
  <2> QED BY <1>1, <1>2, <2>2, <2>3 DEF PairsAt
<1>3. ASSUME NEW name \in DOMAIN f, of(name) = {} PROVE <<name, g[name]>> \in Pairs(f)
  BY <1>1, <1>3 DEF Pairs
<1> HIDE DEF g
<1>4. Pairs(g) \subseteq Pairs(f) \cup S
  <2>1. ASSUME NEW name \in DOMAIN g PROVE <<name, g[name]>> \in Pairs(f) \cup S
    <3>1. CASE of(name) # {}
      BY <1>2, <3>1
    <3>2. CASE of(name) = {}
      <4>1. name \in DOMAIN f
        BY <1>1, <2>1, <3>2
      <4> QED BY <1>3, <3>2, <4>1
    <3> QED BY <3>1, <3>2
  <2> QED BY <2>1 DEF Pairs
<1>5. S \subseteq Pairs(g)
  <2>1. ASSUME NEW k \in K PROVE <<list[k].name, list[k].gid>> \in Pairs(g)
    <3> DEFINE name == list[k].name
               p == <<name, list[k].gid>>
               q == <<name, g[name]>>
    <3>1. of(name) # {} /\ name \in DOMAIN g
      BY <1>1
    <3>2. q \in S /\ p \in S
      BY <1>2, <3>1 DEF PairsAt
    <3>3. p[1] = q[1]
      OBVIOUS
    <3>4. p = q
      BY <3>2, <3>3
    <3> QED BY <3>1, <3>4 DEF Pairs
  <2> QED BY <2>1 DEF PairsAt
<1>6. Pairs(f) \subseteq Pairs(g)
  <2>1. ASSUME NEW name \in DOMAIN f PROVE <<name, f[name]>> \in Pairs(g)
    <3> DEFINE p == <<name, f[name]>>
               q == <<name, g[name]>>
    <3>1. name \in DOMAIN g /\ p \in Pairs(f) /\ q \in Pairs(g)
      BY <1>1 DEF Pairs
    <3>2. q \in Pairs(f) \cup S
      BY <1>4, <3>1
    <3>3. p[1] = q[1]
      OBVIOUS
    <3>4. p = q
      BY <3>1, <3>2, <3>3
    <3> QED BY <3>1, <3>4
  <2> QED BY <2>1 DEF Pairs
<1> QED
  BY <1>4, <1>5, <1>6 DEF g

\* The app's own section.
Published == ToSet(Public[Info.mark])

IsDepot(d) ==
  d = [id |-> d.id, name |-> d.name, manifests |-> d.manifests, encrypted |-> d.encrypted]

\* A depot is as the entries M say, and named by the app's own section.
DepotRight(d, M) ==
  /\ IsDepot(d) /\ d.id \in DepotIds(M)
  /\ Pairs(d.manifests) = Said(d.id, M)
  /\ Pairs(d.encrypted) = SaidEncrypted(d.id, M)
  /\ Of(d.id, M \cap Published) # {} => d.name \in PublicNames(d.id)

DepotsRight(list, M) ==
  /\ IsList(list)
  /\ \A k \in DOMAIN list : DepotRight(list[k], M)
  /\ \A id \in DepotIds(M) : \E k \in DOMAIN list : list[k].id = id
  /\ \A j, k \in DOMAIN list : list[j].id = list[k].id => j = k

BranchesRight(list, M) ==
  /\ IsList(list)
  /\ \A k \in DOMAIN list : list[k] \in M /\ list[k].kind = "branch"
  /\ \A e \in M : e.kind = "branch" => \E k \in DOMAIN list : SameName(list[k].name, e.name)
  /\ \A j, k \in DOMAIN list : SameName(list[j].name, list[k].name) => j = k
  /\ \A e \in M \cap Published : e.kind = "branch" => e \in ToSet(list)

LEMMA OfOneMore ==
  ASSUME NEW M, NEW e, NEW id
  PROVE  /\ ~(e.kind = "depot" /\ IdOf(e.key) = id) => Of(id, M \cup {e}) = Of(id, M)
         /\ e.kind = "depot" /\ IdOf(e.key) = id => Of(id, M \cup {e}) = Of(id, M) \cup {e}
BY DEF Of

\* What an entry says is added to what was said of its depot; of others, nothing is.
LEMMA SaidOneMore ==
  ASSUME NEW M, NEW e, NEW id
  PROVE  /\ ~(e.kind = "depot" /\ IdOf(e.key) = id) =>
              /\ Said(id, M \cup {e}) = Said(id, M)
              /\ SaidEncrypted(id, M \cup {e}) = SaidEncrypted(id, M)
         /\ e.kind = "depot" /\ IdOf(e.key) = id =>
              /\ Said(id, M \cup {e}) =
                   Said(id, M) \cup PairsAt(e.manifests, DOMAIN e.manifests)
              /\ SaidEncrypted(id, M \cup {e}) =
                   SaidEncrypted(id, M) \cup PairsAt(e.encrypted, HaveGid(e.encrypted))
<1>1. CASE ~(e.kind = "depot" /\ IdOf(e.key) = id)
  BY <1>1, OfOneMore DEF Said, SaidEncrypted
<1>2. CASE e.kind = "depot" /\ IdOf(e.key) = id
  <2>1. Of(id, M \cup {e}) = Of(id, M) \cup {e}
    BY <1>2, OfOneMore
  <2> QED BY <1>2, <2>1 DEF Said, SaidEncrypted
<1> QED
  BY <1>1, <1>2

LEMMA SaidMore ==
  ASSUME NEW M, NEW T, M \subseteq T, NEW id
  PROVE  Said(id, M) \subseteq Said(id, T) /\ SaidEncrypted(id, M) \subseteq SaidEncrypted(id, T)
<1>1. Of(id, M) \subseteq Of(id, T)
  BY DEF Of
<1> QED
  BY <1>1 DEF Said, SaidEncrypted

LEMMA IdsOneMore ==
  ASSUME NEW M, NEW e
  PROVE  DepotIds(M \cup {e}) =
           DepotIds(M) \cup (IF e.kind = "depot" /\ IdOf(e.key) # 0 THEN {IdOf(e.key)} ELSE {})
BY DEF DepotIds

\* An entry of a depot is added to it.
LEMMA ExtendedSays ==
  ASSUME NEW T, NEW M \in SUBSET T, NEW e \in T, e.kind = "depot", NEW d, IsDepot(d),
         d.id = IdOf(e.key), d.id \in DepotIds(T),
         IsList(e.manifests), IsList(e.encrypted),
         \A p, q \in Said(d.id, T) : p[1] = q[1] => p = q,
         \A p, q \in SaidEncrypted(d.id, T) : p[1] = q[1] => p = q,
         Pairs(d.manifests) = Said(d.id, M), Pairs(d.encrypted) = SaidEncrypted(d.id, M)
  PROVE  LET x == Extended(d, e)
         IN  /\ IsDepot(x) /\ x.id = d.id /\ x.name = d.name
             /\ Pairs(x.manifests) = Said(d.id, M \cup {e})
             /\ Pairs(x.encrypted) = SaidEncrypted(d.id, M \cup {e})
<1> DEFINE x == Extended(d, e)
           m == With(d.manifests, e.manifests, DOMAIN e.manifests)
           c == With(d.encrypted, e.encrypted, HaveGid(e.encrypted))
           A == PairsAt(e.manifests, DOMAIN e.manifests)
           C == PairsAt(e.encrypted, HaveGid(e.encrypted))
<1>1. x = [id |-> d.id, name |-> d.name, manifests |-> m, encrypted |-> c]
  <2> HIDE DEF m, c
  <2>1. x = [d EXCEPT !.manifests = m, !.encrypted = c]
    BY DEF Extended, m, c
  <2> QED BY <2>1 DEF IsDepot
<1>2. /\ Said(d.id, M \cup {e}) = Said(d.id, M) \cup A
      /\ SaidEncrypted(d.id, M \cup {e}) = SaidEncrypted(d.id, M) \cup C
  BY SaidOneMore
<1>3. M \cup {e} \subseteq T
  OBVIOUS
<1>4. /\ Said(d.id, M) \cup A \subseteq Said(d.id, T)
      /\ SaidEncrypted(d.id, M) \cup C \subseteq SaidEncrypted(d.id, T)
  BY <1>2, <1>3, SaidMore
<1> HIDE DEF A, C
<1>5. Pairs(m) = Pairs(d.manifests) \cup A
  <2>1. \A p, q \in Pairs(d.manifests) \cup A : p[1] = q[1] => p = q
    BY <1>4
  <2>2. DOMAIN e.manifests \in SUBSET DOMAIN e.manifests
    OBVIOUS
  <2> QED BY <2>1, <2>2, WithAdds DEF A
<1>6. Pairs(c) = Pairs(d.encrypted) \cup C
  <2>1. \A p, q \in Pairs(d.encrypted) \cup C : p[1] = q[1] => p = q
    BY <1>4
  <2>2. HaveGid(e.encrypted) \in SUBSET DOMAIN e.encrypted
    BY DEF HaveGid
  <2> QED BY <2>1, <2>2, WithAdds DEF C
<1> HIDE DEF m, c, x
<1>7. x.id = d.id /\ x.name = d.name /\ x.manifests = m /\ x.encrypted = c
  BY <1>1
<1>8. IsDepot(x)
  BY <1>1, <1>7 DEF IsDepot
<1> QED
  BY <1>2, <1>5, <1>6, <1>7, <1>8 DEF x

\* The entries M were merged, those of the app's own section first.
InOrder(M) == M \subseteq Published \/ Published \subseteq M

LEMMA AddDepotRight ==
  ASSUME NEW T, NEW M \in SUBSET T, NEW e \in T, NEW list, DepotsRight(list, M), InOrder(M),
         e.kind = "depot", IdOf(e.key) # 0, IsList(e.manifests), IsList(e.encrypted),
         \A id \in DepotIds(T) :
           /\ \A p, q \in Said(id, T) : p[1] = q[1] => p = q
           /\ \A p, q \in SaidEncrypted(id, T) : p[1] = q[1] => p = q
  PROVE  DepotsRight(AddDepot(list, e), M \cup {e})
<1> DEFINE id == IdOf(e.key)
           N == M \cup {e}
           out == AddDepot(list, e)
<1>1. IsList(list) /\ DOMAIN list = 1 .. Len(list) /\ Len(list) \in Nat
  BY ListLen DEF DepotsRight
<1>2. DepotIds(N) = DepotIds(M) \cup {id} /\ id \in DepotIds(T)
  BY IdsOneMore DEF DepotIds
<1>3. ASSUME NEW d, DepotRight(d, M), d.id # id PROVE DepotRight(d, N)
  <2>1. /\ Said(d.id, N) = Said(d.id, M) /\ SaidEncrypted(d.id, N) = SaidEncrypted(d.id, M)
    BY <1>3, SaidOneMore
  <2>2. Of(d.id, N \cap Published) \subseteq Of(d.id, M \cap Published)
    BY <1>3 DEF Of
  <2> QED BY <1>2, <1>3, <2>1, <2>2 DEF DepotRight
<1>4. ASSUME NEW d, IsDepot(d), d.id = id,
             Pairs(d.manifests) = Said(d.id, M), Pairs(d.encrypted) = SaidEncrypted(d.id, M),
             Of(d.id, N \cap Published) # {} => d.name \in PublicNames(d.id)
      PROVE  DepotRight(Extended(d, e), N) /\ Extended(d, e).id = id
  <2> DEFINE x == Extended(d, e)
  <2>1. /\ IsDepot(x) /\ x.id = d.id /\ x.name = d.name
        /\ Pairs(x.manifests) = Said(d.id, M \cup {e})
        /\ Pairs(x.encrypted) = SaidEncrypted(d.id, M \cup {e})
    BY <1>2, <1>4, ExtendedSays
  <2> HIDE DEF x
  <2>2. DepotRight(x, N)
    BY <1>2, <1>4, <2>1 DEF DepotRight
  <2> QED BY <1>4, <2>1, <2>2 DEF x
<1>5. CASE Known(list, e) = {}
  <2> DEFINE d == NewDepot(e)
  <2>1. /\ d = [id |-> id, name |-> e.name, manifests |-> <<>>, encrypted |-> <<>>]
        /\ d.id = id /\ d.name = e.name /\ d.manifests = <<>> /\ d.encrypted = <<>>
    BY DEF NewDepot
  <2>2. id \notin DepotIds(M)
    BY <1>5 DEF Known, DepotsRight
  <2>3. Of(id, M) = {}
    BY <2>2 DEF Of, DepotIds
  <2>4. Said(id, M) = {} /\ SaidEncrypted(id, M) = {} /\ Pairs(<<>>) = {}
    BY <2>3 DEF Said, SaidEncrypted, Pairs
  <2>5. Of(id, N \cap Published) # {} => e.name \in PublicNames(id)
    <3>1. Of(id, N \cap Published) \subseteq {e} \cap Published
      BY <2>3 DEF Of
    <3>2. e \in Published => e \in Of(id, Published)
      BY DEF Of
    <3> QED BY <3>1, <3>2 DEF PublicNames, Published
  <2> HIDE DEF d
  <2>6. DepotRight(Extended(d, e), N) /\ Extended(d, e).id = id
    <3>1. IsDepot(d)
      BY <2>1 DEF IsDepot
    <3> QED BY <1>4, <2>1, <2>4, <2>5, <3>1
  <2> DEFINE y == Extended(d, e)
             n == Len(list) + 1
  <2>7. out = Append(list, y)
    BY <1>5 DEF AddDepot, d
  <2> HIDE DEF out, y
  <2>8. /\ IsList(out) /\ Len(out) = n /\ out[n] = y /\ \A k \in DOMAIN list : out[k] = list[k]
    BY <1>1, <2>7, ListAppend
  <2>9. DOMAIN out = DOMAIN list \cup {n} /\ n \notin DOMAIN list
    BY <1>1, <2>8, ListLen
  <2>10. y.id = id /\ DepotRight(y, N)
    BY <2>6 DEF y
  <2>11. \A k \in DOMAIN list : DepotRight(list[k], M) /\ list[k].id # id
    BY <1>5 DEF Known, DepotsRight
  <2>12. \A k \in DOMAIN out : DepotRight(out[k], N)
    BY <1>3, <2>8, <2>9, <2>10, <2>11
  <2>13. \A j \in DepotIds(N) : \E k \in DOMAIN out : out[k].id = j
    BY <1>2, <2>8, <2>9, <2>10 DEF DepotsRight
  <2>14. \A j, k \in DOMAIN out : out[j].id = out[k].id => j = k
    BY <2>8, <2>9, <2>10, <2>11 DEF DepotsRight
  <2> QED BY <2>8, <2>12, <2>13, <2>14 DEF DepotsRight, out
<1>6. CASE Known(list, e) # {}
  <2> DEFINE of(k) == IF k \in Known(list, e) THEN Extended(list[k], e) ELSE list[k]
  <2>1. out = [k \in DOMAIN list |-> of(k)]
    BY <1>6 DEF AddDepot
  <2>2. ASSUME NEW k \in DOMAIN list PROVE DepotRight(of(k), N) /\ of(k).id = list[k].id
    <3>1. DepotRight(list[k], M)
      BY DEF DepotsRight
    <3>2. CASE list[k].id # id
      BY <1>3, <3>1, <3>2 DEF Known
    <3>3. CASE list[k].id = id
      <4>1. IsDepot(list[k]) /\ id \in DepotIds(M)
        BY <3>1, <3>3 DEF DepotRight
      <4>2. Of(id, N \cap Published) # {} => Of(id, M \cap Published) # {}
        <5>1. CASE Published \subseteq M
          BY <5>1 DEF Of
        <5>2. CASE M \subseteq Published
          <6>1. Of(id, M) # {} /\ M \cap Published = M
            BY <4>1, <5>2 DEF Of, DepotIds
          <6> QED BY <6>1
        <5> QED BY <5>1, <5>2 DEF InOrder
      <4>3. DepotRight(Extended(list[k], e), N) /\ Extended(list[k], e).id = id
        BY <1>4, <3>1, <3>3, <4>1, <4>2 DEF DepotRight
      <4> QED BY <3>3, <4>3 DEF Known
    <3> QED BY <3>2, <3>3
  <2> HIDE DEF of
  <2>3. DOMAIN out = DOMAIN list /\ \A k \in DOMAIN list : out[k] = of(k)
    BY <2>1
  <2>4. IsList(out)
    <3>1. out \in [1 .. Len(list) -> {of(k) : k \in DOMAIN list}]
      BY <1>1, <2>1
    <3>2. out \in Seq({of(k) : k \in DOMAIN list})
      BY <1>1, <3>1, FunctionList
    <3> QED BY <3>2, ListOf
  <2> HIDE DEF out
  <2>5. \A k \in DOMAIN out : DepotRight(out[k], N) /\ out[k].id = list[k].id
    BY <2>2, <2>3
  <2>6. \A j \in DepotIds(N) : \E k \in DOMAIN out : out[k].id = j
    <3>1. \E k \in DOMAIN list : list[k].id = id
      BY <1>6 DEF Known
    <3>2. \A j \in DepotIds(M) : \E k \in DOMAIN list : list[k].id = j
      BY DEF DepotsRight
    <3> QED BY <1>2, <2>3, <2>5, <3>1, <3>2
  <2>7. \A j, k \in DOMAIN out : out[j].id = out[k].id => j = k
    BY <2>3, <2>5 DEF DepotsRight
  <2> QED BY <2>4, <2>5, <2>6, <2>7 DEF DepotsRight, out
<1> QED
  BY <1>5, <1>6

\* An entry that is of no depot disturbs none.
LEMMA OtherEntryRight ==
  ASSUME NEW M, NEW e, NEW list, DepotsRight(list, M), ~(e.kind = "depot" /\ IdOf(e.key) # 0)
  PROVE  DepotsRight(list, M \cup {e})
<1> DEFINE N == M \cup {e}
<1>1. DepotIds(N) = DepotIds(M)
  BY IdsOneMore
<1>2. ASSUME NEW d, DepotRight(d, M) PROVE DepotRight(d, N)
  <2>1. d.id \in DepotIds(M) /\ d.id # 0
    BY <1>2 DEF DepotRight, DepotIds
  <2>2. /\ Said(d.id, N) = Said(d.id, M) /\ SaidEncrypted(d.id, N) = SaidEncrypted(d.id, M)
    BY <2>1, SaidOneMore
  <2>3. Of(d.id, N \cap Published) \subseteq Of(d.id, M \cap Published)
    BY <2>1 DEF Of
  <2> QED BY <1>1, <1>2, <2>2, <2>3 DEF DepotRight
<1> QED
  BY <1>1, <1>2 DEF DepotsRight

LEMMA AddBranchRight ==
  ASSUME NEW M, NEW e, NEW list, BranchesRight(list, M), InOrder(M), e.kind = "branch",
         \A x, y \in Published :
           x.kind = "branch" /\ y.kind = "branch" /\ SameName(x.name, y.name) => x = y
  PROVE  BranchesRight(AddBranch(list, e), M \cup {e})
<1> DEFINE out == AddBranch(list, e)
<1>1. IsList(list) /\ DOMAIN list = 1 .. Len(list) /\ Len(list) \in Nat
  BY ListLen DEF BranchesRight
<1>2. ASSUME NEW k \in DOMAIN list, SameName(list[k].name, e.name)
      PROVE  BranchesRight(out, M \cup {e})
  <2>1. out = list
    BY <1>2 DEF AddBranch
  <2>2. e \in Published => e \in ToSet(list)
    <3>1. list[k] \in M /\ list[k].kind = "branch" /\ list[k] \in ToSet(list)
      BY <1>1, <1>2, ListLen DEF BranchesRight
    <3>2. CASE M \subseteq Published
      BY <1>2, <3>1, <3>2
    <3>3. CASE Published \subseteq M
      BY <3>3 DEF BranchesRight
    <3> QED BY <3>2, <3>3 DEF InOrder
  <2> QED BY <1>2, <2>1, <2>2 DEF BranchesRight
<1>3. CASE ~ \E k \in DOMAIN list : SameName(list[k].name, e.name)
  <2> DEFINE n == Len(list) + 1
  <2>1. out = Append(list, e)
    BY <1>3 DEF AddBranch
  <2> HIDE DEF out
  <2>2. /\ IsList(out) /\ Len(out) = n /\ out[n] = e /\ \A k \in DOMAIN list : out[k] = list[k]
        /\ ToSet(out) = ToSet(list) \cup {e}
    BY <1>1, <2>1, ListAppend
  <2>3. DOMAIN out = DOMAIN list \cup {n} /\ n \notin DOMAIN list
    BY <1>1, <2>2, ListLen
  <2>4. \A a, b : SameName(a, b) <=> SameName(b, a)
    BY DEF SameName
  <2>5. SameName(e.name, e.name)
    BY DEF SameName
  <2>6. \A j, k \in DOMAIN out : SameName(out[j].name, out[k].name) => j = k
    BY <1>3, <2>2, <2>3, <2>4 DEF BranchesRight
  <2>7. \A x \in M \cup {e} : x.kind = "branch" =>
          \E k \in DOMAIN out : SameName(out[k].name, x.name)
    BY <2>2, <2>3, <2>5 DEF BranchesRight
  <2> QED BY <2>2, <2>3, <2>6, <2>7 DEF BranchesRight, out
<1> QED
  BY <1>2, <1>3

LEMMA OtherBranchRight ==
  ASSUME NEW M, NEW e, NEW list, BranchesRight(list, M), e.kind # "branch"
  PROVE  BranchesRight(list, M \cup {e})
BY DEF BranchesRight

\* Sorting changes nothing but the order.
LEMMA SortedRight ==
  ASSUME NEW M, NEW list, DepotsRight(list, M), NEW out \in ById(list),
         \A id \in DepotIds(M) : id \in Int
  PROVE  /\ DepotsRight(out, M)
         /\ \A j, k \in DOMAIN out : j < k => out[j].id < out[k].id
<1>1. /\ IsList(out) /\ ToSet(out) = ToSet(list) /\ DOMAIN out = DOMAIN list
      /\ \A j, k \in DOMAIN out : j < k => out[j].id <= out[k].id
      /\ DOMAIN list \subseteq Int
  BY ByIdSame, ListLen DEF DepotsRight
<1>2. PICK p \in Bijection(DOMAIN list, DOMAIN list) : \A k \in DOMAIN list : out[k] = list[p[k]]
  BY ByIdSame DEF DepotsRight
<1>3. /\ \A k \in DOMAIN list : p[k] \in DOMAIN list
      /\ \A j, k \in DOMAIN list : p[j] = p[k] => j = k
      /\ \A k \in DOMAIN list : \E j \in DOMAIN list : p[j] = k
  BY DEF Bijection, Injection, Surjection, IsInjective
<1>4. ASSUME NEW k \in DOMAIN out PROVE DepotRight(out[k], M) /\ out[k].id \in Int
  <2>1. p[k] \in DOMAIN list /\ out[k] = list[p[k]]
    BY <1>1, <1>2, <1>3
  <2>2. DepotRight(list[p[k]], M)
    BY <2>1 DEF DepotsRight
  <2> QED BY <2>1, <2>2 DEF DepotRight
<1>5. ASSUME NEW j \in DOMAIN out, NEW k \in DOMAIN out, out[j].id = out[k].id PROVE j = k
  <2>1. /\ p[j] \in DOMAIN list /\ p[k] \in DOMAIN list /\ j \in DOMAIN list /\ k \in DOMAIN list
        /\ list[p[j]].id = list[p[k]].id
    BY <1>1, <1>2, <1>3, <1>5
  <2>2. p[j] = p[k]
    BY <2>1 DEF DepotsRight
  <2> QED BY <1>3, <2>1, <2>2
<1>6. ASSUME NEW id \in DepotIds(M) PROVE \E k \in DOMAIN out : out[k].id = id
  <2>1. PICK k \in DOMAIN list : list[k].id = id
    BY DEF DepotsRight
  <2>2. PICK j \in DOMAIN list : p[j] = k
    BY <1>3
  <2> QED BY <1>1, <1>2, <2>1, <2>2
<1>7. ASSUME NEW j \in DOMAIN out, NEW k \in DOMAIN out, j < k
      PROVE  out[j].id < out[k].id
  <2>1. j # k /\ out[j].id # out[k].id
    BY <1>1, <1>5, <1>7
  <2> QED BY <1>1, <1>4, <1>7, <2>1
<1> QED
  BY <1>1, <1>4, <1>5, <1>6, <1>7 DEF DepotsRight

----------------------------------------------------------------------------
(***************************************************************************)
(* An app is as the entries say that were merged into it.                  *)
(***************************************************************************)
Right(M) ==
  /\ app = [mark |-> Info.mark, branches |-> app.branches, depots |-> app.depots]
  /\ Entries = M \cup ToSet(section)
  /\ unlocked = {} \/ Published \subseteq M
  /\ BranchesRight(app.branches, M) /\ DepotsRight(app.depots, M)

AsMerged ==
  stage \in {"merge", "app"} =>
    /\ Info.mark \in DOMAIN Public
    /\ \E M : Right(M)
    /\ stage = "app" =>
         \A j, k \in DOMAIN app.depots : j < k => app.depots[j].id < app.depots[k].id

\* What is merged is what may be told of the app.
LEMMA EntriesTold ==
  ASSUME Stages, Info.mark \in DOMAIN Public
  PROVE  /\ Entries \subseteq Told(Info.mark)
         /\ \A e \in Entries : e.kind = "depot" =>
              e.key \in Nat /\ IsList(e.manifests) /\ IsList(e.encrypted)
         /\ \A id \in DepotIds(Entries) :
              /\ id \in Int
              /\ \A p, q \in Said(id, Entries) : p[1] = q[1] => p = q
              /\ \A p, q \in SaidEncrypted(id, Entries) : p[1] = q[1] => p = q
<1>1. Entries \subseteq Told(Info.mark)
  BY DEF Entries, Told, Stages
<1>2. ASSUME NEW e \in Entries, e.kind = "depot"
      PROVE  e.key \in Nat /\ IsList(e.manifests) /\ IsList(e.encrypted)
  BY <1>1, <1>2, SectionsAssumption DEF SectionsAssumption
<1>3. ASSUME NEW id \in DepotIds(Entries)
      PROVE  /\ id \in Int
             /\ \A p, q \in Said(id, Entries) : p[1] = q[1] => p = q
             /\ \A p, q \in SaidEncrypted(id, Entries) : p[1] = q[1] => p = q
  <2>1. id \in DepotIds(Told(Info.mark))
    BY <1>1 DEF DepotIds
  <2>2. PICK e \in Entries : e.kind = "depot" /\ id = IdOf(e.key)
    BY DEF DepotIds
  <2>3. id \in Int
    BY <1>2, <2>2, SectionsAssumption DEF SectionsAssumption, IdOf
  <2> QED BY <1>1, <2>1, <2>3, SaidMore, AgreementAssumption DEF AgreementAssumption
<1> QED
  BY <1>1, <1>2, <1>3

\* Right does not depend on how its primed parts are written.
LEMMA RightSame ==
  ASSUME NEW M, got' = got, Entries' = M \cup ToSet(section'),
         app' = [mark |-> Info.mark, branches |-> app'.branches, depots |-> app'.depots],
         unlocked' = {} \/ Published \subseteq M,
         BranchesRight(app'.branches, M), DepotsRight(app'.depots, M)
  PROVE  Right(M)'
<1>1. Info' = Info /\ Published' = Published
  BY DEF Info, Published
<1>2. \A id : PublicNames(id)' = PublicNames(id)
  BY <1>1 DEF PublicNames
<1>3. BranchesRight(app.branches, M)'
  BY <1>1 DEF BranchesRight
<1>4. DepotsRight(app.depots, M)'
  BY <1>1, <1>2 DEF DepotsRight, DepotRight
<1> QED
  BY <1>1, <1>3, <1>4 DEF Right

LEMMA MergeEntryRight ==
  ASSUME Kept, AsMerged, MergeEntry
  PROVE  AsMerged'
<1> DEFINE e == Head(section)
<1>1. /\ stage = "merge" /\ stage' = "merge" /\ section # <<>> /\ section' = Tail(section)
      /\ app' = AddEntry(app, e) /\ UNCHANGED <<got, unlocked>>
      /\ Info' = Info /\ Entries' = Entries
  BY DEF MergeEntry, Info, Entries
<1>2. Info.mark \in DOMAIN Public
  BY <1>1 DEF AsMerged
<1>3. PICK M : Right(M)
  BY <1>1 DEF AsMerged
<1>4. ToSet(section) = {e} \cup ToSet(section')
  BY <1>1, ListTail DEF Kept, Stages
<1> HIDE DEF e
<1>5. M \subseteq Entries /\ e \in Entries /\ Entries' = (M \cup {e}) \cup ToSet(section')
  BY <1>1, <1>3, <1>4 DEF Right
<1>6. InOrder(M)
  <2>1. CASE unlocked = {}
    <3>1. Entries = Published \cup UNION {ToSet(Private[b]) : b \in {}}
      BY <2>1 DEF Entries, Published
    <3> QED BY <1>5, <3>1 DEF InOrder
  <2>2. CASE Published \subseteq M
    BY <2>2 DEF InOrder
  <2> QED BY <1>3, <2>1, <2>2 DEF Right
<1>7. unlocked' = {} \/ Published \subseteq M \cup {e}
  BY <1>1, <1>3 DEF Right
<1>9. PICK N : N = M \cup {e}
  OBVIOUS
<1>8. /\ BranchesRight(app.branches, M) /\ DepotsRight(app.depots, M)
      /\ app = [mark |-> Info.mark, branches |-> app.branches, depots |-> app.depots]
  BY <1>3 DEF Right
<1>10. CASE e.kind = "branch"
  <2> DEFINE out == AddBranch(app.branches, e)
  <2>1. app' = [app EXCEPT !.branches = out]
    BY <1>1, <1>10 DEF AddEntry
  <2>2. BranchesRight(out, M \cup {e})
    BY <1>2, <1>6, <1>8, <1>10, AddBranchRight, AgreementAssumption
       DEF AgreementAssumption, Published
  <2> HIDE DEF out
  <2>3. app' = [mark |-> Info.mark, branches |-> out, depots |-> app.depots]
    BY <1>8, <2>1
  <2>4. DepotsRight(app.depots, M \cup {e})
    BY <1>8, <1>10, OtherEntryRight
  <2>5. Right(N)'
    <3>1. /\ BranchesRight(app'.branches, N) /\ DepotsRight(app'.depots, N)
          /\ app' = [mark |-> Info.mark, branches |-> app'.branches, depots |-> app'.depots]
      BY <1>9, <2>2, <2>3, <2>4
    <3>2. Entries' = N \cup ToSet(section') /\ (unlocked' = {} \/ Published \subseteq N)
      BY <1>5, <1>7, <1>9
    <3> QED BY <1>1, <3>1, <3>2, RightSame
  <2> QED BY <1>1, <1>2, <2>5 DEF AsMerged
<1>11. CASE e.kind = "depot" /\ IdOf(e.key) # 0
  <2> DEFINE out == AddDepot(app.depots, e)
  <2>1. app' = [app EXCEPT !.depots = out]
    BY <1>1, <1>11 DEF AddEntry
  <2>2. /\ IsList(e.manifests) /\ IsList(e.encrypted)
        /\ \A id \in DepotIds(Entries) :
             /\ \A p, q \in Said(id, Entries) : p[1] = q[1] => p = q
             /\ \A p, q \in SaidEncrypted(id, Entries) : p[1] = q[1] => p = q
    BY <1>2, <1>5, <1>11, EntriesTold DEF Kept
  <2>3. DepotsRight(out, M \cup {e})
    BY <1>5, <1>6, <1>8, <1>11, <2>2, AddDepotRight
  <2> HIDE DEF out
  <2>4. app' = [mark |-> Info.mark, branches |-> app.branches, depots |-> out]
    BY <1>8, <2>1
  <2>5. BranchesRight(app.branches, M \cup {e})
    BY <1>8, <1>11, OtherBranchRight
  <2>6. Right(N)'
    <3>1. /\ BranchesRight(app'.branches, N) /\ DepotsRight(app'.depots, N)
          /\ app' = [mark |-> Info.mark, branches |-> app'.branches, depots |-> app'.depots]
      BY <1>9, <2>3, <2>4, <2>5
    <3>2. Entries' = N \cup ToSet(section') /\ (unlocked' = {} \/ Published \subseteq N)
      BY <1>5, <1>7, <1>9
    <3> QED BY <1>1, <3>1, <3>2, RightSame
  <2> QED BY <1>1, <1>2, <2>6 DEF AsMerged
<1>12. CASE e.kind # "branch" /\ ~(e.kind = "depot" /\ IdOf(e.key) # 0)
  <2>1. app' = app
    BY <1>1, <1>12 DEF AddEntry
  <2>2. BranchesRight(app.branches, M \cup {e}) /\ DepotsRight(app.depots, M \cup {e})
    BY <1>8, <1>12, OtherBranchRight, OtherEntryRight
  <2>3. Right(N)'
    <3>1. /\ BranchesRight(app'.branches, N) /\ DepotsRight(app'.depots, N)
          /\ app' = [mark |-> Info.mark, branches |-> app'.branches, depots |-> app'.depots]
      BY <1>8, <1>9, <2>1, <2>2
    <3>2. Entries' = N \cup ToSet(section') /\ (unlocked' = {} \/ Published \subseteq N)
      BY <1>5, <1>7, <1>9
    <3> QED BY <1>1, <3>1, <3>2, RightSame
  <2> QED BY <1>1, <1>2, <2>3 DEF AsMerged
<1> QED
  BY <1>10, <1>11, <1>12

LEMMA MergeEndsRight ==
  ASSUME Kept, AsMerged, MergeEnds
  PROVE  AsMerged'
<1>1. /\ stage = "merge" /\ section = <<>> /\ stage' = "app"
      /\ UNCHANGED <<got, section, unlocked>> /\ Info' = Info /\ Entries' = Entries
  BY DEF MergeEnds, EndAs, Info, Entries
<1>2. Info.mark \in DOMAIN Public
  BY <1>1 DEF AsMerged
<1>3. PICK M : Right(M)
  BY <1>1 DEF AsMerged
<1>4. PICK out \in ById(app.depots) : app' = [app EXCEPT !.depots = out]
  BY DEF MergeEnds
<1>5. app' = [mark |-> Info.mark, branches |-> app.branches, depots |-> out]
  BY <1>3, <1>4 DEF Right
<1>6. M = Entries
  BY <1>1, <1>3, EmptyList DEF Right
<1>7. /\ DepotsRight(out, M)
      /\ \A j, k \in DOMAIN out : j < k => out[j].id < out[k].id
  BY <1>2, <1>3, <1>6, SortedRight, EntriesTold DEF Kept, Right
<1>8. Right(M)'
  BY <1>1, <1>3, <1>5, <1>7, RightSame DEF Right
<1> QED
  BY <1>1, <1>2, <1>5, <1>7, <1>8 DEF AsMerged

LEMMA AsMergedNext ==
  ASSUME Kept, AsMerged, AppNext
  PROVE  AsMerged'
<1>1. ASSUME stage' \notin {"merge", "app"} PROVE AsMerged'
  BY <1>1 DEF AsMerged
<1>2. CASE TokenAnswered \/ LicensesPushed \/ TokensAnswered \/ RequestBreaks
  <2>1. stage' \notin {"merge", "app"}
    BY <1>2 DEF TokenAnswered, LicensesPushed, TokensAnswered, RequestBreaks, EndAs, AskFor
  <2> QED BY <1>1, <2>1
<1>3. CASE Item
  BY <1>1, <1>3 DEF Item, Answered
<1>4. ASSUME NEW pending \in BOOLEAN, PacketEnds(pending) PROVE AsMerged'
  BY <1>1, <1>4 DEF PacketEnds, Answered, Used
<1>5. ASSUME stage = "body", NEW mark \in DOMAIN Public, mark = Info.mark, Parsed(mark),
             UNCHANGED unlocked
      PROVE  AsMerged'
  <2>1. /\ stage' = "merge" /\ section' = Public[mark] /\ got' = got /\ unlocked' = {}
        /\ app' = [mark |-> mark, branches |-> <<>>, depots |-> <<>>] /\ Info' = Info
    BY <1>5 DEF Parsed, EndAs, NoApp, Kept, Stages, Info
  <2>2. Entries' = {} \cup ToSet(section')
    <3>1. Entries' = ToSet(Public[mark]) \cup UNION {ToSet(Private[b]) : b \in {}}
      BY <1>5, <2>1 DEF Entries
    <3> QED BY <2>1, <3>1
  <2>3. DepotIds({}) = {} /\ DOMAIN <<>> = {}
    BY DEF DepotIds
  <2>4. BranchesRight(<<>>, {}) /\ DepotsRight(<<>>, {})
    BY <2>3, EmptyList DEF BranchesRight, DepotsRight
  <2>5. Right({})'
    BY <1>5, <2>1, <2>2, <2>4, RightSame
  <2> QED BY <1>5, <2>1, <2>5 DEF AsMerged
<1>6. CASE InlineBody
  <2>1. CASE Info.body = "inline"
    <3>1. Info \in ToSet(sent) /\ Info.id = Wanted /\ sent \in AppAnswers
      BY <1>6, InfoIsLast DEF InlineBody, Kept, InfoKept
    <3>2. Info.mark \in DOMAIN Public
      BY <2>1, <3>1, AnswersAssumption DEF AnswersAssumption
    <3> QED BY <1>5, <1>6, <2>1, <3>2 DEF InlineBody
  <2>2. CASE Info.body # "inline"
    BY <1>1, <1>6, <2>2 DEF InlineBody, NotParsed, EndAs
  <2> QED BY <2>1, <2>2
<1>7. CASE RemoteBody
  <2>1. CASE NotParsed
    BY <1>1, <2>1 DEF NotParsed, EndAs
  <2> QED BY <1>5, <1>7, <2>1 DEF RemoteBody, HashRight
<1>8. ASSUME NEW b \in DOMAIN Private, PrivateBeta(b) PROVE AsMerged'
  <2>1. /\ stage = "app" /\ stage' = "merge" /\ section' = Private[b] /\ section = <<>>
        /\ unlocked' = unlocked \cup {b} /\ got' = got /\ app' = app /\ Info' = Info
    BY <1>8 DEF PrivateBeta, EndAs, Kept, Stages, Info
  <2>2. PICK M : Right(M)
    BY <2>1 DEF AsMerged
  <2>3. M = Entries
    BY <2>1, <2>2, EmptyList DEF Right
  <2>4. Entries' = M \cup ToSet(section') /\ Published \subseteq M
    BY <2>1, <2>3 DEF Entries, Published
  <2>5. Right(M)'
    BY <2>1, <2>2, <2>4, RightSame DEF Right
  <2> QED BY <2>1, <2>5 DEF AsMerged
<1> QED
  BY <1>2, <1>3, <1>4, <1>6, <1>7, <1>8, MergeEntryRight, MergeEndsRight DEF AppNext

\* For any sections that do not contradict each other, merged in any order and any
\* number of times, an app has what they say, each branch and depot once, and what its
\* own section says is not changed (appinfo.go:231-318, 371-393).
THEOREM AppAsSentCorrect == AppSpec => []AppAsSent
<1>1. AppInit => AsMerged
  BY DEF AppInit, AsMerged
<1>2. Kept /\ AsMerged /\ [AppNext]_appVars => AsMerged'
  <2> SUFFICES ASSUME Kept, AsMerged, UNCHANGED appVars PROVE AsMerged'
    BY AsMergedNext
  <2>1. /\ UNCHANGED <<stage, got, app, section, unlocked>>
        /\ Entries' = Entries /\ Info' = Info
    BY DEF appVars, Entries, Info
  <2>2. CASE stage \in {"merge", "app"}
    <3>1. PICK M : Right(M)
      BY <2>2 DEF AsMerged
    <3>2. Right(M)'
      BY <2>1, <3>1, RightSame DEF Right
    <3> QED BY <2>1, <3>2 DEF AsMerged
  <2> QED BY <2>1, <2>2 DEF AsMerged
<1>3. Kept /\ AsMerged => AppAsSent
  <2> SUFFICES ASSUME Kept, AsMerged, stage = "app" PROVE AppAsSent
    BY DEF AppAsSent
  <2>1. section = <<>>
    BY DEF Kept, Stages
  <2>2. PICK M : Right(M)
    BY DEF AsMerged
  <2>3. M = Entries
    BY <2>1, <2>2, EmptyList DEF Right
  <2>4. app.mark = Info.mark
    BY <2>2 DEF Right
  <2>5. BranchesRight(app.branches, Entries) /\ DepotsRight(app.depots, Entries)
    BY <2>2, <2>3 DEF Right
  <2> DEFINE B == DOMAIN app.branches
             D == DOMAIN app.depots
  <2>6. {Lower[app.branches[k].name] : k \in B} = {Lower[e.name] : e \in Branches}
    <3>1. \A k \in B : app.branches[k] \in Branches
      BY <2>5 DEF BranchesRight, Branches
    <3>2. \A e \in Branches : \E k \in B : Lower[app.branches[k].name] = Lower[e.name]
      BY <2>5 DEF BranchesRight, Branches, SameName
    <3> QED BY <3>1, <3>2
  <2>7. \A j, k \in B : SameName(app.branches[j].name, app.branches[k].name) => j = k
    BY <2>5 DEF BranchesRight
  <2>8. Branches \cap ToSet(Public[Info.mark]) \subseteq ToSet(app.branches)
    BY <2>5 DEF BranchesRight, Branches, Published
  <2>9. \A j, k \in D : j < k => app.depots[j].id < app.depots[k].id
    BY DEF AsMerged
  <2>10. {app.depots[k].id : k \in D} = DepotIds(Entries)
    <3>1. \A k \in D : app.depots[k].id \in DepotIds(Entries)
      BY <2>5 DEF DepotsRight, DepotRight
    <3>2. \A id \in DepotIds(Entries) : \E k \in D : app.depots[k].id = id
      BY <2>5 DEF DepotsRight
    <3> QED BY <3>1, <3>2
  <2>11. ASSUME NEW k \in D
         PROVE  LET d == app.depots[k]
                IN  /\ Pairs(d.manifests) = Said(d.id, Entries)
                    /\ Pairs(d.encrypted) = SaidEncrypted(d.id, Entries)
                    /\ PublicNames(d.id) # {} => d.name \in PublicNames(d.id)
    <3>1. DepotRight(app.depots[k], Entries)
      BY <2>5 DEF DepotsRight
    <3>2. Entries \cap Published = Published
      BY DEF Entries, Published
    <3> QED BY <3>1, <3>2 DEF DepotRight, PublicNames, Published
  <2> QED BY <2>4, <2>6, <2>7, <2>8, <2>9, <2>10, <2>11 DEF AppAsSent
<1> QED
  BY <1>1, <1>2, <1>3, KeptAlways, PTL DEF AppSpec
=============================================================================
