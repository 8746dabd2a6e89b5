---------------------------- MODULE CrawlProofs ----------------------------
(***************************************************************************)
(* Proofs about the walks of the external crawler and the table made of    *)
(* what they find: PageDiscovery, for any site, ArchiveVisit, for archives *)
(* nested in any way, and TableSchema, for any number of files with any    *)
(* columns.                                                                *)
(*                                                                         *)
(* The three rest on functions defined by recursion on a number.  The      *)
(* induction they need is that of sets of numbers, which the well-founded  *)
(* order of finite sets gives.                                             *)
(***************************************************************************)
EXTENDS PageDiscovery, ArchiveVisit, TableSchema, SequenceTheorems, FiniteSetTheorems, TLAPS

(* A set that has 0 and the successors of its members has every number.    *)
LEMMA SetInduction ==
  ASSUME NEW S, 0 \in S, \A n \in Nat : n \in S => n + 1 \in S
  PROVE  \A n \in Nat : n \in S
<1> SUFFICES ASSUME NEW x \in Nat, x \notin S PROVE FALSE
  OBVIOUS
<1> DEFINE T == {0..n : n \in Nat \ S}
<1>1. T \subseteq FiniteSubsetsOf(Nat)
  <2>1. \A n \in Nat : IsFiniteSet(0..n)
    BY FS_Interval
  <2> QED
    BY <2>1 DEF FiniteSubsetsOf
<1>2. T # {}
  OBVIOUS
<1>3. IsWellFoundedOn(StrictSubsetOrdering(Nat), FiniteSubsetsOf(Nat))
  BY FS_StrictSubsetOrderingWellFounded
<1>4. PICK m \in T : \A y \in T : <<y, m>> \notin StrictSubsetOrdering(Nat)
  <2> HIDE DEF T
  <2> QED
    BY <1>1, <1>2, <1>3, WFMin
<1>5. PICK n \in Nat \ S : m = 0..n
  OBVIOUS
<1>6. n # 0 /\ n - 1 \in Nat \ S
  OBVIOUS
<1>7. 0..(n - 1) \in T
  BY <1>6
<1>8. <<0..(n - 1), m>> \in StrictSubsetOrdering(Nat)
  <2>1. 0..(n - 1) \subseteq 0..n /\ n \in 0..n /\ n \notin 0..(n - 1)
    BY <1>6
  <2>2. 0..(n - 1) # 0..n
    BY <2>1
  <2> QED
    BY <1>5, <1>6, <2>1, <2>2 DEF StrictSubsetOrdering
<1> QED
  BY <1>4, <1>7, <1>8

(* A set of numbers has a least one.                                       *)
LEMMA LeastNumber ==
  ASSUME NEW S \in SUBSET Nat, NEW x \in S
  PROVE  \E m \in S : \A y \in S : m <= y
<1> SUFFICES ASSUME \A m \in S : \E y \in S : y < m PROVE FALSE
  OBVIOUS
<1> DEFINE Below == {n \in Nat : \A y \in S : y >= n}
<1>1. 0 \in Below
  OBVIOUS
<1>2. \A n \in Nat : n \in Below => n + 1 \in Below
  <2> SUFFICES ASSUME NEW n \in Below, NEW y \in S, y < n + 1 PROVE FALSE
    OBVIOUS
  <2>1. y = n
    OBVIOUS
  <2> QED
    BY <2>1
<1>3. x + 1 \in Below
  <2> HIDE DEF Below
  <2>1. x + 1 \in Nat
    OBVIOUS
  <2> QED
    BY <1>1, <1>2, <2>1, SetInduction
<1> QED
  BY <1>3

(* A recursion whose steps stay within a set has a solution.               *)
Steps(n, T) == [(1..n) \X T -> T]
Solution(f, n, T, base, step) ==
  f \in [0..n -> T] /\ f[0] = base /\ \A i \in 1..n : f[i] = step[<<i, f[i - 1]>>]

LEMMA Recursion ==
  ASSUME NEW T, NEW base \in T, NEW n \in Nat, NEW step \in Steps(n, T)
  PROVE  \E f : Solution(f, n, T, base, step)
<1> USE DEF Steps, Solution
<1> DEFINE Solves(f, k) ==
      f \in [0..k -> T] /\ f[0] = base /\ \A i \in 1..k : f[i] = step[<<i, f[i - 1]>>]
<1> DEFINE Solved == {k \in Nat : k <= n => \E f : Solves(f, k)}
<1>1. 0 \in Solved
  <2>1. Solves([i \in 0..0 |-> base], 0)
    OBVIOUS
  <2> QED
    BY <2>1
<1>2. \A k \in Nat : k \in Solved => k + 1 \in Solved
  <2> SUFFICES ASSUME NEW k \in Solved, k + 1 <= n PROVE \E f : Solves(f, k + 1)
    OBVIOUS
  <2>1. PICK f : Solves(f, k)
    OBVIOUS
  <2>2. f[k] \in T /\ step[<<k + 1, f[k]>>] \in T
    BY <2>1
  <2> DEFINE g == [i \in 0..(k + 1) |-> IF i = k + 1 THEN step[<<k + 1, f[k]>>] ELSE f[i]]
  <2>3. g \in [0..(k + 1) -> T] /\ g[0] = base
    BY <2>1, <2>2
  <2>4. ASSUME NEW i \in 1..(k + 1) PROVE g[i] = step[<<i, g[i - 1]>>]
    <3>1. g[i - 1] = f[i - 1]
      OBVIOUS
    <3>2. CASE i = k + 1
      <4>1. i - 1 = k /\ g[i] = step[<<k + 1, f[k]>>]
        BY <3>2
      <4> QED
        BY <3>1, <3>2, <4>1
    <3>3. CASE i # k + 1
      BY <3>1, <3>3, <2>1
    <3> QED
      BY <3>2, <3>3
  <2>5. Solves(g, k + 1)
    BY <2>3, <2>4
  <2> QED
    BY <2>5
<1>3. n \in Solved
  <2> HIDE DEF Solved
  <2> QED
    BY <1>1, <1>2, SetInduction
<1> QED
  BY <1>3

(* An element of a sequence, the whole of it, its front and its end.       *)
LEMMA SeqFacts ==
  ASSUME NEW S, NEW s \in Seq(S)
  PROVE  /\ Len(s) \in Nat /\ DOMAIN s = 1..Len(s) /\ ToSet(s) \subseteq S
         /\ \A x : ToSet(Append(s, x)) = ToSet(s) \cup {x}
<1>1. Len(s) \in Nat /\ DOMAIN s = 1..Len(s) /\ s \in [1..Len(s) -> S]
  BY LenProperties
<1>2. ToSet(s) \subseteq S
  BY <1>1 DEF ToSet
<1>3. ASSUME NEW x PROVE ToSet(Append(s, x)) = ToSet(s) \cup {x}
  <2>1. /\ DOMAIN Append(s, x) = 1..(Len(s) + 1)
        /\ Append(s, x)[Len(s) + 1] = x
        /\ \A i \in 1..Len(s) : Append(s, x)[i] = s[i]
    BY <1>1
  <2> QED
    BY <1>1, <2>1 DEF ToSet
<1> QED
  BY <1>1, <1>2, <1>3

LEMMA NothingInEmpty == ToSet(<<>>) = {}
  BY DEF ToSet

-----------------------------------------------------------------------------
(* PageDiscovery.                                                          *)

(* Of the links of a page those in scope are kept.                         *)
LEMMA ScopeIsKept ==
  ASSUME site \in Sites, NEW page \in DOMAIN site.pages
  PROVE  LinksInScope(page) \in Seq(PagesBelow(page)) /\ ToSet(LinksInScope(page)) = PagesBelow(page)
<1> DEFINE links == site.pages[page]
           n == Len(links)
           L == ToSet(links)
           Kept(g) == g = [i \in 0..n |->
             IF i = 0 THEN <<>>
             ELSE IF InScope(links[i]) THEN Append(g[i - 1], links[i]) ELSE g[i - 1]]
           step == [x \in (1..n) \X Seq(L) |->
                      IF InScope(links[x[1]]) THEN Append(x[2], links[x[1]]) ELSE x[2]]
<1>1. links \in Seq(L)
  BY SitesAssumption DEF SitesAssumption
<1>2. n \in Nat /\ DOMAIN links = 1..n /\ \A i \in 1..n : links[i] \in L
  <2>1. Len(links) \in Nat /\ DOMAIN links = 1..Len(links)
    BY <1>1, LenProperties
  <2> QED
    BY <2>1 DEF ToSet
<1> HIDE DEF L, links, n
<1>3. step \in Steps(n, Seq(L))
  <2> SUFFICES ASSUME NEW i \in 1..n, NEW q \in Seq(L) PROVE Append(q, links[i]) \in Seq(L)
    BY DEF Steps
  <2> QED
    BY <1>2, AppendProperties
<1>4. <<>> \in Seq(L)
  OBVIOUS
<1>5. PICK f : Solution(f, n, Seq(L), <<>>, step)
  <2> HIDE DEF step
  <2> QED
    BY <1>2, <1>3, <1>4, Recursion
<1>6. Kept(f)
  <2>1. ASSUME NEW i \in 1..n
        PROVE  f[i] = IF InScope(links[i]) THEN Append(f[i - 1], links[i]) ELSE f[i - 1]
    <3>1. f[i - 1] \in Seq(L)
      BY <1>2, <1>5 DEF Solution
    <3> QED
      BY <1>5, <3>1 DEF Solution
  <2>2. \A i \in 0..n : i # 0 => i \in 1..n
    BY <1>2
  <2> QED
    BY <1>5, <2>1, <2>2 DEF Solution
<1> HIDE DEF step, Kept
<1>7. PICK k : k = CHOOSE g : Kept(g)
  OBVIOUS
<1>8. LinksInScope(page) = k[n]
  BY <1>7 DEF LinksInScope, Kept, links, n
<1>8a. Kept(k)
  BY <1>6, <1>7
<1>8b. k[0] = <<>>
  BY <1>2, <1>8a DEF Kept
<1>8c. ASSUME NEW i \in 1..n
       PROVE  k[i] = IF InScope(links[i]) THEN Append(k[i - 1], links[i]) ELSE k[i - 1]
  <2>1. i \in 0..n /\ i # 0
    BY <1>2
  <2> QED
    BY <2>1, <1>8a DEF Kept, InScope
<1> DEFINE Good(i) ==
             k[i] \in Seq(L \cap site.scope) /\ ToSet(k[i]) = {links[j] : j \in 1..i} \cap site.scope
           Right == {i \in Nat : i <= n => Good(i)}
<1>9. 0 \in Right
  <2>1. ToSet(k[0]) = {} /\ k[0] \in Seq(L \cap site.scope)
    BY <1>8b, NothingInEmpty
  <2>2. Good(0)
    BY <2>1
  <2> HIDE DEF Good
  <2> QED
    BY <2>2
<1>10. \A i \in Nat : i \in Right => i + 1 \in Right
  <2> SUFFICES ASSUME NEW i \in Nat, i + 1 <= n, Good(i) PROVE Good(i + 1)
    <3> HIDE DEF Good
    <3> QED
      BY <1>2
  <2>1. k[i] \in Seq(L \cap site.scope) /\ ToSet(k[i]) = {links[j] : j \in 1..i} \cap site.scope
    OBVIOUS
  <2>2. k[i + 1] = IF InScope(links[i + 1]) THEN Append(k[i], links[i + 1]) ELSE k[i]
    BY <1>2, <1>8c
  <2>3. {links[j] : j \in 1..(i + 1)} = {links[j] : j \in 1..i} \cup {links[i + 1]}
    OBVIOUS
  <2>4. links[i + 1] \in L
    BY <1>2
  <2>5. CASE InScope(links[i + 1])
    <3>1. ToSet(k[i + 1]) = ToSet(k[i]) \cup {links[i + 1]}
      BY <2>1, <2>2, <2>5, SeqFacts
    <3>2. k[i + 1] \in Seq(L \cap site.scope)
      BY <2>1, <2>2, <2>4, <2>5, AppendProperties DEF InScope
    <3> QED
      BY <2>1, <2>3, <2>5, <3>1, <3>2 DEF InScope
  <2>6. CASE ~InScope(links[i + 1])
    BY <2>1, <2>2, <2>3, <2>6 DEF InScope
  <2> QED
    BY <2>5, <2>6
<1>11. n \in Right
  <2> HIDE DEF Right
  <2> QED
    BY <1>2, <1>9, <1>10, SetInduction
<1>12. {links[j] : j \in 1..n} = L
  BY <1>2 DEF L, ToSet
<1>13. PagesBelow(page) = L \cap site.scope
  BY DEF PagesBelow, L, links
<1> QED
  BY <1>2, <1>8, <1>11, <1>12, <1>13

(* A set as a sequence, and what a sequence lacks of a set put behind it:  *)
(* nothing comes twice.                                                    *)
LEMMA ListedOnce ==
  ASSUME NEW S, IsFiniteSet(S)
  PROVE  SetToSeq(S) \in Seq(S) /\ ToSet(SetToSeq(S)) = S /\ IsInjective(SetToSeq(S))
<1> DEFINE n == Cardinality(S)
<1>1. n \in Nat /\ ExistsBijection(1..n, S)
  BY FS_CardinalityType
<1>2. \E f \in [1..n -> S] : IsInjective(f)
  BY <1>1 DEF ExistsBijection, Bijection, Injection
<1>3. PICK f : f = SetToSeq(S)
  OBVIOUS
<1>4. f \in [1..n -> S] /\ IsInjective(f)
  BY <1>2, <1>3 DEF SetToSeq
<1>5. IsFiniteSet(1..n) /\ Cardinality(1..n) = n
  <2> HIDE DEF n
  <2>1. 1 \in Int /\ n \in Int
    BY <1>1
  <2>2. IsFiniteSet(1..n) /\ Cardinality(1..n) = IF 1 > n THEN 0 ELSE n - 1 + 1
    BY <2>1, FS_Interval
  <2> QED
    BY <1>1, <2>2
<1>6. f \in Surjection(1..n, S)
  <2>1. f \in Injection(1..n, S)
    BY <1>4 DEF Injection
  <2> QED
    BY <1>5, <2>1, FS_Injection
<1>7. f \in Seq(S) /\ Len(f) = n /\ DOMAIN f = 1..n
  BY <1>1, <1>4
<1>8. ToSet(f) = S
  BY <1>4, <1>6, <1>7 DEF Surjection, ToSet
<1> QED
  BY <1>3, <1>4, <1>7, <1>8

LEMMA AddedOnce ==
  ASSUME NEW s, s \in Seq(ToSet(s)), IsInjective(s), NEW S, IsFiniteSet(S),
         NEW t, t = s \o SetToSeq(S \ ToSet(s))
  PROVE  t \in Seq(ToSet(t)) /\ ToSet(t) = ToSet(s) \cup S /\ IsInjective(t)
<1>1. PICK r : r = SetToSeq(S \ ToSet(s))
  OBVIOUS
<1>2. r \in Seq(S \ ToSet(s)) /\ ToSet(r) = S \ ToSet(s) /\ IsInjective(r)
  BY <1>1, ListedOnce, FS_Difference
<1>3. Len(s) \in Nat /\ Len(r) \in Nat /\ DOMAIN s = 1..Len(s) /\ DOMAIN r = 1..Len(r)
  BY <1>2, LenProperties
<1>4. s \in Seq(ToSet(s) \cup S) /\ r \in Seq(ToSet(s) \cup S)
  BY <1>2, SeqMonotonic
<1>5. /\ t \in Seq(ToSet(s) \cup S) /\ Len(t) = Len(s) + Len(r)
      /\ \A i \in 1..(Len(s) + Len(r)) : t[i] = IF i <= Len(s) THEN s[i] ELSE r[i - Len(s)]
  BY <1>1, <1>4, ConcatProperties
<1>6. DOMAIN t = 1..(Len(s) + Len(r))
  BY <1>5, LenProperties
<1>7. ASSUME NEW i \in 1..Len(r) PROVE t[Len(s) + i] = r[i] /\ Len(s) + i \in DOMAIN t
  <2>1. Len(s) + i \in 1..(Len(s) + Len(r)) /\ ~(Len(s) + i <= Len(s)) /\ (Len(s) + i) - Len(s) = i
    BY <1>3
  <2>2. t[Len(s) + i] = r[(Len(s) + i) - Len(s)]
    BY <1>5, <2>1
  <2> QED
    BY <1>6, <2>1, <2>2
<1>8. \A i \in 1..Len(s) : t[i] = s[i] /\ i \in DOMAIN t
  BY <1>3, <1>5, <1>6
<1>9. ASSUME NEW i \in DOMAIN t
      PROVE  \/ i \in 1..Len(s) /\ t[i] = s[i]
             \/ i - Len(s) \in 1..Len(r) /\ t[i] = r[i - Len(s)]
  <2>1. CASE i <= Len(s)
    BY <1>3, <1>5, <1>6, <2>1
  <2>2. CASE ~(i <= Len(s))
    <3>1. i \in 1..(Len(s) + Len(r)) /\ i - Len(s) \in 1..Len(r)
      BY <1>3, <1>6, <2>2
    <3> QED
      BY <1>5, <2>2, <3>1
  <2> QED
    BY <2>1, <2>2
<1>10. ToSet(t) = ToSet(s) \cup S
  <2>1. ToSet(t) \subseteq ToSet(s) \cup ToSet(r)
    BY <1>3, <1>9 DEF ToSet
  <2>2. ToSet(s) \cup ToSet(r) \subseteq ToSet(t)
    BY <1>3, <1>7, <1>8, ZenonT(30) DEF ToSet
  <2> QED
    BY <1>2, <2>1, <2>2
<1>11. IsInjective(t)
  <2> SUFFICES ASSUME NEW i \in DOMAIN t, NEW j \in DOMAIN t, t[i] = t[j] PROVE i = j
    BY DEF IsInjective
  <2>1. \A k \in 1..Len(r) : r[k] \notin ToSet(s)
    BY <1>2, <1>3 DEF ToSet
  <2>2. \A k \in 1..Len(s) : s[k] \in ToSet(s)
    BY <1>3 DEF ToSet
  <2>3. CASE i \in 1..Len(s) /\ j \in 1..Len(s)
    BY <1>3, <1>8, <2>3 DEF IsInjective
  <2>4. CASE i \notin 1..Len(s) /\ j \notin 1..Len(s)
    <3>1. i - Len(s) = j - Len(s)
      BY <1>2, <1>3, <1>9, <2>4, ZenonT(30) DEF IsInjective
    <3> QED
      BY <1>3, <1>6, <3>1
  <2>5. CASE i \in 1..Len(s) /\ j \notin 1..Len(s)
    BY <1>8, <1>9, <2>1, <2>2, <2>5, ZenonT(30)
  <2>6. CASE i \notin 1..Len(s) /\ j \in 1..Len(s)
    BY <1>8, <1>9, <2>1, <2>2, <2>6, ZenonT(30)
  <2> QED
    BY <2>3, <2>4, <2>5, <2>6
<1> QED
  BY <1>5, <1>10, <1>11

(* A sequence without repetitions is as long as the set of its elements.   *)
LEMMA LengthIsNumber ==
  ASSUME NEW s, s \in Seq(ToSet(s)), IsInjective(s)
  PROVE  Len(s) = Cardinality(ToSet(s))
<1>1. Len(s) \in Nat /\ DOMAIN s = 1..Len(s) /\ s \in [1..Len(s) -> ToSet(s)]
  BY LenProperties
<1>2. s \in Bijection(1..Len(s), ToSet(s))
  BY <1>1 DEF Bijection, Injection, Surjection, ToSet
<1> QED
  BY <1>1, <1>2, FS_CountingElements DEF ExistsBijection

(* The root is reached, and what a page reached links to; nothing less is  *)
(* closed under links.  Likewise for the files and folders on Drive.       *)
LEMMA LinkedPagesAreClosed ==
  /\ Root \in LinkedPages /\ LinkedPages \subseteq {Root} \cup site.scope
  /\ \A p \in LinkedPages : PagesBelow(p) \subseteq LinkedPages
  /\ \A S : Root \in S /\ (\A p \in S : PagesBelow(p) \subseteq S) => LinkedPages \subseteq S
<1> DEFINE U == {Root} \cup site.scope
<1>1. \A p : PagesBelow(p) \subseteq U
  BY DEF PagesBelow
<1>2. LinkedPages = {x \in U : \A S \in SUBSET U :
                      {Root} \subseteq S /\ (\A y \in S : PagesBelow(y) \subseteq S) => x \in S}
  BY DEF LinkedPages, Closure, Closed
<1>3. ASSUME NEW S, Root \in S, \A p \in S : PagesBelow(p) \subseteq S
      PROVE  LinkedPages \subseteq S
  <2>1. {Root} \subseteq S \cap U /\ \A y \in S \cap U : PagesBelow(y) \subseteq S \cap U
    BY <1>1, <1>3
  <2> QED
    BY <1>2, <2>1
<1> QED
  BY <1>1, <1>2, <1>3

LEMMA OnDriveIsClosed ==
  ASSUME NEW page
  PROVE  /\ DriveIds(page) \subseteq OnDrive(page)
         /\ \A id \in OnDrive(page) : Entries(id) \subseteq OnDrive(page)
         /\ \A S : DriveIds(page) \subseteq S /\ (\A id \in S : Entries(id) \subseteq S)
                   => OnDrive(page) \subseteq S
<1> DEFINE U == DriveIds(page) \cup UNION {site.folders[f] : f \in DOMAIN site.folders}
<1>1. \A id : Entries(id) \subseteq U
  BY DEF Entries, IsFolder
<1>2. OnDrive(page) = {x \in U : \A S \in SUBSET U :
        DriveIds(page) \subseteq S /\ (\A y \in S : Entries(y) \subseteq S) => x \in S}
  BY DEF OnDrive, Closure, Closed
<1>3. ASSUME NEW S, DriveIds(page) \subseteq S, \A id \in S : Entries(id) \subseteq S
      PROVE  OnDrive(page) \subseteq S
  <2>1. DriveIds(page) \subseteq S \cap U /\ \A y \in S \cap U : Entries(y) \subseteq S \cap U
    BY <1>1, <1>3
  <2> QED
    BY <1>2, <2>1
<1> QED
  BY <1>1, <1>2, <1>3

(* What the walk rests on.  Pages come from links, and of a page that was  *)
(* read every link in scope has been visited or waits on the stack, unless *)
(* the page was cut off.                                                   *)
Stacked == {e.page : e \in ToSet(pages)}
WalkInv ==
  /\ site \in Sites
  /\ pages \in Seq([page : LinkedPages, depth : Nat]) /\ visited \subseteq LinkedPages
  /\ Root \in visited \cup Stacked
  /\ \A p \in visited \cap DOMAIN site.pages : p \in cut \/ PagesBelow(p) \subseteq visited \cup Stacked
  /\ search = "done" => pages = <<>>

\* What was found exists and is listed once, the files of the pages first.
FoundInv ==
  /\ found \in Seq(ToSet(found)) /\ IsInjective(found) /\ Known \subseteq AllSources
  /\ \A p \in visited \cap DOMAIN site.pages : site.files[p] \subseteq Known

\* While the Drive links of page p are followed, an id they led to waits or has
\* been dealt with: a folder was opened, a wanted file was found.
Awaiting == {e.id : e \in ToSet(pending)}
Handled(id) ==
  id \in Awaiting \/ IF IsFolder(id) THEN id \in folders ELSE (id \in site.wanted => id \in Known)
Following(p) ==
  /\ p \in ReachablePages
  /\ pending \in Seq([id : OnDrive(p), folder : BOOLEAN])
  /\ \A e \in ToSet(pending) : e.folder => IsFolder(e.id)
  /\ \A id \in DriveIds(p) : Handled(id)
  /\ \A f \in folders : \A id \in Entries(f) : Handled(id)
DriveListed(p) == ReachableOnDrive(p) \subseteq Known
DriveInv ==
  /\ search \in {"page", "done"} => \A p \in visited \cap DOMAIN site.pages : DriveListed(p)
  /\ search = "drive" =>
       \E p : Following(p) /\ \A q \in (visited \cap DOMAIN site.pages) \ {p} : DriveListed(q)

DiscoveryInv == WalkInv /\ FoundInv /\ DriveInv

-----------------------------------------------------------------------------
(* A stack, its top and what is left when it is taken; two sequences.      *)
LEMMA TakenFromStack ==
  ASSUME NEW S, NEW s \in Seq(S), s # <<>>
  PROVE  Front(s) \in Seq(S) /\ Last(s) \in S /\ ToSet(s) = ToSet(Front(s)) \cup {Last(s)}
<1>1. Len(s) \in Nat \ {0} /\ DOMAIN s = 1..Len(s) /\ s \in [1..Len(s) -> S]
  <2>1. Len(s) \in Nat /\ DOMAIN s = 1..Len(s) /\ s \in [1..Len(s) -> S]
    BY LenProperties
  <2>2. Len(s) # 0
    BY EmptySeq
  <2> QED
    BY <2>1, <2>2
<1>2. /\ Front(s) \in Seq(S) /\ Len(Front(s)) = Len(s) - 1
      /\ \A i \in 1..(Len(s) - 1) : Front(s)[i] = s[i]
  BY <1>1 DEF Front
<1>3. DOMAIN Front(s) = 1..(Len(s) - 1)
  BY <1>2, LenProperties
<1>4. ToSet(Front(s)) = {s[i] : i \in 1..(Len(s) - 1)}
  BY <1>2, <1>3 DEF ToSet
<1>5. 1..Len(s) = 1..(Len(s) - 1) \cup {Len(s)}
  BY <1>1
<1> QED
  BY <1>1, <1>2, <1>4, <1>5 DEF Last, ToSet

LEMMA ToSetOfConcat ==
  ASSUME NEW S, NEW s \in Seq(S), NEW t \in Seq(S)
  PROVE  s \o t \in Seq(S) /\ ToSet(s \o t) = ToSet(s) \cup ToSet(t)
<1>1. Len(s) \in Nat /\ Len(t) \in Nat /\ DOMAIN s = 1..Len(s) /\ DOMAIN t = 1..Len(t)
  BY LenProperties
<1>2. /\ s \o t \in Seq(S) /\ Len(s \o t) = Len(s) + Len(t)
      /\ \A i \in 1..(Len(s) + Len(t)) : (s \o t)[i] = IF i <= Len(s) THEN s[i] ELSE t[i - Len(s)]
  BY ConcatProperties
<1>3. DOMAIN (s \o t) = 1..(Len(s) + Len(t))
  BY <1>2, LenProperties
<1>4. ASSUME NEW i \in 1..Len(t) PROVE (s \o t)[Len(s) + i] = t[i] /\ Len(s) + i \in DOMAIN (s \o t)
  <2>1. Len(s) + i \in 1..(Len(s) + Len(t)) /\ ~(Len(s) + i <= Len(s)) /\ (Len(s) + i) - Len(s) = i
    BY <1>1
  <2>2. (s \o t)[Len(s) + i] = t[(Len(s) + i) - Len(s)]
    BY <1>2, <2>1
  <2> QED
    BY <1>3, <2>1, <2>2
<1>5. \A i \in 1..Len(s) : (s \o t)[i] = s[i] /\ i \in DOMAIN (s \o t)
  BY <1>1, <1>2, <1>3
<1>6. ASSUME NEW i \in DOMAIN (s \o t) PROVE (s \o t)[i] \in ToSet(s) \cup ToSet(t)
  <2>1. CASE i <= Len(s)
    BY <1>1, <1>2, <1>3, <2>1 DEF ToSet
  <2>2. CASE ~(i <= Len(s))
    <3>1. i \in 1..(Len(s) + Len(t)) /\ i - Len(s) \in 1..Len(t)
      BY <1>1, <1>3, <2>2
    <3> QED
      BY <1>1, <1>2, <2>2, <3>1 DEF ToSet
  <2> QED
    BY <2>1, <2>2
<1>7. ToSet(s \o t) \subseteq ToSet(s) \cup ToSet(t)
  BY <1>6 DEF ToSet
<1>8. ToSet(s) \cup ToSet(t) \subseteq ToSet(s \o t)
  BY <1>1, <1>4, <1>5 DEF ToSet
<1> QED
  BY <1>2, <1>7, <1>8

(* What is pushed: the pages below a page, the folders of some entries.    *)
LEMMA PushedPages ==
  ASSUME site \in Sites, NEW page \in DOMAIN site.pages, NEW depth \in Nat
  PROVE  /\ Subpages(page, depth) \in Seq([page : PagesBelow(page), depth : Nat])
         /\ depth < MaxDepth \/ LinksInScope(page) = <<>>
              => {e.page : e \in ToSet(Subpages(page, depth))} = PagesBelow(page)
<1>1. PICK l : l = LinksInScope(page)
  OBVIOUS
<1>2. l \in Seq(PagesBelow(page)) /\ ToSet(l) = PagesBelow(page)
  BY <1>1, ScopeIsKept
<1>3. Len(l) \in Nat /\ DOMAIN l = 1..Len(l) /\ \A i \in 1..Len(l) : l[i] \in PagesBelow(page)
  BY <1>2, LenProperties, ElementOfSeq
<1> DEFINE m == [i \in 1..Len(l) |-> [page |-> l[i], depth |-> depth + 1]]
<1>4. m \in Seq([page : PagesBelow(page), depth : Nat]) /\ DOMAIN m = 1..Len(l)
  <2>1. m \in [1..Len(l) -> [page : PagesBelow(page), depth : Nat]]
    BY <1>3
  <2> QED
    BY <1>3, <2>1
<1>5. Subpages(page, depth) = IF depth >= MaxDepth THEN <<>> ELSE m
  BY <1>1 DEF Subpages
<1>6. {e.page : e \in ToSet(m)} = PagesBelow(page)
  <2>1. ToSet(m) = {m[i] : i \in 1..Len(l)} /\ ToSet(l) = {l[i] : i \in 1..Len(l)}
    BY <1>3, <1>4 DEF ToSet
  <2>2. \A i \in 1..Len(l) : m[i].page = l[i]
    OBVIOUS
  <2> HIDE DEF m
  <2> QED
    BY <1>2, <2>1, <2>2, SMTT(30)
<1> HIDE DEF m
<1>7. CASE depth < MaxDepth
  <2>1. Subpages(page, depth) = m
    BY <1>5, <1>7, DepthAssumption
  <2> QED
    BY <1>4, <1>6, <2>1
<1>8. CASE ~(depth < MaxDepth)
  <2>1. Subpages(page, depth) = <<>>
    BY <1>5, <1>8, DepthAssumption
  <2>2. LinksInScope(page) = <<>> => PagesBelow(page) = {}
    BY <1>1, <1>2, NothingInEmpty
  <2> QED
    BY <1>8, <2>1, <2>2, NothingInEmpty
<1> QED
  BY <1>7, <1>8

LEMMA PushedFolders ==
  ASSUME NEW ids, IsFiniteSet(ids)
  PROVE  /\ FolderLinks(ids) \in Seq([id : ids, folder : BOOLEAN])
         /\ {e.id : e \in ToSet(FolderLinks(ids))} = ids
<1>1. PICK l : l = SetToSeq(ids)
  OBVIOUS
<1>2. l \in Seq(ids) /\ ToSet(l) = ids
  BY <1>1, ListedOnce
<1>3. Len(l) \in Nat /\ DOMAIN l = 1..Len(l) /\ \A i \in 1..Len(l) : l[i] \in ids
  BY <1>2, LenProperties, ElementOfSeq
<1> DEFINE m == [i \in 1..Len(l) |-> [id |-> l[i], folder |-> TRUE]]
<1>4. m \in Seq([id : ids, folder : BOOLEAN]) /\ DOMAIN m = 1..Len(l)
  <2>1. m \in [1..Len(l) -> [id : ids, folder : BOOLEAN]]
    BY <1>3
  <2> QED
    BY <1>3, <2>1
<1>5. {e.id : e \in ToSet(m)} = ids
  <2>1. ToSet(m) = {m[i] : i \in 1..Len(l)} /\ ToSet(l) = {l[i] : i \in 1..Len(l)}
    BY <1>3, <1>4 DEF ToSet
  <2>2. \A i \in 1..Len(l) : m[i].id = l[i]
    OBVIOUS
  <2> HIDE DEF m
  <2> QED
    BY <1>2, <2>1, <2>2, SMTT(30)
<1> QED
  BY <1>1, <1>4, <1>5 DEF FolderLinks

(* The site is the same throughout.                                        *)
LEMMA SiteIsKept ==
  ASSUME site' = site
  PROVE  /\ LinkedPages' = LinkedPages /\ ReachablePages' = ReachablePages /\ AllSources' = AllSources
         /\ \A p : /\ PagesBelow(p)' = PagesBelow(p) /\ DriveIds(p)' = DriveIds(p)
                   /\ OnDrive(p)' = OnDrive(p) /\ ReachableOnDrive(p)' = ReachableOnDrive(p)
                   /\ Entries(p)' = Entries(p) /\ IsFolder(p)' = IsFolder(p)
  BY DEF LinkedPages, ReachablePages, AllSources, PagesBelow, DriveIds, OnDrive, ReachableOnDrive,
         Entries, IsFolder, Closure, Closed

LEMMA SourcesAdded ==
  ASSUME found \in Seq(ToSet(found)), IsInjective(found), NEW S, IsFiniteSet(S), Found(S)
  PROVE  found' \in Seq(ToSet(found')) /\ IsInjective(found') /\ Known' = Known \cup S
<1>1. found' = found \o SetToSeq(S \ ToSet(found))
  BY DEF Found, Known
<1>2. ToSet(found') = ToSet(found) \cup S /\ found' \in Seq(ToSet(found')) /\ IsInjective(found')
  BY <1>1, AddedOnce
<1> QED
  BY <1>2 DEF Known

(* The walk: no link in scope is forgotten.                                *)
LEMMA TopOfPages ==
  ASSUME WalkInv, pages # <<>>
  PROVE  /\ Front(pages) \in Seq([page : LinkedPages, depth : Nat])
         /\ Top.page \in LinkedPages /\ Top.depth \in Nat
         /\ Stacked = {e.page : e \in ToSet(Front(pages))} \cup {Top.page}
<1>1. /\ Front(pages) \in Seq([page : LinkedPages, depth : Nat])
      /\ Last(pages) \in [page : LinkedPages, depth : Nat]
      /\ ToSet(pages) = ToSet(Front(pages)) \cup {Last(pages)}
  BY TakenFromStack DEF WalkInv
<1> QED
  BY <1>1 DEF Top, Stacked

LEMMA WalkStep ==
  ASSUME WalkInv, [DiscoveryNext]_pageVars
  PROVE  WalkInv' /\ site' = site
<1> USE DEF Give
<1>0. site' = site
  BY DEF DiscoveryNext, SkipPage, SkipOther, ReadPage, TooManyPages, PageFails, FinishDiscovery,
         OpenFolder, OpenFile, DriveFails, FinishPage, pageVars
<1>1. CASE UNCHANGED <<visited, pages, cut>> /\ (search' = "done" => pages = <<>>)
  BY <1>0, <1>1, SiteIsKept DEF WalkInv, Stacked
<1>2. CASE SkipPage
  <2>1. /\ pages # <<>> /\ Top.page \in visited /\ pages' = Front(pages) /\ search' = "page"
        /\ UNCHANGED <<visited, cut>>
    BY <1>2 DEF SkipPage
  <2>2. Stacked' = {e.page : e \in ToSet(Front(pages))}
    BY <2>1 DEF Stacked
  <2>3. visited' \cup Stacked' = visited \cup Stacked
    BY <2>1, <2>2, TopOfPages
  <2>4. pages' \in Seq([page : LinkedPages, depth : Nat])
    BY <2>1, TopOfPages
  <2> QED
    BY <1>0, <2>1, <2>3, <2>4, SiteIsKept DEF WalkInv
<1>3. CASE SkipOther
  <2>1. /\ pages # <<>> /\ Top.page \notin DOMAIN site.pages /\ visited' = visited \cup {Top.page}
        /\ pages' = Front(pages) /\ search' = "page" /\ cut' = cut
    BY <1>3 DEF SkipOther
  <2>2. Stacked' = {e.page : e \in ToSet(Front(pages))}
    BY <2>1 DEF Stacked
  <2>3. visited' \cup Stacked' = visited \cup Stacked
    BY <2>1, <2>2, TopOfPages
  <2>4. pages' \in Seq([page : LinkedPages, depth : Nat]) /\ visited' \subseteq LinkedPages
    BY <2>1, TopOfPages DEF WalkInv
  <2> QED
    BY <1>0, <2>1, <2>3, <2>4, SiteIsKept DEF WalkInv
<1>4. CASE ReadPage
  <2> DEFINE below == Subpages(Top.page, Top.depth)
  <2>1. /\ pages # <<>> /\ Top.page \in DOMAIN site.pages /\ visited' = visited \cup {Top.page}
        /\ pages' = Front(pages) \o below /\ search' # "done"
        /\ cut' = IF Top.depth >= MaxDepth /\ LinksInScope(Top.page) # <<>> THEN cut \cup {Top.page} ELSE cut
    BY <1>4 DEF ReadPage
  <2>2. /\ Front(pages) \in Seq([page : LinkedPages, depth : Nat])
        /\ Top.page \in LinkedPages /\ Top.depth \in Nat
        /\ Stacked = {e.page : e \in ToSet(Front(pages))} \cup {Top.page}
    BY <2>1, TopOfPages
  <2>3. /\ below \in Seq([page : PagesBelow(Top.page), depth : Nat])
        /\ Top.depth < MaxDepth \/ LinksInScope(Top.page) = <<>>
             => {e.page : e \in ToSet(below)} = PagesBelow(Top.page)
    BY <2>1, <2>2, PushedPages DEF WalkInv
  <2>4. below \in Seq([page : LinkedPages, depth : Nat])
    <3>1. [page : PagesBelow(Top.page), depth : Nat] \subseteq [page : LinkedPages, depth : Nat]
      BY <2>2, LinkedPagesAreClosed
    <3> QED
      BY <2>3, <3>1, SeqMonotonic
  <2> HIDE DEF below
  <2>5. /\ pages' \in Seq([page : LinkedPages, depth : Nat])
        /\ ToSet(pages') = ToSet(Front(pages)) \cup ToSet(below)
    BY <2>1, <2>2, <2>4, ToSetOfConcat
  <2>6. Stacked' = {e.page : e \in ToSet(Front(pages))} \cup {e.page : e \in ToSet(below)}
    BY <2>5 DEF Stacked
  <2>7. visited \cup Stacked \subseteq visited' \cup Stacked'
    BY <2>1, <2>2, <2>6
  <2>8. Top.page \in cut' \/ PagesBelow(Top.page) \subseteq Stacked'
    BY <2>1, <2>2, <2>3, <2>6, DepthAssumption
  <2>9. ASSUME NEW p \in visited' \cap DOMAIN site.pages
        PROVE  p \in cut' \/ PagesBelow(p) \subseteq visited' \cup Stacked'
    <3>1. CASE p = Top.page
      BY <2>8, <3>1
    <3>2. CASE p # Top.page
      <4>1. p \in cut \/ PagesBelow(p) \subseteq visited \cup Stacked
        BY <2>1, <3>2 DEF WalkInv
      <4> QED
        BY <2>1, <2>7, <4>1
    <3> QED
      BY <3>1, <3>2
  <2>10. visited' \subseteq LinkedPages /\ Root \in visited' \cup Stacked' /\ site \in Sites
    BY <2>1, <2>2, <2>7 DEF WalkInv
  <2> QED
    BY <1>0, <2>1, <2>5, <2>9, <2>10, SiteIsKept DEF WalkInv
<1>5. CASE TooManyPages \/ PageFails \/ FinishDiscovery \/ DriveFails \/ FinishPage
  BY <1>1, <1>5 DEF TooManyPages, PageFails, FinishDiscovery, DriveFails, FinishPage
<1>6. CASE OpenFolder \/ OpenFile \/ UNCHANGED pageVars
  <2>1. UNCHANGED <<visited, pages, cut, search>>
    BY <1>6 DEF OpenFolder, OpenFile, pageVars
  <2> QED
    BY <1>1, <2>1 DEF WalkInv
<1> QED
  BY <1>0, <1>2, <1>3, <1>4, <1>5, <1>6 DEF DiscoveryNext

(* Every source exists, and none is listed twice.                          *)
LEMMA ReachedOnDrive ==
  ASSUME NEW p, p \in ReachablePages, NEW id \in OnDrive(p), id \in site.wanted
  PROVE  id \in AllSources
  BY DEF AllSources, ReachableOnDrive

LEMMA LinkTaken ==
  ASSUME NEW p, Following(p), pending # <<>>
  PROVE  /\ Front(pending) \in Seq([id : OnDrive(p), folder : BOOLEAN])
         /\ Link.id \in OnDrive(p) /\ (Link.folder => IsFolder(Link.id))
         /\ ToSet(pending) = ToSet(Front(pending)) \cup {Link}
         /\ Awaiting = {e.id : e \in ToSet(Front(pending))} \cup {Link.id}
<1>1. /\ Front(pending) \in Seq([id : OnDrive(p), folder : BOOLEAN])
      /\ Last(pending) \in [id : OnDrive(p), folder : BOOLEAN]
      /\ ToSet(pending) = ToSet(Front(pending)) \cup {Last(pending)}
  BY TakenFromStack DEF Following
<1> QED
  BY <1>1 DEF Link, Awaiting, Following

\* What the top link of the stack leads to.
Led == IF ~Link.folder THEN {Link.id} ELSE IF Link.id \in folders THEN {} ELSE Entries(Link.id)
FoldersIn(S) == {e \in S : IsFolder(e)}
FilesIn(S) == {e \in S : ~IsFolder(e) /\ e \in site.wanted}

LEMMA LedToDrive ==
  ASSUME site \in Sites, NEW p, Following(p), pending # <<>>
  PROVE  /\ Led \subseteq OnDrive(p)
         /\ IsFiniteSet(FoldersIn(Led)) /\ IsFiniteSet(FilesIn(Led))
<1>1. Link.id \in OnDrive(p)
  BY LinkTaken
<1>2. Entries(Link.id) \subseteq OnDrive(p)
  BY <1>1, OnDriveIsClosed
<1>3. IsFiniteSet(Entries(Link.id))
  BY SitesAssumption, FS_EmptySet DEF Entries, IsFolder
<1>4. IsFiniteSet(Led)
  BY <1>3, FS_EmptySet, FS_Singleton DEF Led
<1>5. FoldersIn(Led) \in SUBSET Led /\ FilesIn(Led) \in SUBSET Led
  BY DEF FoldersIn, FilesIn
<1> QED
  BY <1>1, <1>2, <1>4, <1>5, FS_Subset DEF Led

\* A link is followed by opening its folder or looking at its file.
LEMMA FollowStep ==
  ASSUME OpenFolder \/ OpenFile
  PROVE  /\ search = "drive" /\ search' = "drive" /\ pending # <<>> /\ UNCHANGED <<site, visited>>
         /\ pending' = Front(pending) \o FolderLinks(FoldersIn(Led)) /\ Found(FilesIn(Led))
         /\ IF Link.folder THEN folders' = folders \cup {Link.id} ELSE folders' = folders
  BY DEF OpenFolder, OpenFile, Collect, Led, FoldersIn, FilesIn

LEMMA FoundStep ==
  ASSUME WalkInv, FoundInv, DriveInv, [DiscoveryNext]_pageVars
  PROVE  FoundInv' /\ Known \subseteq Known'
<1> USE DEF Give
<1>0. site' = site
  BY WalkStep
<1>1. CASE UNCHANGED <<visited, found>>
  BY <1>0, <1>1, SiteIsKept DEF FoundInv, Known
<1>2. CASE SkipOther
  <2>1. Top.page \notin DOMAIN site.pages /\ visited' = visited \cup {Top.page} /\ found' = found
    BY <1>2 DEF SkipOther
  <2> QED
    BY <1>0, <2>1, SiteIsKept DEF FoundInv, Known
<1>3. CASE ReadPage
  <2>1. /\ pages # <<>> /\ Top.page \in DOMAIN site.pages /\ visited' = visited \cup {Top.page}
        /\ Found(site.files[Top.page])
    BY <1>3 DEF ReadPage
  <2>2. IsFiniteSet(site.files[Top.page])
    BY <2>1, SitesAssumption DEF WalkInv
  <2>3. /\ found' \in Seq(ToSet(found')) /\ IsInjective(found')
        /\ Known' = Known \cup site.files[Top.page]
    BY <2>1, <2>2, SourcesAdded DEF FoundInv
  <2>4. site.files[Top.page] \subseteq AllSources
    BY <2>1, TopOfPages DEF AllSources, ReachablePages
  <2>5. Known' \subseteq AllSources /\ Known \subseteq Known'
    BY <2>3, <2>4 DEF FoundInv
  <2>6. \A p \in visited' \cap DOMAIN site.pages : site.files[p] \subseteq Known'
    BY <2>1, <2>3 DEF FoundInv
  <2> QED
    BY <1>0, <2>3, <2>5, <2>6, SiteIsKept DEF FoundInv
<1>4. CASE OpenFolder \/ OpenFile
  <2>1. search = "drive" /\ pending # <<>> /\ Found(FilesIn(Led)) /\ visited' = visited
    BY <1>4, FollowStep
  <2>2. PICK p : Following(p)
    BY <2>1 DEF DriveInv
  <2>3. IsFiniteSet(FilesIn(Led)) /\ Led \subseteq OnDrive(p)
    BY <2>1, <2>2, LedToDrive DEF WalkInv
  <2>4. found' \in Seq(ToSet(found')) /\ IsInjective(found') /\ Known' = Known \cup FilesIn(Led)
    BY <2>1, <2>3, SourcesAdded DEF FoundInv
  <2>5. FilesIn(Led) \subseteq AllSources
    BY <2>2, <2>3, ReachedOnDrive DEF FilesIn, Following
  <2>6. Known' \subseteq AllSources /\ Known \subseteq Known'
    BY <2>4, <2>5 DEF FoundInv
  <2>7. \A q \in visited' \cap DOMAIN site.pages : site.files[q] \subseteq Known'
    BY <2>1, <2>6 DEF FoundInv
  <2> QED
    BY <1>0, <2>4, <2>6, <2>7, SiteIsKept DEF FoundInv
<1> QED
  BY <1>1, <1>2, <1>3, <1>4
     DEF DiscoveryNext, SkipPage, TooManyPages, PageFails, FinishDiscovery, DriveFails, FinishPage, pageVars

(* The links to Drive: every one is followed.                              *)
LEMMA FollowedLink ==
  ASSUME site \in Sites, NEW p, Following(p), OpenFolder \/ OpenFile, Known' = Known \cup FilesIn(Led)
  PROVE  Following(p)'
<1>1. /\ pending # <<>> /\ site' = site /\ pending' = Front(pending) \o FolderLinks(FoldersIn(Led))
      /\ IF Link.folder THEN folders' = folders \cup {Link.id} ELSE folders' = folders
  BY FollowStep
<1>2. /\ Front(pending) \in Seq([id : OnDrive(p), folder : BOOLEAN])
      /\ Link.id \in OnDrive(p) /\ (Link.folder => IsFolder(Link.id))
      /\ ToSet(pending) = ToSet(Front(pending)) \cup {Link}
      /\ Awaiting = {e.id : e \in ToSet(Front(pending))} \cup {Link.id}
  BY <1>1, LinkTaken
<1>3. Led \subseteq OnDrive(p) /\ IsFiniteSet(FoldersIn(Led))
  BY <1>1, LedToDrive
<1>4. PICK pushed : pushed = FolderLinks(FoldersIn(Led))
  OBVIOUS
<1>5. pushed \in Seq([id : FoldersIn(Led), folder : BOOLEAN]) /\ {e.id : e \in ToSet(pushed)} = FoldersIn(Led)
  BY <1>3, <1>4, PushedFolders
<1>6. pushed \in Seq([id : OnDrive(p), folder : BOOLEAN])
  <2>1. [id : FoldersIn(Led), folder : BOOLEAN] \subseteq [id : OnDrive(p), folder : BOOLEAN]
    BY <1>3 DEF FoldersIn
  <2> QED
    BY <1>5, <2>1, SeqMonotonic
<1>7. /\ pending' \in Seq([id : OnDrive(p), folder : BOOLEAN])
      /\ ToSet(pending') = ToSet(Front(pending)) \cup ToSet(pushed)
  BY <1>1, <1>2, <1>4, <1>6, ToSetOfConcat
<1>8. Awaiting' = {e.id : e \in ToSet(Front(pending))} \cup FoldersIn(Led)
  BY <1>5, <1>7 DEF Awaiting
<1>9. ASSUME NEW e \in ToSet(pending'), e.folder PROVE IsFolder(e.id)
  <2>1. CASE e \in ToSet(Front(pending))
    BY <1>2, <1>9, <2>1 DEF Following
  <2>2. CASE e \in ToSet(pushed)
    BY <1>5, <2>2 DEF FoldersIn
  <2> QED
    BY <1>7, <2>1, <2>2
<1>10. \A id : Handled(id)' <=> (id \in Awaiting' \/ IF IsFolder(id) THEN id \in folders'
                                               ELSE (id \in site.wanted => id \in Known'))
  BY <1>1, SiteIsKept DEF Handled
<1>11. ASSUME NEW id, Handled(id) PROVE Handled(id)'
  <2>1. CASE id = Link.id /\ Link.folder
    BY <1>1, <1>2, <1>10, <2>1
  <2>2. CASE id = Link.id /\ ~Link.folder
    BY <1>8, <1>10, <2>2 DEF Led, FoldersIn, FilesIn
  <2>3. CASE id # Link.id
    BY <1>1, <1>2, <1>8, <1>10, <1>11, <2>3 DEF Handled
  <2> QED
    BY <2>1, <2>2, <2>3
<1>12. ASSUME NEW f \in folders', NEW id \in Entries(f) PROVE Handled(id)'
  <2>1. CASE f \in folders
    BY <1>11, <2>1 DEF Following
  <2>2. CASE f \notin folders
    <3>1. f = Link.id /\ Link.folder
      BY <1>1, <2>2
    <3>2. id \in Led
      BY <2>2, <3>1 DEF Led
    <3> QED
      BY <1>8, <1>10, <3>2 DEF FoldersIn, FilesIn
  <2> QED
    BY <2>1, <2>2
<1>13. \A id \in DriveIds(p) : Handled(id)'
  BY <1>11 DEF Following
<1>14. p \in ReachablePages
  BY DEF Following
<1> QED
  BY <1>1, <1>7, <1>9, <1>12, <1>13, <1>14, SiteIsKept DEF Following

LEMMA LastLinkFollowed ==
  ASSUME site \in Sites, NEW p, Following(p), pending = <<>>
  PROVE  DriveListed(p)
<1>1. Awaiting = {}
  BY NothingInEmpty DEF Awaiting
<1> DEFINE S == {id \in OnDrive(p) : Handled(id)}
<1>2. DriveIds(p) \subseteq S
  BY OnDriveIsClosed DEF Following
<1>3. ASSUME NEW id \in S PROVE Entries(id) \subseteq S
  <2>1. CASE IsFolder(id)
    <3>1. id \in folders
      BY <1>1, <2>1 DEF Handled
    <3> QED
      BY <3>1, OnDriveIsClosed DEF Following
  <2>2. CASE ~IsFolder(id)
    BY <2>2 DEF Entries
  <2> QED
    BY <2>1, <2>2
<1>4. OnDrive(p) \subseteq S
  <2> HIDE DEF S
  <2> QED
    BY <1>2, <1>3, OnDriveIsClosed
<1>5. \A id \in site.wanted : ~IsFolder(id)
  BY SitesAssumption DEF IsFolder
<1> QED
  BY <1>1, <1>4, <1>5 DEF DriveListed, ReachableOnDrive, Handled

LEMMA NothingLinked ==
  ASSUME NEW p, DriveIds(p) = {}
  PROVE  ReachableOnDrive(p) = {}
<1>1. OnDrive(p) \subseteq {}
  BY OnDriveIsClosed
<1> QED
  BY <1>1 DEF ReachableOnDrive

LEMMA DriveStep ==
  ASSUME WalkInv, FoundInv, DriveInv, [DiscoveryNext]_pageVars
  PROVE  DriveInv'
<1> USE DEF Give
<1>0. site' = site /\ Known \subseteq Known' /\ site \in Sites
  BY WalkStep, FoundStep DEF WalkInv
<1>1. \A p : DriveListed(p) => DriveListed(p)'
  BY <1>0, SiteIsKept DEF DriveListed
<1>2. CASE search = "page" /\ search' \in {"page", "done"} /\ visited' \cap DOMAIN site.pages = visited \cap DOMAIN site.pages
  BY <1>0, <1>1, <1>2 DEF DriveInv
<1>3. CASE SkipPage \/ FinishDiscovery
  BY <1>2, <1>3 DEF SkipPage, FinishDiscovery
<1>4. CASE SkipOther
  BY <1>2, <1>4 DEF SkipOther
<1>5. CASE ReadPage
  <2>1. /\ search = "page" /\ Top.page \in DOMAIN site.pages /\ pages # <<>> /\ visited' = visited \cup {Top.page}
        /\ pending' = site.drive[Top.page] /\ folders' = {}
        /\ search' = IF pending' = <<>> THEN "page" ELSE IF HasKey THEN "drive" ELSE "failed"
    BY <1>5 DEF ReadPage
  <2>2. \A p \in (visited' \cap DOMAIN site.pages) \ {Top.page} : DriveListed(p)'
    BY <1>1, <2>1 DEF DriveInv
  <2>3. CASE pending' = <<>>
    <3>1. DriveIds(Top.page) = {}
      BY <2>1, <2>3 DEF DriveIds
    <3>2. PICK p : p = Top.page
      OBVIOUS
    <3>3. ReachableOnDrive(p)' = {}
      BY <1>0, <3>1, <3>2, NothingLinked, SiteIsKept
    <3>4. DriveListed(p)'
      BY <3>3 DEF DriveListed
    <3> QED
      BY <1>0, <2>1, <2>2, <2>3, <3>2, <3>4 DEF DriveInv
  <2>4. CASE pending' # <<>> /\ HasKey
    <3>1. PICK p : p = Top.page
      OBVIOUS
    <3>2. p \in ReachablePages
      BY <2>1, <3>1, TopOfPages DEF ReachablePages
    <3>3. /\ pending' \in Seq([id : DriveIds(p), folder : BOOLEAN])
          /\ \A i \in DOMAIN pending' : pending'[i].folder => IsFolder(pending'[i].id)
      <4>1. PICK l : l = site.drive[p]
        OBVIOUS
      <4>2. p \in DOMAIN site.pages /\ site \in Sites
        BY <1>0, <2>1, <3>1
      <4>3. l \in Seq([id : {l[i].id : i \in DOMAIN l}, folder : BOOLEAN])
        BY <4>1, <4>2, SitesAssumption
      <4>4. \A i \in DOMAIN l : l[i].folder => IsFolder(l[i].id)
        BY <4>1, <4>2, SitesAssumption DEF IsFolder
      <4>5. DriveIds(p) = {l[i].id : i \in DOMAIN l}
        BY <4>1 DEF DriveIds
      <4> QED
        BY <2>1, <3>1, <4>1, <4>3, <4>4, <4>5
    <3>4. pending' \in Seq([id : OnDrive(p), folder : BOOLEAN])
      <4>1. [id : DriveIds(p), folder : BOOLEAN] \subseteq [id : OnDrive(p), folder : BOOLEAN]
        BY OnDriveIsClosed
      <4> QED
        BY <3>3, <4>1, SeqMonotonic
    <3>5. \A e \in ToSet(pending') : e.folder => IsFolder(e.id)
      BY <3>3 DEF ToSet
    <3>6. Awaiting' = DriveIds(p)
      BY <2>1, <3>1 DEF Awaiting, DriveIds, ToSet
    <3>7. \A id \in DriveIds(p) : Handled(id)'
      BY <3>6 DEF Handled
    <3>8. Following(p)'
      BY <1>0, <2>1, <3>2, <3>4, <3>5, <3>7, SiteIsKept DEF Following
    <3> QED
      BY <1>0, <2>1, <2>2, <2>4, <3>1, <3>8 DEF DriveInv
  <2>5. CASE pending' # <<>> /\ ~HasKey
    BY <2>1, <2>5 DEF DriveInv
  <2> QED
    BY <2>3, <2>4, <2>5
<1>6. CASE OpenFolder \/ OpenFile
  <2>1. search = "drive" /\ search' = "drive" /\ pending # <<>> /\ Found(FilesIn(Led)) /\ visited' = visited
    BY <1>6, FollowStep
  <2>2. PICK p : Following(p) /\ \A q \in (visited \cap DOMAIN site.pages) \ {p} : DriveListed(q)
    BY <2>1 DEF DriveInv
  <2>3. IsFiniteSet(FilesIn(Led))
    BY <1>0, <2>1, <2>2, LedToDrive
  <2>4. Known' = Known \cup FilesIn(Led)
    BY <2>1, <2>3, SourcesAdded DEF FoundInv
  <2>5. Following(p)'
    BY <1>0, <1>6, <2>2, <2>4, FollowedLink
  <2>6. \A q \in (visited' \cap DOMAIN site'.pages) \ {p} : DriveListed(q)'
    BY <1>0, <1>1, <2>1, <2>2
  <2> QED
    BY <2>1, <2>5, <2>6 DEF DriveInv
<1>7. CASE FinishPage
  <2>1. search = "drive" /\ search' = "page" /\ pending = <<>> /\ visited' = visited
    BY <1>7 DEF FinishPage
  <2>2. PICK p : Following(p) /\ \A q \in (visited \cap DOMAIN site.pages) \ {p} : DriveListed(q)
    BY <2>1 DEF DriveInv
  <2>3. DriveListed(p)
    BY <1>0, <2>1, <2>2, LastLinkFollowed
  <2>4. \A q \in visited' \cap DOMAIN site'.pages : DriveListed(q)'
    BY <1>0, <1>1, <2>1, <2>2, <2>3
  <2> QED
    BY <2>1, <2>4 DEF DriveInv
<1>8. CASE TooManyPages \/ PageFails \/ DriveFails
  BY <1>8 DEF TooManyPages, PageFails, DriveFails, DriveInv
<1>9. CASE UNCHANGED pageVars
  <2>1. UNCHANGED <<search, visited, pending, folders, found>>
    BY <1>9 DEF pageVars
  <2>2. \A p : Following(p) => Following(p)'
    <3>1. \A id : Handled(id) => Handled(id)'
      BY <1>0, <2>1, SiteIsKept DEF Handled, Awaiting, Known
    <3> QED
      BY <1>0, <2>1, <3>1, SiteIsKept DEF Following
  <2> QED
    BY <1>0, <1>1, <2>1, <2>2 DEF DriveInv
<1> QED
  BY <1>3, <1>4, <1>5, <1>6, <1>7, <1>8, <1>9 DEF DiscoveryNext

LEMMA DiscoveryStart == DiscoveryInit => DiscoveryInv
<1> SUFFICES ASSUME DiscoveryInit PROVE DiscoveryInv
  OBVIOUS
<1> USE DEF DiscoveryInit
<1>1. Stacked = {Root}
  BY DEF Stacked, ToSet
<1>2. WalkInv
  BY <1>1, LinkedPagesAreClosed DEF WalkInv
<1>3. FoundInv
  BY NothingInEmpty DEF FoundInv, Known, IsInjective
<1>4. DriveInv
  BY DEF DriveInv
<1> QED
  BY <1>2, <1>3, <1>4 DEF DiscoveryInv

(* Of any site, whatever its pages and folders link to, discovery lists    *)
(* nothing twice, nothing that is not there, and, unless it was cut off,   *)
(* all there is: discover_sources and collect_drive_files.                 *)
THEOREM DiscoveryAlwaysExact == DiscoverySpec => []DiscoveryIsExact
<1>1. DiscoveryInit => DiscoveryInv
  BY DiscoveryStart
<1>2. DiscoveryInv /\ [DiscoveryNext]_pageVars => DiscoveryInv'
  BY WalkStep, FoundStep, DriveStep DEF DiscoveryInv
<1>3. DiscoveryInv => DiscoveryIsExact
  <2> SUFFICES ASSUME DiscoveryInv PROVE DiscoveryIsExact
    OBVIOUS
  <2>1. Len(found) = Cardinality(Known)
    BY LengthIsNumber DEF DiscoveryInv, FoundInv, Known
  <2>2. ASSUME search = "done", cut = {} PROVE AllSources \subseteq Known
    <3>1. pages = <<>> /\ Stacked = {}
      BY <2>2, NothingInEmpty DEF DiscoveryInv, WalkInv, Stacked
    <3>2. \A p \in visited : PagesBelow(p) \subseteq visited
      BY <2>2, <3>1 DEF DiscoveryInv, WalkInv, PagesBelow
    <3>3. LinkedPages \subseteq visited
      BY <3>1, <3>2, LinkedPagesAreClosed DEF DiscoveryInv, WalkInv
    <3>4. ASSUME NEW p \in ReachablePages PROVE site.files[p] \cup ReachableOnDrive(p) \subseteq Known
      <4>1. p \in visited \cap DOMAIN site.pages
        BY <3>3 DEF ReachablePages
      <4> QED
        BY <2>2, <4>1 DEF DiscoveryInv, FoundInv, DriveInv, DriveListed
    <3> QED
      BY <3>4 DEF AllSources
  <2> QED
    BY <2>1, <2>2 DEF DiscoveryIsExact, DiscoveryInv, FoundInv
<1> QED
  BY <1>1, <1>2, <1>3, PTL DEF DiscoverySpec

-----------------------------------------------------------------------------
(* ArchiveVisit.                                                           *)

Tallies == [handed : Seq(Archives \X Nat), entries : Nat, expanded : Nat, depth : Nat]
Levels == [archive : Archives, next : Nat \ {0}]

\* The k-th archive of the stack: what is read of it so far, what there is in it.
ReadOf(level, k) == ReadUpTo(level.archive, WholeAt[MaxArchiveDepth - k])
Total(level, k) == WholeAt[MaxArchiveDepth - k + 1][level.archive]

\* The members read in full: of the archives below the top one, not the one entered.
InFullOf(s, k) == IF k = Len(s) THEN s[k].next - 1 ELSE s[k].next - 2

(* Each archive of the stack is a member of the one below, which is read up*)
(* to it, and no archive read is nested too deep.                          *)
Nesting(a, s) ==
  /\ s \in Seq(Levels) /\ Len(s) \in 1..MaxArchiveDepth /\ s[1].archive = a
  /\ \A k \in 1..Len(s) : s[k].next <= Len(MembersOf[s[k].archive]) + 1
  /\ \A k \in 1..(Len(s) - 1) :
       /\ s[k].next >= 2
       /\ LET m == MembersOf[s[k].archive][s[k].next - 1] IN m.kind = "zip" /\ m.zip = s[k + 1].archive
Shallow(s) ==
  \A k \in 1..Len(s) : ReadOf(s[k], k)[InFullOf(s, k)].depth <= MaxArchiveDepth - k + 1

(* What was read before each archive of the stack, and what is read of the *)
(* top one, make up what has been handed on and counted; the whole of each *)
(* is part of the whole archive.                                           *)
Precedes(s, b) ==
  /\ b \in [1..Len(s) -> Tallies] /\ b[1] = Unread
  /\ \A k \in 1..(Len(s) - 1) :
       b[k + 1] = Joined(Joined(b[k], ReadOf(s[k], k)[s[k].next - 2]), Alone(s[k].archive, s[k].next - 1))
PartOf(a, s, b) ==
  \A k \in 1..Len(s) :
    /\ b[k].entries + Total(s[k], k).entries <= Whole(a).entries
    /\ b[k].expanded + Total(s[k], k).expanded <= Whole(a).expanded
    /\ k - 1 + Total(s[k], k).depth <= Whole(a).depth
SoFar(s, b) == Joined(b[Len(s)], ReadOf(s[Len(s)], Len(s))[s[Len(s)].next - 1])
Counts(total, e, x, hs) == total.entries = e /\ total.expanded = x /\ total.handed = hs

Accounted(a, s, e, x, hs) ==
  \E b : Precedes(s, b) /\ PartOf(a, s, b) /\ Counts(SoFar(s, b), e, x, hs)

ArchiveInv ==
  /\ archive \in Archives /\ entries \in 0..MaxEntries /\ expanded \in 0..MaxExpanded
  /\ visit = "reading" =>
       /\ Nesting(archive, open) /\ Shallow(open)
       /\ Accounted(archive, open, entries, expanded, handed)
  /\ ArchiveIsWhole

(* What a member may be, and what it adds to what is read.                 *)
LEMMA MemberKinds ==
  ASSUME NEW a \in Archives, NEW i \in 1..Len(MembersOf[a])
  PROVE  LET m == MembersOf[a][i] IN
         /\ m.kind \in {"directory", "file", "other", "zip"} /\ m.size \in Nat
         /\ m.kind = "zip" => m.zip \in Archives
<1> DEFINE plain == [kind : {"directory", "file", "other"}, size : Nat, zip : STRING]
           zips == [kind : {"zip"}, size : Nat, zip : Archives]
<1>1. MembersOf[a] \in Seq(plain \cup zips)
  BY MembersAssumption DEF MembersAssumption
<1>2. MembersOf[a][i] \in plain \cup zips
  <2> HIDE DEF plain, zips
  <2> QED
    BY <1>1, ElementOfSeq
<1> QED
  BY <1>2

LEMMA MembersAreCounted == \A a \in Archives : Len(MembersOf[a]) \in Nat
  BY MembersAssumption DEF MembersAssumption

LEMMA AddedUp ==
  ASSUME NEW r \in Tallies, NEW t \in Tallies
  PROVE  Joined(r, t) \in Tallies
<1>1. r.handed \o t.handed \in Seq(Archives \X Nat)
  BY ConcatProperties DEF Tallies
<1> QED
  BY <1>1 DEF Tallies, Joined

LEMMA TallyFields ==
  ASSUME NEW r \in Tallies
  PROVE  r.handed \in Seq(Archives \X Nat) /\ r.entries \in Nat /\ r.expanded \in Nat /\ r.depth \in Nat
BY DEF Tallies

LEMMA JoinedFields ==
  ASSUME NEW r, NEW t
  PROVE  /\ Joined(r, t).handed = r.handed \o t.handed
         /\ Joined(r, t).entries = r.entries + t.entries
         /\ Joined(r, t).expanded = r.expanded + t.expanded
         /\ Joined(r, t).depth = IF r.depth > t.depth THEN r.depth ELSE t.depth
BY DEF Joined

LEMMA JoinedInAnyGrouping ==
  ASSUME NEW r \in Tallies, NEW t \in Tallies, NEW u \in Tallies
  PROVE  Joined(Joined(r, t), u) = Joined(r, Joined(t, u))
<1>1. PICK rt : rt = Joined(r, t)
  OBVIOUS
<1>2. PICK tu : tu = Joined(t, u)
  OBVIOUS
<1>3. /\ rt.handed = r.handed \o t.handed
      /\ rt.entries = r.entries + t.entries
      /\ rt.expanded = r.expanded + t.expanded
      /\ rt.depth = IF r.depth > t.depth THEN r.depth ELSE t.depth
  BY <1>1 DEF Joined
<1>4. /\ tu.handed = t.handed \o u.handed
      /\ tu.entries = t.entries + u.entries
      /\ tu.expanded = t.expanded + u.expanded
      /\ tu.depth = IF t.depth > u.depth THEN t.depth ELSE u.depth
  BY <1>2 DEF Joined
<1>5. rt.handed \o u.handed = r.handed \o tu.handed
  <2>1. /\ r.handed \in Seq(Archives \X Nat) /\ t.handed \in Seq(Archives \X Nat)
        /\ u.handed \in Seq(Archives \X Nat)
    BY TallyFields
  <2>2. (r.handed \o t.handed) \o u.handed = r.handed \o (t.handed \o u.handed)
    <3>1. PICK S : S = Archives \X Nat
      OBVIOUS
    <3>2. PICK x, y, z : x = r.handed /\ y = t.handed /\ z = u.handed
      OBVIOUS
    <3>3. x \in Seq(S) /\ y \in Seq(S) /\ z \in Seq(S)
      BY <2>1, <3>1, <3>2
    <3>4. (x \o y) \o z = x \o (y \o z)
      BY <3>3, ConcatAssociative
    <3> QED
      BY <3>2, <3>4
  <2> QED
    BY <1>3, <1>4, <2>2
<1>6. r.entries \in Nat /\ t.entries \in Nat /\ u.entries \in Nat
  BY TallyFields
<1>7. r.expanded \in Nat /\ t.expanded \in Nat /\ u.expanded \in Nat
  BY TallyFields
<1>8. r.depth \in Nat /\ t.depth \in Nat /\ u.depth \in Nat
  BY TallyFields
<1>9. rt.entries + u.entries = r.entries + tu.entries
  <2>1. rt.entries = r.entries + t.entries /\ tu.entries = t.entries + u.entries
    BY <1>3, <1>4
  <2> QED
    BY <1>6, <2>1
<1>10. rt.expanded + u.expanded = r.expanded + tu.expanded
  <2>1. rt.expanded = r.expanded + t.expanded /\ tu.expanded = t.expanded + u.expanded
    BY <1>3, <1>4
  <2> QED
    BY <1>7, <2>1
<1>11. (IF rt.depth > u.depth THEN rt.depth ELSE u.depth) = (IF r.depth > tu.depth THEN r.depth ELSE tu.depth)
  <2>1. /\ rt.depth = IF r.depth > t.depth THEN r.depth ELSE t.depth
        /\ tu.depth = IF t.depth > u.depth THEN t.depth ELSE u.depth
    BY <1>3, <1>4
  <2> QED
    BY <1>8, <2>1
<1>12. Joined(rt, u) = Joined(r, tu)
  BY <1>5, <1>9, <1>10, <1>11 DEF Joined
<1> QED
  BY <1>1, <1>2, <1>12

AtMost(r, t) == r.entries <= t.entries /\ r.expanded <= t.expanded /\ r.depth <= t.depth

LEMMA MoreIsRead ==
  ASSUME NEW q \in Tallies, NEW r \in Tallies, NEW t \in Tallies
  PROVE  /\ AtMost(q, q) /\ AtMost(q, Joined(q, r))
         /\ AtMost(q, r) /\ AtMost(r, t) => AtMost(q, t)
<1>1. /\ q.entries \in Nat /\ q.expanded \in Nat /\ q.depth \in Nat
      /\ r.entries \in Nat /\ r.expanded \in Nat /\ r.depth \in Nat
      /\ t.entries \in Nat /\ t.expanded \in Nat /\ t.depth \in Nat
  BY TallyFields
<1>2. AtMost(q, q)
  BY <1>1 DEF AtMost
<1>3. AtMost(q, Joined(q, r))
  <2>1. PICK s : s = Joined(q, r)
    OBVIOUS
  <2>2. s.entries = q.entries + r.entries
    BY <2>1, JoinedFields
  <2>3. s.expanded = q.expanded + r.expanded
    BY <2>1, JoinedFields
  <2>4. s.depth = IF q.depth > r.depth THEN q.depth ELSE r.depth
    BY <2>1, JoinedFields
  <2>5. AtMost(q, s)
    BY <1>1, <2>2, <2>3, <2>4 DEF AtMost
  <2> QED
    BY <2>1, <2>5
<1>4. AtMost(q, r) /\ AtMost(r, t) => AtMost(q, t)
  BY <1>1 DEF AtMost
<1> QED
  BY <1>2, <1>3, <1>4

LEMMA OneMember ==
  ASSUME NEW a \in Archives, NEW i \in 1..Len(MembersOf[a]), NEW nested \in [Archives -> Tallies]
  PROVE  /\ Alone(a, i) \in Tallies /\ InFull(a, i, nested) \in Tallies
         /\ InFull(a, i, nested).entries >= 1 /\ InFull(a, i, nested).depth >= 1
<1> DEFINE m == MembersOf[a][i]
           inside == [nested[m.zip] EXCEPT !.depth = @ + 1]
<1>1. m.kind \in {"directory", "file", "other", "zip"} /\ m.size \in Nat
  BY MemberKinds
<1>2. <<a, i>> \in Archives \X Nat /\ <<<<a, i>>>> \in Seq(Archives \X Nat)
  BY MembersAreCounted
<1>3. Alone(a, i) \in Tallies /\ Alone(a, i).entries = 1 /\ Alone(a, i).depth = 1
  <2> DEFINE h == IF m.kind = "file" THEN <<<<a, i>>>> ELSE <<>>
             x == IF m.kind = "directory" THEN 0 ELSE m.size
  <2>1. h \in Seq(Archives \X Nat) /\ x \in Nat
    <3>1. <<>> \in Seq(Archives \X Nat)
      BY EmptySeq
    <3>2. x \in Nat
      <4> HIDE DEF m
      <4> QED
        BY <1>1
    <3>3. h \in Seq(Archives \X Nat)
      <4> HIDE DEF m
      <4> QED
        BY <1>2, <3>1
    <3> QED
      BY <3>2, <3>3
  <2>2. Alone(a, i) = [handed |-> h, entries |-> 1, expanded |-> x, depth |-> 1]
    BY DEF Alone
  <2> HIDE DEF h, x
  <2> QED
    BY <2>1, <2>2 DEF Tallies
<1>4. CASE m.kind = "zip"
  <2>1. nested[m.zip] \in Tallies
    BY <1>4, MemberKinds
  <2>2. inside \in Tallies
    <3>1. PICK r : r = nested[m.zip]
      OBVIOUS
    <3>2. r \in Tallies
      BY <2>1, <3>1
    <3>3. r = [handed |-> r.handed, entries |-> r.entries, expanded |-> r.expanded, depth |-> r.depth]
      BY <3>2 DEF Tallies
    <3>4. r.handed \in Seq(Archives \X Nat) /\ r.entries \in Nat /\ r.expanded \in Nat /\ r.depth + 1 \in Nat
      BY <3>2 DEF Tallies
    <3>5. [r EXCEPT !.depth = r.depth + 1]
             = [handed |-> r.handed, entries |-> r.entries, expanded |-> r.expanded, depth |-> r.depth + 1]
      BY <3>3
    <3>6. [r EXCEPT !.depth = r.depth + 1] \in Tallies
      BY <3>4, <3>5 DEF Tallies
    <3> QED
      BY <3>1, <3>6
  <2>3. InFull(a, i, nested) = Joined(Alone(a, i), inside)
    BY <1>4 DEF InFull
  <2>4. Joined(Alone(a, i), inside).entries >= 1 /\ Joined(Alone(a, i), inside).depth >= 1
    <3> HIDE DEF inside
    <3> QED
      BY <1>3, <2>2 DEF Joined, Tallies
  <2> QED
    BY <1>3, <2>2, <2>3, <2>4, AddedUp
<1>5. CASE m.kind # "zip"
  BY <1>3, <1>5 DEF InFull
<1> QED
  BY <1>4, <1>5

(* What is read of an archive member by member, and of nested archives     *)
(* level by level.                                                         *)
LEMMA ReadingOf ==
  ASSUME NEW a \in Archives, NEW nested \in [Archives -> Tallies]
  PROVE  LET n == Len(MembersOf[a])
             read == ReadUpTo(a, nested)
         IN /\ n \in Nat /\ read \in [0..n -> Tallies] /\ read[0] = Unread
            /\ \A i \in 1..n : read[i] = Joined(read[i - 1], InFull(a, i, nested))
<1> DEFINE n == Len(MembersOf[a])
           Kept(g) == g = [i \in 0..n |->
             IF i = 0 THEN Unread ELSE Joined(g[i - 1], InFull(a, i, nested))]
           step == [x \in (1..n) \X Tallies |-> Joined(x[2], InFull(a, x[1], nested))]
<1>1. n \in Nat
  BY MembersAreCounted
<1>2. step \in Steps(n, Tallies)
  <2> SUFFICES ASSUME NEW i \in 1..n, NEW r \in Tallies PROVE Joined(r, InFull(a, i, nested)) \in Tallies
    BY DEF Steps
  <2>1. InFull(a, i, nested) \in Tallies
    BY OneMember
  <2> QED
    BY <2>1, AddedUp
<1>3. Unread \in Tallies
  BY DEF Unread, Tallies
<1> HIDE DEF n
<1>4. PICK f : Solution(f, n, Tallies, Unread, step)
  <2> HIDE DEF step
  <2> QED
    BY <1>1, <1>2, <1>3, Recursion
<1>5. Kept(f)
  <2>1. ASSUME NEW i \in 1..n PROVE f[i] = Joined(f[i - 1], InFull(a, i, nested))
    <3>1. f[i - 1] \in Tallies
      BY <1>1, <1>4 DEF Solution
    <3> QED
      BY <1>4, <3>1 DEF Solution
  <2>2. \A i \in 0..n : i # 0 => i \in 1..n
    BY <1>1
  <2> QED
    BY <1>4, <2>1, <2>2 DEF Solution
<1> HIDE DEF Kept, step
<1>6. PICK k : k = CHOOSE g : Kept(g)
  OBVIOUS
<1>7. ReadUpTo(a, nested) = k
  BY <1>6 DEF ReadUpTo, Kept, n
<1>8. Kept(k)
  BY <1>5, <1>6
<1>9. k[0] = Unread /\ DOMAIN k = 0..n
  BY <1>1, <1>8 DEF Kept
<1>10. ASSUME NEW i \in 1..n PROVE k[i] = Joined(k[i - 1], InFull(a, i, nested))
  <2>1. i \in 0..n /\ i # 0
    BY <1>1
  <2> QED
    BY <2>1, <1>8 DEF Kept
<1> DEFINE Right == {i \in Nat : i <= n => k[i] \in Tallies}
<1>11. 0 \in Right
  BY <1>3, <1>9
<1>12. \A i \in Nat : i \in Right => i + 1 \in Right
  <2> SUFFICES ASSUME NEW i \in Nat, i + 1 <= n, k[i] \in Tallies PROVE k[i + 1] \in Tallies
    BY <1>1
  <2>1. i + 1 \in 1..n /\ (i + 1) - 1 = i
    BY <1>1
  <2>2. InFull(a, i + 1, nested) \in Tallies
    BY <2>1, OneMember DEF n
  <2>3. k[i + 1] = Joined(k[i], InFull(a, i + 1, nested))
    BY <1>10, <2>1
  <2> QED
    BY <2>2, <2>3, AddedUp
<1>13. \A i \in 0..n : k[i] \in Tallies
  <2>1. \A i \in Nat : i \in Right
    <3> HIDE DEF Right
    <3> QED
      BY <1>11, <1>12, SetInduction
  <2> QED
    BY <1>1, <2>1
<1>14. k \in [0..n -> Tallies]
  BY <1>8, <1>9, <1>13 DEF Kept
<1> QED
  BY <1>1, <1>7, <1>9, <1>10, <1>14 DEF n

LEMMA WholeOf ==
  /\ WholeAt \in [0..MaxArchiveDepth -> [Archives -> Tallies]]
  /\ \A a \in Archives : WholeAt[0][a] = Unread
  /\ \A l \in 1..MaxArchiveDepth : \A a \in Archives :
       WholeAt[l][a] = ReadUpTo(a, WholeAt[l - 1])[Len(MembersOf[a])]
<1> DEFINE n == MaxArchiveDepth
           T == [Archives -> Tallies]
           base == [a \in Archives |-> Unread]
           Kept(g) == g = [l \in 0..n |->
             IF l = 0 THEN [a \in Archives |-> Unread]
             ELSE LET nested == g[l - 1] IN
                  [a \in Archives |-> ReadUpTo(a, nested)[Len(MembersOf[a])]]]
           step == [x \in (1..n) \X T |-> [a \in Archives |-> ReadUpTo(a, x[2])[Len(MembersOf[a])]]]
<1>1. n \in Nat
  BY LimitsAssumption DEF LimitsAssumption
<1>2. base \in T
  BY DEF Unread, Tallies
<1>3. step \in Steps(n, T)
  <2> SUFFICES ASSUME NEW nested \in T, NEW a \in Archives
               PROVE ReadUpTo(a, nested)[Len(MembersOf[a])] \in Tallies
    BY DEF Steps
  <2>1. PICK r : r = ReadUpTo(a, nested)
    OBVIOUS
  <2>2. Len(MembersOf[a]) \in Nat /\ r \in [0..Len(MembersOf[a]) -> Tallies]
    BY <2>1, ReadingOf
  <2> QED
    BY <2>1, <2>2
<1>4. PICK f : Solution(f, n, T, base, step)
  <2> HIDE DEF step, base, T, n
  <2> QED
    BY <1>1, <1>2, <1>3, Recursion
<1>5. Kept(f)
  <2> HIDE DEF T
  <2>1. ASSUME NEW l \in 1..n PROVE f[l] = [a \in Archives |-> ReadUpTo(a, f[l - 1])[Len(MembersOf[a])]]
    <3>1. f[l - 1] \in T
      BY <1>1, <1>4 DEF Solution
    <3> QED
      BY <1>4, <3>1 DEF Solution
  <2>2. \A l \in 0..n : l # 0 => l \in 1..n
    BY <1>1
  <2> QED
    BY <1>4, <2>1, <2>2 DEF Solution
<1> HIDE DEF Kept, step
<1>6. PICK k : k = CHOOSE g : Kept(g)
  OBVIOUS
<1>7. WholeAt = k
  BY <1>6 DEF WholeAt, Kept
<1>8. Kept(k)
  BY <1>5, <1>6
<1>9. DOMAIN k = 0..n /\ k[0] = base
  BY <1>1, <1>8 DEF Kept
<1>10. ASSUME NEW l \in 1..n PROVE k[l] = [a \in Archives |-> ReadUpTo(a, k[l - 1])[Len(MembersOf[a])]]
  <2>1. l \in 0..n /\ l # 0
    BY <1>1
  <2> QED
    BY <2>1, <1>8 DEF Kept
<1> DEFINE Right == {l \in Nat : l <= n => k[l] \in T}
<1>11. 0 \in Right
  <2> HIDE DEF T, base
  <2> QED
    BY <1>2, <1>9
<1>12. \A l \in Nat : l \in Right => l + 1 \in Right
  <2> SUFFICES ASSUME NEW l \in Nat, l + 1 <= n, k[l] \in T PROVE k[l + 1] \in T
    <3> HIDE DEF T
    <3> QED
      BY <1>1
  <2>1. l + 1 \in 1..n /\ (l + 1) - 1 = l
    BY <1>1
  <2>2. k[l + 1] = [a \in Archives |-> ReadUpTo(a, k[l])[Len(MembersOf[a])]]
    BY <1>10, <2>1
  <2>3. ASSUME NEW a \in Archives PROVE ReadUpTo(a, k[l])[Len(MembersOf[a])] \in Tallies
    <3>1. PICK r : r = ReadUpTo(a, k[l])
      OBVIOUS
    <3>2. Len(MembersOf[a]) \in Nat /\ r \in [0..Len(MembersOf[a]) -> Tallies]
      BY <3>1, ReadingOf
    <3> QED
      BY <3>1, <3>2
  <2> QED
    BY <2>2, <2>3
<1>13. \A l \in 0..n : k[l] \in T
  <2>1. \A l \in Nat : l \in Right
    <3> HIDE DEF Right
    <3> QED
      BY <1>11, <1>12, SetInduction
  <2> HIDE DEF T
  <2> QED
    BY <1>1, <2>1
<1>14. k \in [0..n -> T]
  <2> HIDE DEF T
  <2> QED
    BY <1>8, <1>9, <1>13 DEF Kept
<1> QED
  BY <1>1, <1>7, <1>9, <1>10, <1>14, ZenonT(30)

(* An archive of the stack, and its part of what is read.                  *)
LEMMA LevelOf ==
  ASSUME NEW k \in 1..MaxArchiveDepth, NEW level \in Levels
  PROVE  LET n == Len(MembersOf[level.archive])
             read == ReadOf(level, k)
         IN /\ n \in Nat /\ read \in [0..n -> Tallies] /\ read[0] = Unread
            /\ \A i \in 1..n :
                 /\ read[i] = Joined(read[i - 1], InFull(level.archive, i, WholeAt[MaxArchiveDepth - k]))
                 /\ InFull(level.archive, i, WholeAt[MaxArchiveDepth - k]) \in Tallies
                 /\ InFull(level.archive, i, WholeAt[MaxArchiveDepth - k]).entries >= 1
            /\ Total(level, k) = read[n]
<1> DEFINE nested == WholeAt[MaxArchiveDepth - k]
           a == level.archive
<1>1. a \in Archives
  BY DEF Levels
<1>2. MaxArchiveDepth \in Nat /\ MaxArchiveDepth - k \in 0..MaxArchiveDepth
  BY LimitsAssumption DEF LimitsAssumption
<1>3. nested \in [Archives -> Tallies]
  BY <1>2, WholeOf
<1>4. MaxArchiveDepth - k + 1 \in 1..MaxArchiveDepth /\ (MaxArchiveDepth - k + 1) - 1 = MaxArchiveDepth - k
  BY <1>2
<1>5. Total(level, k) = ReadUpTo(a, nested)[Len(MembersOf[a])]
  BY <1>1, <1>4, WholeOf DEF Total
<1>6. ReadOf(level, k) = ReadUpTo(a, nested)
  BY DEF ReadOf
<1> HIDE DEF nested, a
<1>7. \A i \in 1..Len(MembersOf[a]) : InFull(a, i, nested) \in Tallies /\ InFull(a, i, nested).entries >= 1
  BY <1>1, <1>3, OneMember
<1>8. PICK read : read = ReadUpTo(a, nested)
  OBVIOUS
<1>9. PICK n : n = Len(MembersOf[a])
  OBVIOUS
<1>10. n \in Nat /\ read \in [0..n -> Tallies] /\ read[0] = Unread
       /\ \A i \in 1..n : read[i] = Joined(read[i - 1], InFull(a, i, nested))
  BY <1>1, <1>3, <1>8, <1>9, ReadingOf
<1> QED
  BY <1>5, <1>6, <1>7, <1>8, <1>9, <1>10 DEF a, nested

LEMMA TotalIsMost ==
  ASSUME NEW k \in 1..MaxArchiveDepth, NEW level \in Levels,
         NEW i \in 0..Len(MembersOf[level.archive])
  PROVE  LET r == ReadOf(level, k)[i]
             t == Total(level, k)
         IN r \in Tallies /\ t \in Tallies /\ AtMost(r, t)
<1>1. PICK n : n = Len(MembersOf[level.archive])
  OBVIOUS
<1>2. PICK read : read = ReadOf(level, k)
  OBVIOUS
<1>3. /\ n \in Nat /\ read \in [0..n -> Tallies] /\ Total(level, k) = read[n]
      /\ \A j \in 1..n : \E r \in Tallies : read[j] = Joined(read[j - 1], r)
  BY <1>1, <1>2, LevelOf
<1> DEFINE Right == {j \in Nat : j <= n => AtMost(read[n - j], read[n])}
<1>4. 0 \in Right
  <2>1. n - 0 = n /\ read[n] \in Tallies
    BY <1>3
  <2>2. AtMost(read[n], read[n])
    BY <2>1, MoreIsRead
  <2> QED
    BY <2>1, <2>2
<1>5. \A j \in Nat : j \in Right => j + 1 \in Right
  <2> SUFFICES ASSUME NEW j \in Nat, j + 1 <= n, AtMost(read[n - j], read[n])
               PROVE  AtMost(read[n - (j + 1)], read[n])
    BY <1>3
  <2>1. n - j \in 1..n /\ (n - j) - 1 = n - (j + 1) /\ n - (j + 1) \in 0..n
    BY <1>3
  <2>2. PICK r \in Tallies : read[n - j] = Joined(read[n - (j + 1)], r)
    BY <1>3, <2>1
  <2>3. read[n - (j + 1)] \in Tallies /\ read[n] \in Tallies
    BY <1>3, <2>1
  <2>4. AtMost(read[n - (j + 1)], read[n - j]) /\ read[n - j] \in Tallies
    BY <2>2, <2>3, MoreIsRead, AddedUp
  <2> QED
    BY <2>3, <2>4, MoreIsRead
<1>6. n - i \in Right
  <2>1. n - i \in Nat
    BY <1>1, <1>3
  <2> HIDE DEF Right
  <2> QED
    BY <1>4, <1>5, <2>1, SetInduction
<1>7. n - i <= n /\ n - (n - i) = i
  BY <1>1, <1>3
<1>8. AtMost(read[i], read[n])
  BY <1>6, <1>7
<1>9. read[i] \in Tallies /\ read[n] \in Tallies
  BY <1>1, <1>3, SMTT(30)
<1> QED
  BY <1>2, <1>3, <1>8, <1>9

(* The stack and what is read of it.                                       *)
LEMMA OfTheStack ==
  ASSUME NEW a \in Archives, NEW s, Nesting(a, s), NEW k \in 1..Len(s)
  PROVE  /\ Len(s) \in 1..MaxArchiveDepth /\ k \in 1..MaxArchiveDepth /\ s[k] \in Levels
         /\ s[k].archive \in Archives /\ s[k].next \in Nat \ {0}
         /\ Len(MembersOf[s[k].archive]) \in Nat /\ MaxArchiveDepth \in Nat
         /\ s[k].next - 1 \in 0..Len(MembersOf[s[k].archive])
         /\ InFullOf(s, k) \in 0..Len(MembersOf[s[k].archive])
         /\ k < Len(s) => s[k].next - 1 \in 1..Len(MembersOf[s[k].archive])
<1>1. s \in Seq(Levels) /\ Len(s) \in 1..MaxArchiveDepth
  BY DEF Nesting
<1>2. s[k] \in Levels
  BY <1>1, ElementOfSeq
<1>3. s[k].archive \in Archives /\ s[k].next \in Nat \ {0}
  BY <1>2 DEF Levels
<1>4. Len(MembersOf[s[k].archive]) \in Nat
  BY <1>3, MembersAreCounted
<1>5. s[k].next <= Len(MembersOf[s[k].archive]) + 1 /\ (k < Len(s) => s[k].next >= 2)
  BY <1>1 DEF Nesting
<1>6. MaxArchiveDepth \in Nat
  BY LimitsAssumption DEF LimitsAssumption
<1>7. k <= Len(s) /\ k \in 1..MaxArchiveDepth
  BY <1>1, <1>6
<1>8. InFullOf(s, k) \in 0..Len(MembersOf[s[k].archive])
  BY <1>3, <1>4, <1>5, <1>7 DEF InFullOf
<1> QED
  BY <1>1, <1>2, <1>3, <1>4, <1>5, <1>6, <1>7, <1>8

(* What has been read so far.                                              *)
LEMMA SoFarAdds ==
  ASSUME NEW a \in Archives, NEW s, Nesting(a, s), NEW b, Precedes(s, b)
  PROVE  LET n == Len(s)
             r == ReadOf(s[n], n)[s[n].next - 1]
         IN /\ r \in Tallies /\ b[n] \in Tallies /\ SoFar(s, b) \in Tallies
            /\ SoFar(s, b).handed = b[n].handed \o r.handed
            /\ SoFar(s, b).entries = b[n].entries + r.entries
            /\ SoFar(s, b).expanded = b[n].expanded + r.expanded
<1>1. PICK n : n = Len(s)
  OBVIOUS
<1>2. n \in 1..n /\ n \in Nat
  BY <1>1 DEF Nesting
<1>3. b[n] \in Tallies
  BY <1>1, <1>2 DEF Precedes
<1>4. n \in 1..MaxArchiveDepth /\ s[n] \in Levels /\ s[n].next - 1 \in 0..Len(MembersOf[s[n].archive])
  BY <1>1, <1>2, OfTheStack
<1>5. PICK r : r = ReadOf(s[n], n)[s[n].next - 1]
  OBVIOUS
<1>6. r \in Tallies
  BY <1>4, <1>5, TotalIsMost
<1>7. Joined(b[n], r) \in Tallies
  BY <1>3, <1>6, AddedUp
<1>8. SoFar(s, b) = Joined(b[n], r)
  BY <1>1, <1>5 DEF SoFar
<1>9. PICK t : t = SoFar(s, b)
  OBVIOUS
<1>10. t = Joined(b[n], r) /\ t \in Tallies
  BY <1>7, <1>8, <1>9
<1>11. t.handed = b[n].handed \o r.handed
  BY <1>10, JoinedFields
<1>12. t.entries = b[n].entries + r.entries
  BY <1>10, JoinedFields
<1>13. t.expanded = b[n].expanded + r.expanded
  BY <1>10, JoinedFields
<1> QED
  BY <1>1, <1>3, <1>5, <1>6, <1>9, <1>10, <1>11, <1>12, <1>13

(* A member adds to what is read, an archive with what there is in it.     *)
LEMMA PlainInFull ==
  ASSUME NEW a \in Archives, NEW i \in 1..Len(MembersOf[a]), NEW nested \in [Archives -> Tallies],
         MembersOf[a][i].kind # "zip"
  PROVE  InFull(a, i, nested) = Alone(a, i) /\ Alone(a, i).depth = 1 /\ Alone(a, i).entries = 1
BY DEF InFull, Alone

LEMMA ZipInFull ==
  ASSUME NEW a \in Archives, NEW i \in 1..Len(MembersOf[a]), NEW nested \in [Archives -> Tallies],
         MembersOf[a][i].kind = "zip",
         NEW w, w = nested[MembersOf[a][i].zip],
         NEW t, t = InFull(a, i, nested)
  PROVE  /\ MembersOf[a][i].zip \in Archives /\ w \in Tallies
         /\ Alone(a, i).handed = <<>> /\ Alone(a, i).entries = 1
         /\ t.handed = w.handed
         /\ t.entries = 1 + w.entries
         /\ t.expanded = Alone(a, i).expanded + w.expanded
         /\ t.depth = w.depth + 1
<1> DEFINE inside == [w EXCEPT !.depth = @ + 1]
<1>1. MembersOf[a][i].zip \in Archives
  BY MemberKinds
<1>2. w \in Tallies
  BY <1>1
<1>3. w.handed \in Seq(Archives \X Nat) /\ w.entries \in Nat /\ w.expanded \in Nat /\ w.depth \in Nat
  BY <1>2, TallyFields
<1>4. Alone(a, i).handed = <<>> /\ Alone(a, i).entries = 1 /\ Alone(a, i).depth = 1
  BY DEF Alone
<1>5. t = Joined(Alone(a, i), inside)
  BY DEF InFull
<1>6. w = [handed |-> w.handed, entries |-> w.entries, expanded |-> w.expanded, depth |-> w.depth]
  BY <1>2 DEF Tallies
<1>7. inside = [handed |-> w.handed, entries |-> w.entries, expanded |-> w.expanded, depth |-> w.depth + 1]
  BY <1>6
<1>8. /\ inside.handed = w.handed /\ inside.entries = w.entries
      /\ inside.expanded = w.expanded /\ inside.depth = w.depth + 1
  BY <1>7
<1> HIDE DEF inside
<1> DEFINE one == Alone(a, i)
<1>8a. /\ Joined(one, inside).handed = one.handed \o inside.handed
      /\ Joined(one, inside).entries = one.entries + inside.entries
      /\ Joined(one, inside).expanded = one.expanded + inside.expanded
      /\ Joined(one, inside).depth = IF one.depth > inside.depth THEN one.depth ELSE inside.depth
  BY JoinedFields
<1>8b. t = Joined(one, inside) /\ one.handed = <<>> /\ one.entries = 1 /\ one.depth = 1
  BY <1>4, <1>5
<1> HIDE DEF one
<1>9. t.handed = <<>> \o w.handed
  BY <1>8a, <1>8b, <1>8
<1>10. t.entries = 1 + w.entries
  BY <1>8a, <1>8b, <1>8
<1>11. t.expanded = Alone(a, i).expanded + w.expanded
  BY <1>8a, <1>8b, <1>8 DEF one
<1>12. t.depth = IF 1 > w.depth + 1 THEN 1 ELSE w.depth + 1
  BY <1>8a, <1>8b, <1>8
<1>13. t.depth = w.depth + 1
  BY <1>3, <1>12
<1>14. t.handed = w.handed
  BY <1>3, <1>9, ConcatEmptySeq
<1> QED
  BY <1>1, <1>2, <1>4, <1>10, <1>11, <1>13, <1>14

(* The stack with its top archive one member on.                           *)
OneOn(s) == [s EXCEPT ![Len(s)].next = @ + 1]

AtMemberOf(s) == s[Len(s)].next <= Len(MembersOf[s[Len(s)].archive])
AtArchiveOf(s) == MembersOf[s[Len(s)].archive][s[Len(s)].next].kind = "zip"
InnerOf(s) == MembersOf[s[Len(s)].archive][s[Len(s)].next].zip
HasRoom(s) == Len(s) < MaxArchiveDepth

LEMMA StackAdvanced ==
  ASSUME NEW a \in Archives, NEW s, Nesting(a, s), NEW n, n = Len(s), AtMemberOf(s),
         NEW t, t = OneOn(s)
  PROVE  /\ Nesting(a, t) /\ Len(t) = n /\ n \in Nat \ {0} /\ t \in Seq(Levels)
         /\ \A k \in 1..n : k # n => t[k] = s[k]
         /\ t[n].archive = s[n].archive /\ t[n].next = s[n].next + 1
<1>1. s \in Seq(Levels) /\ n \in Nat \ {0} /\ n \in 1..n /\ n \in 1..MaxArchiveDepth
  BY DEF Nesting
<1>2. s[n].archive \in Archives /\ s[n].next \in Nat \ {0} /\ Len(MembersOf[s[n].archive]) \in Nat
      /\ s[n] \in Levels
  BY <1>1, OfTheStack
<1>2a. s[n].next <= Len(MembersOf[s[n].archive])
  BY DEF AtMemberOf
<1>3. PICK top : top = s[n]
  OBVIOUS
<1>4. PICK one : one = [top EXCEPT !.next = top.next + 1]
  OBVIOUS
<1>5. top = [archive |-> top.archive, next |-> top.next]
  BY <1>2, <1>3 DEF Levels
<1>6. one = [archive |-> top.archive, next |-> top.next + 1]
  BY <1>4, <1>5
<1>7. one \in Levels /\ one.archive = s[n].archive /\ one.next = s[n].next + 1
  BY <1>2, <1>3, <1>6 DEF Levels
<1>8. t = [s EXCEPT ![n] = one]
  BY <1>3, <1>4 DEF OneOn
<1>9. /\ t \in Seq(Levels) /\ Len(t) = n
      /\ \A k \in 1..n : t[k] = IF k = n THEN one ELSE s[k]
  BY <1>1, <1>7, <1>8, ExceptSeq
<1>10. ASSUME NEW k \in 1..n PROVE t[k].archive = s[k].archive
  BY <1>7, <1>9
<1>11. t[1].archive = a
  <2>1. 1 \in 1..n /\ s[1].archive = a
    BY <1>1 DEF Nesting
  <2> QED
    BY <1>10, <2>1
<1>12. ASSUME NEW k \in 1..n PROVE t[k].next <= Len(MembersOf[t[k].archive]) + 1
  <2>1. CASE k = n
    BY <1>2, <1>2a, <1>7, <1>9, <2>1
  <2>2. CASE k # n
    <3>1. t[k] = s[k] /\ s[k].next <= Len(MembersOf[s[k].archive]) + 1
      BY <1>9, <2>2 DEF Nesting
    <3> QED
      BY <3>1
  <2> QED
    BY <2>1, <2>2
<1>13. ASSUME NEW k \in 1..(n - 1)
       PROVE  /\ t[k].next >= 2
              /\ MembersOf[t[k].archive][t[k].next - 1].kind = "zip"
              /\ MembersOf[t[k].archive][t[k].next - 1].zip = t[k + 1].archive
  <2>1. k \in 1..n /\ k # n /\ k + 1 \in 1..n
    BY <1>1
  <2>2. t[k] = s[k] /\ t[k + 1].archive = s[k + 1].archive
    BY <1>9, <1>10, <2>1
  <2>3. /\ s[k].next >= 2
        /\ MembersOf[s[k].archive][s[k].next - 1].kind = "zip"
        /\ MembersOf[s[k].archive][s[k].next - 1].zip = s[k + 1].archive
    BY DEF Nesting
  <2> QED
    BY <2>2, <2>3
<1>14. Nesting(a, t)
  BY <1>1, <1>9, <1>11, <1>12, <1>13 DEF Nesting
<1> QED
  BY <1>1, <1>7, <1>9, <1>14

(* What is read in full, and what there is in it, is that of an archive,   *)
(* wherever it is read up to.                                              *)
LEMMA SameArchive ==
  ASSUME NEW k, NEW l, NEW m, l.archive = m.archive
  PROVE  ReadOf(l, k) = ReadOf(m, k) /\ Total(l, k) = Total(m, k)
BY DEF ReadOf, Total

(* A member that is no archive is passed.                                  *)
LEMMA MemberPassed ==
  ASSUME NEW a \in Archives, NEW s, Nesting(a, s), Shallow(s),
         NEW b, Precedes(s, b), PartOf(a, s, b),
         NEW n, n = Len(s), AtMemberOf(s),
         NEW one, one = Alone(s[n].archive, s[n].next),
         ~AtArchiveOf(s),
         NEW t, t = OneOn(s),
         NEW r, r = SoFar(s, b)
  PROVE  /\ Nesting(a, t) /\ Shallow(t) /\ Precedes(t, b) /\ PartOf(a, t, b)
         /\ Counts(SoFar(t, b), r.entries + one.entries, r.expanded + one.expanded,
                   r.handed \o one.handed)
<1>1. /\ Nesting(a, t) /\ Len(t) = n /\ n \in Nat \ {0}
      /\ \A k \in 1..n : k # n => t[k] = s[k]
      /\ t[n].archive = s[n].archive /\ t[n].next = s[n].next + 1
  BY StackAdvanced
<1>2. n \in 1..n
  BY <1>1
<1>3. /\ n \in 1..MaxArchiveDepth /\ s[n] \in Levels /\ MaxArchiveDepth \in Nat
      /\ s[n].archive \in Archives /\ s[n].next \in Nat \ {0}
      /\ Len(MembersOf[s[n].archive]) \in Nat
  BY <1>2, OfTheStack
<1>3a. s[n].next <= Len(MembersOf[s[n].archive]) /\ MembersOf[s[n].archive][s[n].next].kind # "zip"
  BY DEF AtMemberOf, AtArchiveOf
<1>4. PICK i : i = s[n].next
  OBVIOUS
<1>5. i \in 1..Len(MembersOf[s[n].archive]) /\ (i + 1) - 1 = i
  BY <1>3, <1>3a, <1>4
<1>6. PICK read : read = ReadOf(s[n], n)
  OBVIOUS
<1>7. PICK nested : nested = WholeAt[MaxArchiveDepth - n]
  OBVIOUS
<1>8. nested \in [Archives -> Tallies]
  BY <1>3, <1>7, WholeOf
<1>9. read[i] = Joined(read[i - 1], InFull(s[n].archive, i, nested))
  BY <1>3, <1>5, <1>6, <1>7, LevelOf
<1>10. InFull(s[n].archive, i, nested) = one /\ one.depth = 1 /\ one \in Tallies
  BY <1>3, <1>3a, <1>4, <1>5, <1>8, PlainInFull, OneMember
<1>11. \A k \in 1..n : t[k].archive = s[k].archive
  BY <1>1
<1>12. \A k \in 1..n : ReadOf(t[k], k) = ReadOf(s[k], k) /\ Total(t[k], k) = Total(s[k], k)
  BY <1>11, SameArchive
<1>13. Shallow(t)
  <2> SUFFICES ASSUME NEW k \in 1..n
               PROVE  ReadOf(s[k], k)[InFullOf(t, k)].depth <= MaxArchiveDepth - k + 1
    BY <1>1, <1>12 DEF Shallow
  <2>1. CASE k # n
    <3>1. InFullOf(t, k) = InFullOf(s, k)
      BY <1>1, <2>1 DEF InFullOf
    <3> QED
      BY <3>1 DEF Shallow
  <2>2. CASE k = n
    <3>1. InFullOf(t, n) = i /\ InFullOf(s, n) = i - 1
      BY <1>1, <1>4, <1>5 DEF InFullOf
    <3>2. read[i - 1].depth <= MaxArchiveDepth - n + 1
      BY <1>2, <1>6, <3>1 DEF Shallow
    <3>3. read[i].depth = IF read[i - 1].depth > one.depth THEN read[i - 1].depth ELSE one.depth
      <4>1. read[i] = Joined(read[i - 1], one)
        BY <1>9, <1>10
      <4> QED
        BY <4>1 DEF Joined
    <3>4. read[i].depth <= MaxArchiveDepth - n + 1
      BY <1>3, <1>10, <3>2, <3>3
    <3> QED
      BY <1>6, <2>2, <3>1, <3>4
  <2> QED
    BY <2>1, <2>2
<1>14. Precedes(t, b)
  <2>1. b \in [1..n -> Tallies] /\ b[1] = Unread
    BY DEF Precedes
  <2>2. ASSUME NEW k \in 1..(n - 1)
        PROVE  b[k + 1] = Joined(Joined(b[k], ReadOf(t[k], k)[t[k].next - 2]), Alone(t[k].archive, t[k].next - 1))
    <3>1. k \in 1..n /\ k # n
      BY <1>1
    <3>2. t[k] = s[k]
      BY <1>1, <3>1
    <3> QED
      BY <3>2 DEF Precedes
  <2> QED
    BY <1>1, <2>1, <2>2 DEF Precedes
<1>15. PartOf(a, t, b)
  BY <1>1, <1>12 DEF PartOf
<1>16. SoFar(t, b) = Joined(b[n], read[i])
  <2>1. ReadOf(t[n], n)[t[n].next - 1] = read[i]
    BY <1>1, <1>2, <1>4, <1>5, <1>6, <1>12
  <2> QED
    BY <1>1, <2>1 DEF SoFar
<1>17. r = Joined(b[n], read[i - 1])
  BY <1>4, <1>6 DEF SoFar
<1>18. b[n] \in Tallies /\ read[i - 1] \in Tallies
  BY <1>4, <1>6, SoFarAdds
<1>19. SoFar(t, b) = Joined(r, one)
  BY <1>9, <1>10, <1>16, <1>17, <1>18, JoinedInAnyGrouping
<1>20. Counts(SoFar(t, b), r.entries + one.entries, r.expanded + one.expanded, r.handed \o one.handed)
  <2>1. PICK q : q = SoFar(t, b)
    OBVIOUS
  <2>2. q = Joined(r, one)
    BY <1>19, <2>1
  <2>3. q.entries = r.entries + one.entries
    BY <2>2 DEF Joined
  <2>4. q.expanded = r.expanded + one.expanded
    BY <2>2 DEF Joined
  <2>5. q.handed = r.handed \o one.handed
    BY <2>2 DEF Joined
  <2> QED
    BY <2>1, <2>3, <2>4, <2>5 DEF Counts
<1> QED
  BY <1>1, <1>13, <1>14, <1>15, <1>20

(* A nested archive is entered: what there is in it is part of what there  *)
(* is in the archive it is a member of.                                    *)
Into(s, inner) == Append(OneOn(s), Opened(inner))

LEMMA StackGrown ==
  ASSUME NEW a \in Archives, NEW s, Nesting(a, s), NEW n, n = Len(s), 
         HasRoom(s), AtMemberOf(s), AtArchiveOf(s),
         NEW inner, inner = InnerOf(s),
         NEW t, t = Into(s, inner)
  PROVE  /\ Nesting(a, t) /\ Len(t) = n + 1 /\ n \in Nat \ {0}
         /\ \A k \in 1..n : k # n => t[k] = s[k]
         /\ t[n].archive = s[n].archive /\ t[n].next = s[n].next + 1
         /\ t[n + 1] = Opened(inner) /\ inner \in Archives
<1>0. n \in Nat /\ 1 <= n /\ n + 1 <= MaxArchiveDepth /\ MaxArchiveDepth \in Nat
  <2>1. n \in 1..MaxArchiveDepth /\ MaxArchiveDepth \in Nat
    BY LimitsAssumption DEF Nesting, LimitsAssumption
  <2>2. n < MaxArchiveDepth
    BY DEF HasRoom
  <2> QED
    BY <2>1, <2>2
<1>0a. n \in 1..n /\ (n + 1) - 1 = n /\ n + 1 \in 1..MaxArchiveDepth /\ 1 \in 1..n
  BY <1>0
<1>0b. \A k \in 1..(n + 1) : k # n + 1 => k \in 1..n
  BY <1>0
<1>0c. \A k \in 1..n : k # n => k \in 1..(n - 1) /\ k + 1 \in 1..n /\ k # n + 1
  BY <1>0
<1>0d. /\ s[n].next <= Len(MembersOf[s[n].archive])
       /\ MembersOf[s[n].archive][s[n].next].kind = "zip"
       /\ MembersOf[s[n].archive][s[n].next].zip = inner
  BY DEF AtMemberOf, AtArchiveOf, InnerOf
<1>1. PICK p : p = OneOn(s)
  OBVIOUS
<1>2. /\ Nesting(a, p) /\ Len(p) = n /\ n \in Nat \ {0} /\ p \in Seq(Levels)
      /\ \A k \in 1..n : k # n => p[k] = s[k]
      /\ p[n].archive = s[n].archive /\ p[n].next = s[n].next + 1
  BY <1>1, StackAdvanced
<1>3. n \in 1..n
  BY <1>0a
<1>4. /\ s[n].archive \in Archives /\ s[n].next \in Nat \ {0}
      /\ Len(MembersOf[s[n].archive]) \in Nat /\ MaxArchiveDepth \in Nat
  BY <1>3, OfTheStack
<1>5. s[n].next \in 1..Len(MembersOf[s[n].archive])
  BY <1>0d, <1>4
<1>6. inner \in Archives
  BY <1>0d, <1>4, <1>5, MemberKinds
<1>7. PICK one : one = Opened(inner)
  OBVIOUS
<1>8. one \in Levels /\ one.archive = inner /\ one.next = 1
  BY <1>6, <1>7 DEF Opened, Levels
<1>9. /\ t \in Seq(Levels) /\ Len(t) = n + 1
      /\ \A k \in 1..n : t[k] = p[k]
      /\ t[n + 1] = one
  <2>1. t = Append(p, one)
    BY <1>1, <1>7 DEF Into
  <2> QED
    BY <1>2, <1>8, <2>1, AppendProperties
<1>10. Len(t) \in 1..MaxArchiveDepth
  <2>1. n + 1 \in 1..MaxArchiveDepth
    BY <1>0
  <2> QED
    BY <1>9, <2>1
<1>11. t[1].archive = a
  <2>1. 1 \in 1..n /\ p[1].archive = a
    BY <1>0a, <1>2 DEF Nesting
  <2> QED
    BY <1>9, <2>1
<1>12. ASSUME NEW k \in 1..(n + 1) PROVE t[k].next <= Len(MembersOf[t[k].archive]) + 1
  <2>1. CASE k = n + 1
    <3>1. t[k].next = 1 /\ t[k].archive = inner
      BY <1>8, <1>9, <2>1
    <3>2. Len(MembersOf[inner]) \in Nat
      BY <1>6, MembersAreCounted
    <3>3. 1 <= Len(MembersOf[inner]) + 1
      BY <3>2
    <3> QED
      BY <3>1, <3>3
  <2>2. CASE k # n + 1
    <3>1. k \in 1..n
      BY <1>0b, <2>2
    <3>2. t[k] = p[k] /\ p[k].next <= Len(MembersOf[p[k].archive]) + 1
      BY <1>2, <1>9, <3>1 DEF Nesting
    <3> QED
      BY <3>2
  <2> QED
    BY <2>1, <2>2
<1>13. ASSUME NEW k \in 1..n
       PROVE  /\ t[k].next >= 2
              /\ MembersOf[t[k].archive][t[k].next - 1].kind = "zip"
              /\ MembersOf[t[k].archive][t[k].next - 1].zip = t[k + 1].archive
  <2>1. CASE k = n
    <3>1. t[n].archive = s[n].archive /\ t[n].next = s[n].next + 1
      BY <1>2, <1>3, <1>9
    <3>2. t[n].next >= 2 /\ t[n].next - 1 = s[n].next
      <4>1. PICK i : i = s[n].next
        OBVIOUS
      <4>2. i \in Nat \ {0} /\ t[n].next = i + 1
        BY <1>4, <3>1, <4>1
      <4> QED
        BY <4>1, <4>2
    <3>3. t[n + 1].archive = inner
      BY <1>8, <1>9
    <3> QED
      BY <1>0d, <2>1, <3>1, <3>2, <3>3
  <2>2. CASE k # n
    <3>1. k \in 1..(n - 1) /\ k + 1 \in 1..n
      BY <1>0c, <2>2
    <3>2. t[k] = p[k] /\ t[k + 1] = p[k + 1]
      BY <1>9, <3>1
    <3>3. /\ p[k].next >= 2
          /\ MembersOf[p[k].archive][p[k].next - 1].kind = "zip"
          /\ MembersOf[p[k].archive][p[k].next - 1].zip = p[k + 1].archive
      BY <1>2, <3>1 DEF Nesting
    <3> QED
      BY <3>2, <3>3
  <2> QED
    BY <2>1, <2>2
<1>14. Nesting(a, t)
  <2>1. \A k \in 1..(Len(t) - 1) : k \in 1..n
    BY <1>0a, <1>9
  <2> QED
    BY <1>9, <1>10, <1>11, <1>12, <1>13, <2>1 DEF Nesting
<1>15. t[n].archive = s[n].archive /\ t[n].next = s[n].next + 1
  BY <1>2, <1>3, <1>9
<1>16. \A k \in 1..n : k # n => t[k] = s[k]
  BY <1>2, <1>9
<1> QED
  BY <1>2, <1>6, <1>7, <1>9, <1>14, <1>15, <1>16

LEMMA ArchiveEntered ==
  ASSUME NEW a \in Archives, NEW s, Nesting(a, s), Shallow(s),
         NEW b, Precedes(s, b), PartOf(a, s, b),
         NEW n, n = Len(s), HasRoom(s), AtMemberOf(s), AtArchiveOf(s),
         NEW inner, inner = InnerOf(s),
         NEW one, one = Alone(s[n].archive, s[n].next),
         NEW t, t = Into(s, inner),
         NEW r, r = SoFar(s, b)
  PROVE  /\ Nesting(a, t) /\ Shallow(t)
         /\ Accounted(a, t, r.entries + one.entries, r.expanded + one.expanded, r.handed)
<1>0. n \in Nat /\ 1 <= n /\ n + 1 <= MaxArchiveDepth /\ MaxArchiveDepth \in Nat
  <2>1. n \in 1..MaxArchiveDepth /\ MaxArchiveDepth \in Nat
    BY LimitsAssumption DEF Nesting, LimitsAssumption
  <2>2. n < MaxArchiveDepth
    BY DEF HasRoom
  <2> QED
    BY <2>1, <2>2
<1>0a. n \in 1..n /\ (n + 1) - 1 = n /\ n + 1 \in 1..MaxArchiveDepth /\ 1 \in 1..n
  BY <1>0
<1>0b. \A k \in 1..(n + 1) : k # n + 1 => k \in 1..n
  BY <1>0
<1>0c. \A k \in 1..n : k # n => k \in 1..(n - 1) /\ k + 1 \in 1..n /\ k # n + 1
  BY <1>0
<1>0d. /\ s[n].next <= Len(MembersOf[s[n].archive])
       /\ MembersOf[s[n].archive][s[n].next].kind = "zip"
       /\ MembersOf[s[n].archive][s[n].next].zip = inner
  BY DEF AtMemberOf, AtArchiveOf, InnerOf
<1>1. /\ Nesting(a, t) /\ Len(t) = n + 1 /\ n \in Nat \ {0}
      /\ \A k \in 1..n : k # n => t[k] = s[k]
      /\ t[n].archive = s[n].archive /\ t[n].next = s[n].next + 1
      /\ t[n + 1] = Opened(inner) /\ inner \in Archives
  BY StackGrown
<1>2. n \in 1..n
  BY <1>0a
<1>3. /\ n \in 1..MaxArchiveDepth /\ s[n] \in Levels /\ MaxArchiveDepth \in Nat
      /\ s[n].archive \in Archives /\ s[n].next \in Nat \ {0}
      /\ Len(MembersOf[s[n].archive]) \in Nat
  BY <1>2, OfTheStack
<1>4. PICK i : i = s[n].next
  OBVIOUS
<1>5. i \in 1..Len(MembersOf[s[n].archive]) /\ (i + 1) - 1 = i
  BY <1>0d, <1>3, <1>4
<1>6. PICK read : read = ReadOf(s[n], n)
  OBVIOUS
<1>7. PICK nested : nested = WholeAt[MaxArchiveDepth - n]
  OBVIOUS
<1>8. nested \in [Archives -> Tallies]
  BY <1>3, <1>7, WholeOf
<1>9. PICK w : w = nested[inner]
  OBVIOUS
<1>10. PICK u : u = InFull(s[n].archive, i, nested)
  OBVIOUS
<1>11. read[i] = Joined(read[i - 1], u) /\ u \in Tallies
  BY <1>3, <1>5, <1>6, <1>7, <1>10, LevelOf
<1>12. /\ w \in Tallies /\ one \in Tallies /\ one.handed = <<>> /\ one.entries = 1
       /\ u.entries = 1 + w.entries /\ u.expanded = one.expanded + w.expanded
       /\ u.depth = w.depth + 1
  <2>1. PICK l : l = s[n].archive
    OBVIOUS
  <2>2. /\ l \in Archives /\ i \in 1..Len(MembersOf[l]) /\ MembersOf[l][i].kind = "zip"
        /\ one = Alone(l, i)
    BY <1>0d, <1>3, <1>4, <1>5, <2>1
  <2>3. w = nested[MembersOf[l][i].zip] /\ u = InFull(l, i, nested)
    BY <1>0d, <1>4, <1>9, <1>10, <2>1
  <2>4. one \in Tallies
    BY <1>8, <2>2, OneMember
  <2>5. /\ w \in Tallies /\ Alone(l, i).handed = <<>> /\ Alone(l, i).entries = 1
        /\ u.entries = 1 + w.entries /\ u.expanded = Alone(l, i).expanded + w.expanded
        /\ u.depth = w.depth + 1
    BY <1>8, <2>2, <2>3, ZipInFull
  <2> QED
    BY <2>2, <2>4, <2>5
<1>13. \A k \in 1..n : t[k].archive = s[k].archive
  BY <1>1
<1>14. \A k \in 1..n : ReadOf(t[k], k) = ReadOf(s[k], k) /\ Total(t[k], k) = Total(s[k], k)
  BY <1>13, SameArchive
<1>15. PICK top : top = t[n + 1]
  OBVIOUS
<1>16. top \in Levels /\ top.next = 1 /\ top.archive = inner /\ n + 1 \in 1..MaxArchiveDepth
  BY <1>0a, <1>1, <1>15 DEF Opened, Levels
<1>17. ReadOf(top, n + 1)[0] = Unread
  BY <1>16, LevelOf
<1>18. Total(top, n + 1) = w
  <2>1. MaxArchiveDepth - (n + 1) + 1 = MaxArchiveDepth - n
    BY <1>3
  <2> QED
    BY <1>7, <1>9, <1>16, <2>1 DEF Total
<1>19. Shallow(t)
  <2> SUFFICES ASSUME NEW k \in 1..(n + 1)
               PROVE  ReadOf(t[k], k)[InFullOf(t, k)].depth <= MaxArchiveDepth - k + 1
    BY <1>1 DEF Shallow
  <2>1. CASE k = n + 1
    <3>1. InFullOf(t, k) = 0
      BY <1>1, <1>15, <1>16, <2>1 DEF InFullOf
    <3>2. ReadOf(t[k], k)[InFullOf(t, k)] = Unread
      BY <1>15, <1>17, <2>1, <3>1
    <3>3. Unread.depth = 1
      BY DEF Unread
    <3>4. 1 <= MaxArchiveDepth - (n + 1) + 1
      BY <1>0
    <3> QED
      BY <2>1, <3>2, <3>3, <3>4
  <2>2. CASE k # n + 1
    <3>1. k \in 1..n
      BY <1>0b, <2>2
    <3>2. InFullOf(t, k) = InFullOf(s, k)
      <4>1. CASE k = n
        <5>1. PICK j : j = s[n].next
          OBVIOUS
        <5>2. j \in Nat /\ t[n].next = j + 1 /\ (j + 1) - 2 = j - 1
          BY <1>1, <1>3, <5>1
        <5>3. n # n + 1
          BY <1>0
        <5> QED
          BY <1>1, <4>1, <5>1, <5>2, <5>3 DEF InFullOf
      <4>2. CASE k # n
        <5>1. t[k] = s[k]
          BY <1>1, <3>1, <4>2
        <5> QED
          BY <1>1, <2>2, <4>2, <5>1 DEF InFullOf
      <4> QED
        BY <4>1, <4>2
    <3>3. ReadOf(s[k], k)[InFullOf(s, k)].depth <= MaxArchiveDepth - k + 1
      BY <3>1 DEF Shallow
    <3> QED
      BY <1>14, <3>1, <3>2, <3>3
  <2> QED
    BY <2>1, <2>2
<1> DEFINE c == [k \in 1..(n + 1) |-> IF k = n + 1 THEN Joined(r, one) ELSE b[k]]
<1>20. /\ b \in [1..n -> Tallies] /\ b[1] = Unread /\ r \in Tallies
  BY SoFarAdds DEF Precedes
<1>21. Joined(r, one) \in Tallies
  BY <1>12, <1>20, AddedUp
<1>22. /\ c \in [1..(n + 1) -> Tallies] /\ c[n + 1] = Joined(r, one)
       /\ \A k \in 1..n : c[k] = b[k]
  <2>1. \A k \in 1..n : k # n + 1
    BY <1>0
  <2>2. n + 1 \in 1..(n + 1)
    BY <1>0
  <2>3. \A k \in 1..n : k \in 1..(n + 1)
    BY <1>0
  <2> QED
    BY <1>0b, <1>20, <1>21, <2>1, <2>2, <2>3
<1> HIDE DEF c
<1>23. Precedes(t, c)
  <2>1. c[1] = Unread
    BY <1>0a, <1>20, <1>22
  <2>2. ASSUME NEW k \in 1..n
        PROVE  c[k + 1] = Joined(Joined(c[k], ReadOf(t[k], k)[t[k].next - 2]), Alone(t[k].archive, t[k].next - 1))
    <3>1. CASE k = n
      <4>1. t[n].next - 2 = i - 1 /\ t[n].next - 1 = i
        <5>1. t[n].next = i + 1
          BY <1>1, <1>4
        <5> QED
          BY <1>5, <5>1
      <4>2. Joined(c[n], ReadOf(t[n], n)[t[n].next - 2]) = r
        BY <1>2, <1>4, <1>14, <1>22, <4>1 DEF SoFar
      <4>3. Alone(t[n].archive, t[n].next - 1) = one
        BY <1>1, <1>4, <4>1
      <4> QED
        BY <1>22, <3>1, <4>2, <4>3
    <3>2. CASE k # n
      <4>1. k \in 1..(n - 1) /\ k + 1 \in 1..n
        BY <1>0c, <3>2
      <4>2. t[k] = s[k] /\ c[k] = b[k] /\ c[k + 1] = b[k + 1]
        BY <1>1, <1>22, <3>2, <4>1
      <4>3. b[k + 1] = Joined(Joined(b[k], ReadOf(s[k], k)[s[k].next - 2]), Alone(s[k].archive, s[k].next - 1))
        BY <4>1 DEF Precedes
      <4> QED
        BY <4>2, <4>3
    <3> QED
      BY <3>1, <3>2
  <2> QED
    BY <1>0a, <1>1, <1>22, <2>1, <2>2 DEF Precedes
<1>24. PICK whole : whole = Whole(a)
  OBVIOUS
<1>25. PICK all : all = Total(s[n], n)
  OBVIOUS
<1>26. PICK before : before = b[n]
  OBVIOUS
<1>27. PICK p : p = read[i - 1]
  OBVIOUS
<1>28. p \in Tallies /\ before \in Tallies /\ r = Joined(before, p)
  <2>1. p \in Tallies /\ before \in Tallies
    BY <1>4, <1>6, <1>26, <1>27, SoFarAdds
  <2>2. r = Joined(before, p)
    BY <1>4, <1>6, <1>26, <1>27 DEF SoFar
  <2> QED
    BY <2>1, <2>2
<1>29. /\ before.entries + all.entries <= whole.entries
       /\ before.expanded + all.expanded <= whole.expanded
       /\ n - 1 + all.depth <= whole.depth
  BY <1>2, <1>24, <1>25, <1>26 DEF PartOf
<1>30. AtMost(Joined(p, u), all) /\ all \in Tallies
  <2>1. i \in 0..Len(MembersOf[s[n].archive])
    BY <1>5
  <2> QED
    BY <1>3, <1>6, <1>11, <1>25, <1>27, <2>1, TotalIsMost
<1>31. whole \in Tallies
  <2>1. MaxArchiveDepth \in 0..MaxArchiveDepth
    BY <1>3
  <2> QED
    BY <1>24, <2>1, WholeOf DEF Whole
<1>32. /\ Joined(r, one).entries + w.entries <= whole.entries
       /\ Joined(r, one).expanded + w.expanded <= whole.expanded
       /\ n + w.depth <= whole.depth
  <2>1. PICK pu : pu = Joined(p, u)
    OBVIOUS
  <2>2. PICK ro : ro = Joined(r, one)
    OBVIOUS
  <2>3. pu.entries = p.entries + u.entries
    BY <2>1 DEF Joined
  <2>4. pu.expanded = p.expanded + u.expanded
    BY <2>1 DEF Joined
  <2>5. pu.depth = IF p.depth > u.depth THEN p.depth ELSE u.depth
    BY <2>1 DEF Joined
  <2>5a. r.entries = before.entries + p.entries
    BY <1>28 DEF Joined
  <2>5b. r.expanded = before.expanded + p.expanded
    BY <1>28 DEF Joined
  <2>6. ro.entries = before.entries + p.entries + one.entries
    BY <2>5a, <2>2 DEF Joined
  <2>7. ro.expanded = before.expanded + p.expanded + one.expanded
    BY <2>5b, <2>2 DEF Joined
  <2>8. pu.entries <= all.entries /\ pu.expanded <= all.expanded /\ pu.depth <= all.depth
    BY <1>30, <2>1 DEF AtMost
  <2>9. ro.entries + w.entries <= whole.entries
    <3>1. /\ p.entries \in Nat /\ before.entries \in Nat /\ w.entries \in Nat
          /\ all.entries \in Nat /\ whole.entries \in Nat
      BY <1>12, <1>28, <1>30, <1>31, TallyFields
    <3>2. u.entries = 1 + w.entries /\ one.entries = 1 /\ before.entries + all.entries <= whole.entries
      BY <1>12, <1>29
    <3>3. pu.entries <= all.entries
      BY <2>8
    <3> QED
      BY <2>3, <2>6, <3>1, <3>2, <3>3, SMTT(30)
  <2>10. ro.expanded + w.expanded <= whole.expanded
    <3>1. /\ p.expanded \in Nat /\ before.expanded \in Nat /\ w.expanded \in Nat
          /\ all.expanded \in Nat /\ whole.expanded \in Nat /\ one.expanded \in Nat
      BY <1>12, <1>28, <1>30, <1>31, TallyFields
    <3>2. u.expanded = one.expanded + w.expanded /\ before.expanded + all.expanded <= whole.expanded
      BY <1>12, <1>29
    <3>3. pu.expanded <= all.expanded
      BY <2>8
    <3> QED
      BY <2>4, <2>7, <3>1, <3>2, <3>3, SMTT(30)
  <2>11. n + w.depth <= whole.depth
    <3>1. /\ p.depth \in Nat /\ w.depth \in Nat /\ all.depth \in Nat /\ whole.depth \in Nat /\ n \in Nat
      BY <1>1, <1>12, <1>28, <1>30, <1>31, TallyFields
    <3>2. u.depth = w.depth + 1 /\ n - 1 + all.depth <= whole.depth
      BY <1>12, <1>29
    <3>3. pu.depth <= all.depth
      BY <2>8
    <3> QED
      BY <2>5, <3>1, <3>2, <3>3
  <2> QED
    BY <2>2, <2>9, <2>10, <2>11
<1>33. PartOf(a, t, c)
  <2> SUFFICES ASSUME NEW k \in 1..(n + 1)
               PROVE  /\ c[k].entries + Total(t[k], k).entries <= whole.entries
                      /\ c[k].expanded + Total(t[k], k).expanded <= whole.expanded
                      /\ k - 1 + Total(t[k], k).depth <= whole.depth
    BY <1>1, <1>24 DEF PartOf
  <2>1. CASE k = n + 1
    <3>1. Total(t[k], k) = w /\ c[k] = Joined(r, one) /\ k - 1 = n
      BY <1>0a, <1>15, <1>18, <1>22, <2>1
    <3> QED
      BY <1>32, <3>1
  <2>2. CASE k # n + 1
    <3>1. k \in 1..n
      BY <1>0b, <2>2
    <3>2. Total(t[k], k) = Total(s[k], k) /\ c[k] = b[k]
      BY <1>14, <1>22, <3>1
    <3> QED
      BY <1>24, <3>1, <3>2 DEF PartOf
  <2> QED
    BY <2>1, <2>2
<1>34. Counts(SoFar(t, c), r.entries + one.entries, r.expanded + one.expanded, r.handed)
  <2>1. PICK ro : ro = Joined(r, one)
    OBVIOUS
  <2>2. PICK q : q = SoFar(t, c)
    OBVIOUS
  <2>3. top.next - 1 = 0
    BY <1>16
  <2>4. q = Joined(ro, Unread)
    BY <1>1, <1>15, <1>17, <1>22, <2>1, <2>2, <2>3 DEF SoFar
  <2>5. ro \in Tallies
    BY <1>21, <2>1
  <2>6. ro.entries \in Nat /\ ro.expanded \in Nat /\ ro.handed \in Seq(Archives \X Nat)
    BY <2>5, TallyFields
  <2>7. q.entries = ro.entries
    <3>1. q.entries = ro.entries + 0
      BY <2>4 DEF Joined, Unread
    <3> QED
      BY <2>6, <3>1
  <2>8. q.expanded = ro.expanded
    <3>1. q.expanded = ro.expanded + 0
      BY <2>4 DEF Joined, Unread
    <3> QED
      BY <2>6, <3>1
  <2>9. q.handed = ro.handed
    <3>1. q.handed = ro.handed \o <<>>
      BY <2>4 DEF Joined, Unread
    <3> QED
      BY <2>6, <3>1, ConcatEmptySeq
  <2>10. ro.entries = r.entries + one.entries
    BY <2>1 DEF Joined
  <2>11. ro.expanded = r.expanded + one.expanded
    BY <2>1 DEF Joined
  <2>12. ro.handed = r.handed
    <3>1. ro.handed = r.handed \o <<>>
      BY <1>12, <2>1 DEF Joined
    <3>2. r.handed \in Seq(Archives \X Nat)
      BY <1>20, TallyFields
    <3> QED
      BY <3>1, <3>2, ConcatEmptySeq
  <2> QED
    BY <2>2, <2>7, <2>8, <2>9, <2>10, <2>11, <2>12 DEF Counts
<1> QED
  BY <1>1, <1>19, <1>23, <1>33, <1>34 DEF Accounted

(* A nested archive is left: with it the member it was is read in full.    *)
Back(s) == SubSeq(s, 1, Len(s) - 1)
AtEndOf(s) == s[Len(s)].next > Len(MembersOf[s[Len(s)].archive])

LEMMA StackShrunk ==
  ASSUME NEW a \in Archives, NEW s, Nesting(a, s), NEW n, n = Len(s) - 1, n # 0,
         NEW t, t = Back(s)
  PROVE  /\ Nesting(a, t) /\ Len(t) = n /\ n \in Nat \ {0} /\ Len(s) = n + 1
         /\ \A k \in 1..n : t[k] = s[k]
<1>1. s \in Seq(Levels) /\ Len(s) \in 1..MaxArchiveDepth /\ MaxArchiveDepth \in Nat
  BY LimitsAssumption DEF LimitsAssumption, Nesting
<1>2. n \in Nat \ {0} /\ Len(s) = n + 1 /\ n \in 1..MaxArchiveDepth /\ 1 \in 1..n
  BY <1>1
<1>3. \A k \in 1..n : k \in 1..Len(s) /\ s[k] \in Levels
  <2>1. \A k \in 1..n : k \in 1..Len(s)
    BY <1>2
  <2> QED
    BY <1>1, <2>1, ElementOfSeq
<1>4. t \in Seq(Levels) /\ Len(t) = n /\ \A k \in 1..n : t[k] = s[k]
  <2>1. t = SubSeq(s, 1, n)
    BY DEF Back
  <2>2. 1 \in Int /\ n \in Int /\ 1 <= n /\ n - 1 + 1 = n
    BY <1>2
  <2>3. PICK q : q = SubSeq(s, 1, n)
    OBVIOUS
  <2>4. /\ q \in Seq(Levels) /\ Len(q) = IF 1 <= n THEN n - 1 + 1 ELSE 0
        /\ \A k \in 1..(n - 1 + 1) : q[k] = s[1 + k - 1]
    BY <1>3, <2>2, <2>3, SubSeqProperties
  <2>5. \A k \in 1..n : 1 + k - 1 = k
    BY <1>2
  <2> QED
    BY <2>1, <2>2, <2>3, <2>4, <2>5
<1>5. t[1].archive = a
  BY <1>2, <1>4 DEF Nesting
<1>6. \A k \in 1..n : t[k].next <= Len(MembersOf[t[k].archive]) + 1
  BY <1>3, <1>4 DEF Nesting
<1>7. ASSUME NEW k \in 1..(n - 1)
      PROVE  /\ t[k].next >= 2
             /\ MembersOf[t[k].archive][t[k].next - 1].kind = "zip"
             /\ MembersOf[t[k].archive][t[k].next - 1].zip = t[k + 1].archive
  <2>1. k \in 1..n /\ k + 1 \in 1..n /\ k \in 1..(Len(s) - 1)
    BY <1>2
  <2>2. t[k] = s[k] /\ t[k + 1] = s[k + 1]
    BY <1>4, <2>1
  <2>3. /\ s[k].next >= 2
        /\ MembersOf[s[k].archive][s[k].next - 1].kind = "zip"
        /\ MembersOf[s[k].archive][s[k].next - 1].zip = s[k + 1].archive
    BY <2>1 DEF Nesting
  <2> QED
    BY <2>2, <2>3
<1>8. Nesting(a, t)
  BY <1>2, <1>4, <1>5, <1>6, <1>7 DEF Nesting
<1> QED
  BY <1>2, <1>4, <1>8

LEMMA ArchiveLeft ==
  ASSUME NEW a \in Archives, NEW s, Nesting(a, s), Shallow(s),
         NEW b, Precedes(s, b), PartOf(a, s, b),
         NEW n, n = Len(s) - 1, n # 0, AtEndOf(s),
         NEW t, t = Back(s),
         NEW r, r = SoFar(s, b)
  PROVE  /\ Nesting(a, t) /\ Shallow(t)
         /\ Accounted(a, t, r.entries, r.expanded, r.handed)
<1>1. /\ Nesting(a, t) /\ Len(t) = n /\ n \in Nat \ {0} /\ Len(s) = n + 1
      /\ \A k \in 1..n : t[k] = s[k]
  BY StackShrunk
<1>2. MaxArchiveDepth \in Nat /\ n + 1 \in 1..MaxArchiveDepth /\ n \in Nat /\ n # 0
  BY <1>1, LimitsAssumption DEF LimitsAssumption, Nesting
<1>3. /\ n \in 1..n /\ n + 1 \in 1..(n + 1) /\ n \in 1..MaxArchiveDepth
      /\ \A k \in 1..n : k \in 1..(n + 1) /\ k # n + 1
      /\ \A k \in 1..n : k # n => k \in 1..(n - 1) /\ k + 1 \in 1..n
      /\ n = (n + 1) - 1 /\ n # n + 1 /\ 1 \in 1..n
  BY <1>2
<1>4. PICK i : i = s[n].next - 1
  OBVIOUS
<1>5. PICK l : l = s[n].archive
  OBVIOUS
<1>6. PICK inner : inner = s[n + 1].archive
  OBVIOUS
<1>7. /\ s[n] \in Levels /\ l \in Archives /\ i \in 1..Len(MembersOf[l]) /\ s[n].next \in Nat
      /\ Len(MembersOf[l]) \in Nat
  <2>1. n < Len(s)
    BY <1>1, <1>2
  <2> QED
    BY <1>1, <1>3, <1>4, <1>5, <2>1, OfTheStack
<1>8. MembersOf[l][i].kind = "zip" /\ MembersOf[l][i].zip = inner
  BY <1>1, <1>3, <1>4, <1>5, <1>6 DEF Nesting
<1>9. /\ s[n + 1] \in Levels /\ s[n + 1].next - 1 = Len(MembersOf[inner])
      /\ InFullOf(s, n + 1) = Len(MembersOf[inner])
  <2>1. /\ s[n + 1] \in Levels /\ s[n + 1].next \in Nat /\ Len(MembersOf[inner]) \in Nat
    BY <1>1, <1>3, <1>6, OfTheStack
  <2>2. s[n + 1].next <= Len(MembersOf[inner]) + 1
    BY <1>1, <1>3, <1>6 DEF Nesting
  <2>3. s[n + 1].next > Len(MembersOf[inner])
    BY <1>1, <1>6 DEF AtEndOf
  <2>4. s[n + 1].next - 1 = Len(MembersOf[inner])
    BY <2>1, <2>2, <2>3
  <2> QED
    BY <1>1, <2>1, <2>4 DEF InFullOf
<1>10. PICK read : read = ReadOf(s[n], n)
  OBVIOUS
<1>11. PICK nested : nested = WholeAt[MaxArchiveDepth - n]
  OBVIOUS
<1>12. nested \in [Archives -> Tallies]
  <2>1. MaxArchiveDepth - n \in 0..MaxArchiveDepth
    BY <1>2
  <2> QED
    BY <1>11, <2>1, WholeOf
<1>13. PICK w : w = nested[inner]
  OBVIOUS
<1>14. PICK u : u = InFull(l, i, nested)
  OBVIOUS
<1>15. PICK one : one = Alone(l, i)
  OBVIOUS
<1>16. read[i] = Joined(read[i - 1], u) /\ u \in Tallies
  BY <1>3, <1>5, <1>7, <1>10, <1>11, <1>14, LevelOf
<1>17. one \in Tallies
  BY <1>7, <1>12, <1>15, OneMember
<1>18. /\ w \in Tallies /\ one.handed = <<>> /\ one.entries = 1
       /\ u.handed = w.handed /\ u.entries = 1 + w.entries /\ u.expanded = one.expanded + w.expanded
       /\ u.depth = w.depth + 1
  <2>1. w = nested[MembersOf[l][i].zip] /\ MembersOf[l][i].kind = "zip"
    BY <1>8, <1>13
  <2>2. /\ w \in Tallies /\ Alone(l, i).handed = <<>> /\ Alone(l, i).entries = 1
        /\ u.handed = w.handed /\ u.entries = 1 + w.entries
        /\ u.expanded = Alone(l, i).expanded + w.expanded /\ u.depth = w.depth + 1
    BY <1>7, <1>12, <1>14, <2>1, ZipInFull, SMTT(30)
  <2> QED
    BY <1>15, <2>2
<1>19. ReadOf(s[n + 1], n + 1)[Len(MembersOf[inner])] = w
  <2>1. Total(s[n + 1], n + 1) = ReadOf(s[n + 1], n + 1)[Len(MembersOf[inner])]
    BY <1>2, <1>6, <1>9, LevelOf
  <2>2. MaxArchiveDepth - (n + 1) + 1 = MaxArchiveDepth - n
    BY <1>2
  <2>3. Total(s[n + 1], n + 1) = w
    BY <1>6, <1>11, <1>13, <2>2 DEF Total
  <2> QED
    BY <2>1, <2>3
<1>20. /\ t[n].next - 1 = i /\ InFullOf(t, n) = i
       /\ InFullOf(s, n) = i - 1 /\ s[n].next - 2 = i - 1
  <2>1. t[n] = s[n]
    BY <1>1, <1>3
  <2>2. s[n].next - 2 = (s[n].next - 1) - 1
    BY <1>7
  <2> QED
    BY <1>1, <1>3, <1>4, <2>1, <2>2 DEF InFullOf
<1>21. PICK p : p = read[i - 1]
  OBVIOUS
<1>22. p \in Tallies /\ p.depth <= MaxArchiveDepth - n + 1
  <2>1. i - 1 \in 0..Len(MembersOf[l])
    BY <1>7
  <2>2. p \in Tallies
    BY <1>3, <1>5, <1>7, <1>10, <1>21, <2>1, TotalIsMost
  <2>3. ReadOf(s[n], n)[InFullOf(s, n)].depth <= MaxArchiveDepth - n + 1
    BY <1>1, <1>3 DEF Shallow
  <2> QED
    BY <1>10, <1>20, <1>21, <2>2, <2>3
<1>23. Shallow(t)
  <2> SUFFICES ASSUME NEW k \in 1..n
               PROVE  ReadOf(s[k], k)[InFullOf(t, k)].depth <= MaxArchiveDepth - k + 1
    BY <1>1 DEF Shallow
  <2>1. CASE k = n
    <3>1. w.depth <= MaxArchiveDepth - (n + 1) + 1
      BY <1>1, <1>3, <1>9, <1>19 DEF Shallow
    <3>2. PICK q : q = Joined(p, u)
      OBVIOUS
    <3>3. q.depth = IF p.depth > u.depth THEN p.depth ELSE u.depth
      BY <3>2 DEF Joined
    <3>4. p.depth \in Nat /\ w.depth \in Nat /\ u.depth = w.depth + 1
      BY <1>18, <1>22, TallyFields
    <3>5. q.depth <= MaxArchiveDepth - n + 1
      BY <1>2, <1>22, <3>1, <3>3, <3>4
    <3>6. ReadOf(s[k], k)[InFullOf(t, k)] = q
      BY <1>10, <1>16, <1>20, <1>21, <2>1, <3>2
    <3> QED
      BY <2>1, <3>5, <3>6
  <2>2. CASE k # n
    <3>1. t[k] = s[k] /\ k # Len(s) /\ k \in 1..Len(s)
      BY <1>1, <1>3
    <3>2. InFullOf(t, k) = InFullOf(s, k)
      BY <1>1, <2>2, <3>1 DEF InFullOf
    <3> QED
      BY <3>1, <3>2 DEF Shallow
  <2> QED
    BY <2>1, <2>2
<1>24. b \in [1..(n + 1) -> Tallies] /\ b[1] = Unread
  BY <1>1 DEF Precedes
<1> DEFINE c == [k \in 1..n |-> b[k]]
<1>25. c \in [1..n -> Tallies] /\ \A k \in 1..n : c[k] = b[k]
  BY <1>3, <1>24
<1> HIDE DEF c
<1>26. Precedes(t, c)
  <2>1. c[1] = Unread
    BY <1>3, <1>24, <1>25
  <2>2. ASSUME NEW k \in 1..(n - 1)
        PROVE  c[k + 1] = Joined(Joined(c[k], ReadOf(t[k], k)[t[k].next - 2]), Alone(t[k].archive, t[k].next - 1))
    <3>1. k \in 1..n /\ k + 1 \in 1..n
      BY <1>2
    <3>2. t[k] = s[k] /\ c[k] = b[k] /\ c[k + 1] = b[k + 1]
      BY <1>1, <1>25, <3>1
    <3>3. b[k + 1] = Joined(Joined(b[k], ReadOf(s[k], k)[s[k].next - 2]), Alone(s[k].archive, s[k].next - 1))
      BY <1>1, <1>3, <3>1 DEF Precedes
    <3> QED
      BY <3>2, <3>3
  <2> QED
    BY <1>1, <1>25, <2>1, <2>2 DEF Precedes
<1>27. PartOf(a, t, c)
  <2> SUFFICES ASSUME NEW k \in 1..n
               PROVE  /\ c[k].entries + Total(t[k], k).entries <= Whole(a).entries
                      /\ c[k].expanded + Total(t[k], k).expanded <= Whole(a).expanded
                      /\ k - 1 + Total(t[k], k).depth <= Whole(a).depth
    BY <1>1 DEF PartOf
  <2>1. t[k] = s[k] /\ c[k] = b[k] /\ k \in 1..Len(s)
    BY <1>1, <1>3, <1>25
  <2> QED
    BY <2>1 DEF PartOf
<1>28. Counts(SoFar(t, c), r.entries, r.expanded, r.handed)
  <2>1. PICK before : before = b[n]
    OBVIOUS
  <2>2. PICK bp : bp = Joined(before, p)
    OBVIOUS
  <2>3. PICK bpo : bpo = Joined(bp, one)
    OBVIOUS
  <2>4. before \in Tallies
    BY <1>3, <1>24, <2>1
  <2>5. bp \in Tallies
    BY <1>22, <2>2, <2>4, AddedUp
  <2>6. bpo \in Tallies
    BY <1>17, <2>3, <2>5, AddedUp
  <2>7. b[n + 1] = bpo
    <3>1. b[n + 1] = Joined(Joined(b[n], ReadOf(s[n], n)[s[n].next - 2]), Alone(s[n].archive, s[n].next - 1))
      BY <1>1, <1>3 DEF Precedes
    <3> QED
      BY <1>4, <1>5, <1>10, <1>15, <1>20, <1>21, <2>1, <2>2, <2>3, <3>1
  <2>8. r = Joined(bpo, w)
    BY <1>1, <1>9, <1>19, <2>7 DEF SoFar
  <2>9. PICK q : q = SoFar(t, c)
    OBVIOUS
  <2>10. q = Joined(bp, u)
    <3>1. t[n] = s[n] /\ c[n] = before
      BY <1>1, <1>3, <1>25, <2>1
    <3>2. q = Joined(before, Joined(p, u))
      BY <1>1, <1>10, <1>16, <1>20, <1>21, <2>9, <3>1 DEF SoFar
    <3> QED
      BY <1>16, <1>22, <2>2, <2>4, <3>2, JoinedInAnyGrouping
  <2>11. q.entries = r.entries
    <3>1. q.entries = bp.entries + u.entries
      BY <2>10 DEF Joined
    <3>2. r.entries = bpo.entries + w.entries
      BY <2>8 DEF Joined
    <3>3. bpo.entries = bp.entries + one.entries
      BY <2>3 DEF Joined
    <3>4. one.entries = 1 /\ u.entries = 1 + w.entries
      BY <1>18
    <3>5. bp.entries \in Nat /\ w.entries \in Nat
      BY <1>18, <2>5, TallyFields
    <3> QED
      BY <3>1, <3>2, <3>3, <3>4, <3>5
  <2>12. q.expanded = r.expanded
    <3>1. q.expanded = bp.expanded + u.expanded
      BY <2>10 DEF Joined
    <3>2. r.expanded = bpo.expanded + w.expanded
      BY <2>8 DEF Joined
    <3>3. bpo.expanded = bp.expanded + one.expanded
      BY <2>3 DEF Joined
    <3>4. u.expanded = one.expanded + w.expanded
      BY <1>18
    <3>5. bp.expanded \in Nat /\ w.expanded \in Nat /\ one.expanded \in Nat
      BY <1>17, <1>18, <2>5, TallyFields
    <3> QED
      BY <3>1, <3>2, <3>3, <3>4, <3>5
  <2>13. q.handed = r.handed
    <3>1. q.handed = bp.handed \o u.handed
      BY <2>10 DEF Joined
    <3>2. r.handed = bpo.handed \o w.handed
      BY <2>8, JoinedFields
    <3>3. bpo.handed = bp.handed \o one.handed
      BY <2>3 DEF Joined
    <3>4. one.handed = <<>> /\ u.handed = w.handed
      BY <1>18
    <3>5. bp.handed \in Seq(Archives \X Nat)
      BY <2>5, TallyFields
    <3>6. bpo.handed = bp.handed
      BY <3>3, <3>4, <3>5, ConcatEmptySeq
    <3> QED
      BY <3>1, <3>2, <3>4, <3>6
  <2> QED
    BY <2>9, <2>11, <2>12, <2>13 DEF Counts
<1> QED
  BY <1>1, <1>23, <1>26, <1>27, <1>28 DEF Accounted

(* What an archive read to its end comes to, and what one refused would.   *)
LEMMA WholeRead ==
  ASSUME NEW a \in Archives, NEW s, Nesting(a, s), Shallow(s), NEW b, Precedes(s, b),
         Len(s) = 1, AtEndOf(s), NEW r, r = SoFar(s, b)
  PROVE  /\ r.handed = Whole(a).handed /\ r.entries = Whole(a).entries
         /\ r.expanded = Whole(a).expanded /\ Whole(a).depth <= MaxArchiveDepth
<1>1. /\ 1 \in 1..MaxArchiveDepth /\ MaxArchiveDepth \in Nat /\ 1 \in 1..Len(s)
      /\ MaxArchiveDepth - 1 + 1 = MaxArchiveDepth
  BY LimitsAssumption DEF LimitsAssumption
<1>2. /\ s[1] \in Levels /\ s[1].archive = a /\ s[1].next \in Nat
      /\ Len(MembersOf[s[1].archive]) \in Nat
  <2>1. s[1].archive = a
    BY DEF Nesting
  <2> QED
    BY <1>1, <2>1, OfTheStack
<1>3. s[1].next - 1 = Len(MembersOf[a]) /\ InFullOf(s, 1) = Len(MembersOf[a])
  <2>1. s[1].next <= Len(MembersOf[a]) + 1
    BY <1>1, <1>2 DEF Nesting
  <2>2. s[1].next > Len(MembersOf[a])
    BY <1>2 DEF AtEndOf
  <2>3. s[1].next - 1 = Len(MembersOf[a])
    BY <1>2, <2>1, <2>2
  <2> QED
    BY <2>3 DEF InFullOf
<1>4. PICK whole : whole = Whole(a)
  OBVIOUS
<1>5. ReadOf(s[1], 1)[Len(MembersOf[a])] = whole
  <2>1. Total(s[1], 1) = ReadOf(s[1], 1)[Len(MembersOf[a])]
    BY <1>1, <1>2, LevelOf
  <2> QED
    BY <1>1, <1>2, <1>4, <2>1 DEF Total, Whole
<1>6. r = Joined(Unread, whole)
  BY <1>3, <1>5 DEF SoFar, Precedes
<1>7. whole \in Tallies
  <2>1. MaxArchiveDepth \in 0..MaxArchiveDepth
    BY <1>1
  <2> QED
    BY <1>4, <2>1, WholeOf DEF Whole
<1>8. whole.handed \in Seq(Archives \X Nat) /\ whole.entries \in Nat /\ whole.expanded \in Nat
  BY <1>7, TallyFields
<1>9. r.handed = whole.handed
  <2>1. r.handed = <<>> \o whole.handed
    BY <1>6, JoinedFields DEF Unread
  <2> QED
    BY <1>8, <2>1, ConcatEmptySeq
<1>10. r.entries = whole.entries
  <2>1. r.entries = 0 + whole.entries
    BY <1>6 DEF Joined, Unread
  <2> QED
    BY <1>8, <2>1
<1>11. r.expanded = whole.expanded
  <2>1. r.expanded = 0 + whole.expanded
    BY <1>6 DEF Joined, Unread
  <2> QED
    BY <1>8, <2>1
<1>12. whole.depth <= MaxArchiveDepth
  <2>1. ReadOf(s[1], 1)[InFullOf(s, 1)].depth <= MaxArchiveDepth - 1 + 1
    BY <1>1 DEF Shallow
  <2> QED
    BY <1>1, <1>3, <1>5, <2>1
<1> QED
  BY <1>4, <1>9, <1>10, <1>11, <1>12

LEMMA MemberCounts ==
  ASSUME NEW a \in Archives, NEW s, Nesting(a, s),
         NEW b, Precedes(s, b), PartOf(a, s, b), AtMemberOf(s),
         NEW n, n = Len(s), NEW r, r = SoFar(s, b),
         NEW m, m = MembersOf[s[n].archive][s[n].next]
  PROVE  /\ Whole(a).entries >= r.entries + 1
         /\ m.kind # "directory" => Whole(a).expanded >= r.expanded + m.size
         /\ m.kind = "zip" /\ n >= MaxArchiveDepth => Whole(a).depth > MaxArchiveDepth
<1>1. n \in 1..MaxArchiveDepth /\ MaxArchiveDepth \in Nat /\ n \in Nat /\ n \in 1..n
  BY LimitsAssumption DEF LimitsAssumption, Nesting
<1>2. PICK i : i = s[n].next
  OBVIOUS
<1>3. PICK l : l = s[n].archive
  OBVIOUS
<1>4. s[n] \in Levels /\ l \in Archives /\ i \in 1..Len(MembersOf[l]) /\ m = MembersOf[l][i]
  <2>1. s[n] \in Levels /\ l \in Archives /\ i \in Nat \ {0} /\ Len(MembersOf[l]) \in Nat
    BY <1>1, <1>2, <1>3, OfTheStack
  <2>2. i <= Len(MembersOf[l])
    BY <1>2, <1>3 DEF AtMemberOf
  <2> QED
    BY <1>2, <1>3, <2>1, <2>2
<1>5. PICK read : read = ReadOf(s[n], n)
  OBVIOUS
<1>6. PICK nested : nested = WholeAt[MaxArchiveDepth - n]
  OBVIOUS
<1>7. nested \in [Archives -> Tallies]
  <2>1. MaxArchiveDepth - n \in 0..MaxArchiveDepth
    BY <1>1
  <2> QED
    BY <1>6, <2>1, WholeOf
<1>8. PICK u : u = InFull(l, i, nested)
  OBVIOUS
<1>9. read[i] = Joined(read[i - 1], u) /\ u \in Tallies /\ u.entries >= 1
  BY <1>1, <1>3, <1>4, <1>5, <1>6, <1>8, LevelOf
<1>10. PICK p : p = read[i - 1]
  OBVIOUS
<1>11. PICK before : before = b[n]
  OBVIOUS
<1>12. r = Joined(before, p) /\ p \in Tallies /\ before \in Tallies
  <2>1. r = Joined(before, p)
    BY <1>2, <1>5, <1>10, <1>11 DEF SoFar
  <2>2. p \in Tallies /\ before \in Tallies
    BY <1>2, <1>5, <1>10, <1>11, SoFarAdds
  <2> QED
    BY <2>1, <2>2
<1>13. PICK all : all = Total(s[n], n)
  OBVIOUS
<1>14. PICK whole : whole = Whole(a)
  OBVIOUS
<1>15. PICK q : q = Joined(p, u)
  OBVIOUS
<1>16. AtMost(q, all) /\ all \in Tallies
  <2>1. i \in 0..Len(MembersOf[s[n].archive])
    BY <1>3, <1>4
  <2> QED
    BY <1>1, <1>4, <1>5, <1>9, <1>10, <1>13, <1>15, <2>1, TotalIsMost
<1>17. /\ before.entries + all.entries <= whole.entries
       /\ before.expanded + all.expanded <= whole.expanded
       /\ n - 1 + all.depth <= whole.depth
  BY <1>1, <1>11, <1>13, <1>14 DEF PartOf
<1>18. whole \in Tallies
  <2>1. MaxArchiveDepth \in 0..MaxArchiveDepth
    BY <1>1
  <2> QED
    BY <1>14, <2>1, WholeOf DEF Whole
<1>19. q.entries <= all.entries /\ q.expanded <= all.expanded /\ q.depth <= all.depth
  BY <1>16 DEF AtMost
<1>20. whole.entries >= r.entries + 1
  <2>1. q.entries = p.entries + u.entries
    BY <1>15 DEF Joined
  <2>2. r.entries = before.entries + p.entries
    BY <1>12 DEF Joined
  <2>3. /\ p.entries \in Nat /\ before.entries \in Nat /\ u.entries \in Nat
        /\ all.entries \in Nat /\ whole.entries \in Nat
    BY <1>9, <1>12, <1>16, <1>18, TallyFields
  <2>4. u.entries >= 1 /\ q.entries <= all.entries /\ before.entries + all.entries <= whole.entries
    BY <1>9, <1>17, <1>19
  <2> QED
    BY <2>1, <2>2, <2>3, <2>4
<1>21. ASSUME m.kind # "directory" PROVE whole.expanded >= r.expanded + m.size
  <2>1. q.expanded = p.expanded + u.expanded
    BY <1>15 DEF Joined
  <2>2. r.expanded = before.expanded + p.expanded
    BY <1>12 DEF Joined
  <2>3. /\ p.expanded \in Nat /\ before.expanded \in Nat /\ u.expanded \in Nat
        /\ all.expanded \in Nat /\ whole.expanded \in Nat
    BY <1>9, <1>12, <1>16, <1>18, TallyFields
  <2>4. m.size \in Nat
    BY <1>4, MemberKinds
  <2>5. Alone(l, i).expanded = m.size
    BY <1>4, <1>21 DEF Alone
  <2>6. u.expanded >= m.size
    <3>1. CASE m.kind = "zip"
      <4>1. PICK w : w = nested[m.zip]
        OBVIOUS
      <4>2. w \in Tallies /\ u.expanded = Alone(l, i).expanded + w.expanded
        BY <1>4, <1>7, <1>8, <3>1, <4>1, ZipInFull
      <4>3. w.expanded \in Nat
        BY <4>2, TallyFields
      <4> QED
        BY <2>4, <2>5, <4>2, <4>3
    <3>2. CASE m.kind # "zip"
      <4>1. u.expanded = m.size
        BY <1>4, <1>7, <1>8, <2>5, <3>2, PlainInFull
      <4> QED
        BY <2>4, <4>1
    <3> QED
      BY <3>1, <3>2
  <2>7. q.expanded <= all.expanded /\ before.expanded + all.expanded <= whole.expanded
    BY <1>17, <1>19
  <2> QED
    BY <2>1, <2>2, <2>3, <2>4, <2>6, <2>7, SMTT(30)
<1>22. ASSUME m.kind = "zip", n >= MaxArchiveDepth PROVE whole.depth > MaxArchiveDepth
  <2>1. n = MaxArchiveDepth /\ MaxArchiveDepth - n = 0
    BY <1>1, <1>22
  <2>2. PICK w : w = nested[m.zip]
    OBVIOUS
  <2>3. m.zip \in Archives
    BY <1>4, <1>22, MemberKinds
  <2>4. w = Unread
    BY <1>6, <2>1, <2>2, <2>3, WholeOf
  <2>5. u.depth = w.depth + 1
    BY <1>4, <1>7, <1>8, <1>22, <2>2, ZipInFull
  <2>6. u.depth = 2
    BY <2>4, <2>5 DEF Unread
  <2>7. q.depth = IF p.depth > u.depth THEN p.depth ELSE u.depth
    BY <1>15 DEF Joined
  <2>8. p.depth \in Nat /\ all.depth \in Nat /\ whole.depth \in Nat
    BY <1>12, <1>16, <1>18, TallyFields
  <2>9. q.depth <= all.depth /\ n - 1 + all.depth <= whole.depth
    BY <1>17, <1>19
  <2> QED
    BY <1>1, <2>1, <2>6, <2>7, <2>8, <2>9
<1> QED
  BY <1>14, <1>20, <1>21, <1>22

LEMMA ArchiveStart == ArchiveInit => ArchiveInv
<1> SUFFICES ASSUME ArchiveInit PROVE ArchiveInv
  OBVIOUS
<1>1. PICK a : a = archive
  OBVIOUS
<1>2. PICK top : top = Opened(a)
  OBVIOUS
<1>3. PICK s : s = <<top>>
  OBVIOUS
<1>4. a \in Archives /\ open = s
  BY <1>1, <1>2, <1>3, LimitsAssumption DEF ArchiveInit, LimitsAssumption
<1>5. 1 \in 1..MaxArchiveDepth /\ MaxArchiveDepth \in Nat /\ MaxArchiveDepth - 1 + 1 = MaxArchiveDepth
  BY LimitsAssumption DEF LimitsAssumption
<1>6. top \in Levels /\ top.archive = a /\ top.next = 1
  BY <1>2, <1>4 DEF Opened, Levels
<1>7. s \in Seq(Levels) /\ Len(s) = 1 /\ s[1] = top
  BY <1>3, <1>6
<1>8. Len(MembersOf[a]) \in Nat
  BY <1>4, MembersAreCounted
<1>9. Nesting(a, s)
  BY <1>5, <1>6, <1>7, <1>8 DEF Nesting
<1>10. ReadOf(top, 1)[0] = Unread
  BY <1>5, <1>6, LevelOf
<1>11. Unread = [handed |-> <<>>, entries |-> 0, expanded |-> 0, depth |-> 1]
  BY DEF Unread
<1>12. Shallow(s)
  <2>1. InFullOf(s, 1) = 0
    BY <1>6, <1>7 DEF InFullOf
  <2>2. ReadOf(s[1], 1)[InFullOf(s, 1)].depth = 1
    BY <1>7, <1>10, <1>11, <2>1
  <2>3. 1 <= MaxArchiveDepth - 1 + 1
    BY <1>5
  <2> QED
    BY <1>7, <2>2, <2>3 DEF Shallow
<1> DEFINE b == [k \in 1..1 |-> Unread]
<1>13. Unread \in Tallies
  BY <1>11, EmptySeq DEF Tallies
<1>14. b \in [1..1 -> Tallies] /\ b[1] = Unread
  BY <1>13
<1> HIDE DEF b
<1>15. Precedes(s, b)
  BY <1>7, <1>14 DEF Precedes
<1>16. PICK whole : whole = Whole(a)
  OBVIOUS
<1>17. whole \in Tallies
  <2>1. MaxArchiveDepth \in 0..MaxArchiveDepth
    BY <1>5
  <2> QED
    BY <1>4, <1>16, <2>1, WholeOf DEF Whole
<1>18. Total(top, 1) = whole
  BY <1>5, <1>6, <1>16 DEF Total, Whole
<1>19. PartOf(a, s, b)
  <2>1. whole.entries \in Nat /\ whole.expanded \in Nat /\ whole.depth \in Nat
    BY <1>17, TallyFields
  <2>2. 0 + whole.entries <= whole.entries /\ 0 + whole.expanded <= whole.expanded
        /\ 1 - 1 + whole.depth <= whole.depth
    BY <2>1
  <2> QED
    BY <1>7, <1>11, <1>14, <1>16, <1>18, <2>2 DEF PartOf
<1>20. Counts(SoFar(s, b), 0, 0, <<>>)
  <2>1. SoFar(s, b) = Joined(Unread, Unread)
    BY <1>6, <1>7, <1>10, <1>14 DEF SoFar
  <2>2. <<>> \o <<>> = <<>>
    BY EmptySeq, ConcatEmptySeq
  <2>3. Joined(Unread, Unread).handed = <<>>
    BY <2>2 DEF Joined, Unread
  <2>4. Joined(Unread, Unread).entries = 0 /\ Joined(Unread, Unread).expanded = 0
    BY DEF Joined, Unread
  <2> QED
    BY <2>1, <2>3, <2>4 DEF Counts
<1>21. Accounted(a, s, 0, 0, <<>>)
  BY <1>15, <1>19, <1>20 DEF Accounted
<1>22. entries = 0 /\ expanded = 0 /\ handed = <<>> /\ visit = "reading"
  BY DEF ArchiveInit
<1>23. 0 \in 0..MaxEntries /\ 0 \in 0..MaxExpanded
  BY LimitsAssumption DEF LimitsAssumption
<1> QED
  BY <1>1, <1>4, <1>9, <1>12, <1>21, <1>22, <1>23 DEF ArchiveInv, ArchiveIsWhole

(* A step that passes a member, in terms of the values it starts from.     *)
LEMMA PassingKeeps ==
  ASSUME ArchiveInv, AtMember, Member.kind # "zip", open' = Advanced, visit' = visit, archive' = archive,
         Counted, expanded' = expanded + Alone(Level.archive, Level.next).expanded, expanded' <= MaxExpanded,
         handed' = handed \o Alone(Level.archive, Level.next).handed
  PROVE  ArchiveInv'
<1>1. PICK a, s, e, x, hs : a = archive /\ s = open /\ e = entries /\ x = expanded /\ hs = handed
  OBVIOUS
<1>2. /\ a \in Archives /\ e \in 0..MaxEntries /\ x \in 0..MaxExpanded
      /\ Nesting(a, s) /\ Shallow(s) /\ Accounted(a, s, e, x, hs)
  BY <1>1 DEF ArchiveInv, AtMember
<1>3. PICK b : Precedes(s, b) /\ PartOf(a, s, b) /\ Counts(SoFar(s, b), e, x, hs)
  BY <1>2 DEF Accounted
<1>4. PICK n : n = Len(s)
  OBVIOUS
<1>5. PICK one : one = Alone(s[n].archive, s[n].next)
  OBVIOUS
<1>6. PICK t : t = OneOn(s)
  OBVIOUS
<1>7. AtMemberOf(s) /\ ~AtArchiveOf(s)
  BY <1>1 DEF AtMember, Member, Level, AtMemberOf, AtArchiveOf
<1>8. PICK r : r = SoFar(s, b)
  OBVIOUS
<1>9. /\ Nesting(a, t) /\ Shallow(t) /\ Precedes(t, b) /\ PartOf(a, t, b)
      /\ Counts(SoFar(t, b), r.entries + one.entries, r.expanded + one.expanded, r.handed \o one.handed)
  BY <1>2, <1>3, <1>4, <1>5, <1>6, <1>7, <1>8, MemberPassed
<1>10. r.entries = e /\ r.expanded = x /\ r.handed = hs
  BY <1>3, <1>8 DEF Counts
<1>11. Accounted(a, t, e + one.entries, x + one.expanded, hs \o one.handed)
  BY <1>9, <1>10 DEF Accounted
<1>12. one.entries = 1 /\ one.expanded \in Nat
  <2>1. PICK l, i : l = s[n].archive /\ i = s[n].next
    OBVIOUS
  <2>2. l \in Archives /\ i \in Nat \ {0} /\ Len(MembersOf[l]) \in Nat
    <3>1. n \in 1..Len(s)
      BY <1>2, <1>4 DEF Nesting
    <3> QED
      BY <1>2, <1>4, <2>1, <3>1, OfTheStack
  <2>3. i \in 1..Len(MembersOf[l])
    <3>1. i <= Len(MembersOf[l])
      BY <1>4, <1>7, <2>1 DEF AtMemberOf
    <3> QED
      BY <2>2, <3>1
  <2>4. [y \in Archives |-> Unread] \in [Archives -> Tallies]
    BY EmptySeq DEF Unread, Tallies
  <2>5. one \in Tallies
    BY <1>5, <2>1, <2>2, <2>3, <2>4, OneMember
  <2>6. one.entries = 1
    BY <1>5 DEF Alone
  <2> QED
    BY <2>5, <2>6, TallyFields
<1>13. open' = t /\ entries' = e + one.entries /\ expanded' = x + one.expanded /\ handed' = hs \o one.handed
  <2>1. open' = t
    BY <1>1, <1>6 DEF Advanced, OneOn
  <2>2. entries' = e + 1
    BY <1>1 DEF Counted
  <2>3. Alone(Level.archive, Level.next) = one
    BY <1>1, <1>4, <1>5 DEF Level
  <2> QED
    BY <1>1, <1>12, <2>1, <2>2, <2>3
<1>14. entries' \in 0..MaxEntries /\ expanded' \in 0..MaxExpanded
  <2>1. e < MaxEntries /\ entries' = e + 1 /\ MaxEntries \in Nat
    BY <1>1, LimitsAssumption DEF Counted, LimitsAssumption
  <2>2. expanded' <= MaxExpanded /\ MaxExpanded \in Nat
    BY LimitsAssumption DEF LimitsAssumption
  <2>3. entries' \in 0..MaxEntries
    BY <1>2, <2>1
  <2>4. expanded' \in 0..MaxExpanded
    BY <1>2, <1>12, <1>13, <2>2
  <2> QED
    BY <2>3, <2>4
<1>15. ArchiveIsWhole'
  BY DEF ArchiveIsWhole, AtMember
<1> QED
  BY <1>1, <1>2, <1>9, <1>11, <1>13, <1>14, <1>15 DEF ArchiveInv

LEMMA EnteringKeeps ==
  ASSUME ArchiveInv, EnterArchive
  PROVE  ArchiveInv'
<1>1. PICK a, s, e, x, hs : a = archive /\ s = open /\ e = entries /\ x = expanded /\ hs = handed
  OBVIOUS
<1>2. /\ a \in Archives /\ e \in 0..MaxEntries /\ x \in 0..MaxExpanded
      /\ Nesting(a, s) /\ Shallow(s) /\ Accounted(a, s, e, x, hs)
  BY <1>1 DEF ArchiveInv, EnterArchive, AtMember
<1>3. PICK b : Precedes(s, b) /\ PartOf(a, s, b) /\ Counts(SoFar(s, b), e, x, hs)
  BY <1>2 DEF Accounted
<1>4. PICK n : n = Len(s)
  OBVIOUS
<1>5. PICK one : one = Alone(s[n].archive, s[n].next)
  OBVIOUS
<1>6. PICK inner : inner = InnerOf(s)
  OBVIOUS
<1>7. PICK t : t = Into(s, inner)
  OBVIOUS
<1>8. AtMemberOf(s) /\ AtArchiveOf(s) /\ HasRoom(s)
  BY <1>1 DEF EnterArchive, AtMember, Member, Level, AtMemberOf, AtArchiveOf, HasRoom
<1>9. PICK r : r = SoFar(s, b)
  OBVIOUS
<1>10. /\ Nesting(a, t) /\ Shallow(t)
       /\ Accounted(a, t, r.entries + one.entries, r.expanded + one.expanded, r.handed)
  BY <1>2, <1>3, <1>4, <1>5, <1>6, <1>7, <1>8, <1>9, ArchiveEntered
<1>11. r.entries = e /\ r.expanded = x /\ r.handed = hs
  BY <1>3, <1>9 DEF Counts
<1>12. one.entries = 1 /\ one.expanded = Member.size /\ Member.size \in Nat
  <2>1. PICK l, i : l = s[n].archive /\ i = s[n].next
    OBVIOUS
  <2>2. l \in Archives /\ i \in Nat \ {0} /\ Len(MembersOf[l]) \in Nat
    <3>1. n \in 1..Len(s)
      BY <1>2, <1>4 DEF Nesting
    <3> QED
      BY <1>2, <1>4, <2>1, <3>1, OfTheStack
  <2>3. i \in 1..Len(MembersOf[l])
    <3>1. i <= Len(MembersOf[l])
      BY <1>4, <1>8, <2>1 DEF AtMemberOf
    <3> QED
      BY <2>2, <3>1
  <2>4. MembersOf[l][i].size \in Nat
    BY <2>2, <2>3, MemberKinds
  <2>5. Member = MembersOf[l][i] /\ Member.kind = "zip"
    BY <1>1, <1>4, <2>1 DEF EnterArchive, Member, Level
  <2>6. one.entries = 1 /\ one.expanded = MembersOf[l][i].size
    BY <1>5, <2>1, <2>5 DEF Alone
  <2> QED
    BY <2>4, <2>5, <2>6
<1>13. open' = t /\ entries' = e + one.entries /\ expanded' = x + one.expanded /\ handed' = hs
       /\ archive' = a /\ visit' = "reading"
  <2>1. inner = Member.zip
    BY <1>1, <1>6 DEF InnerOf, Member, Level
  <2>2. open' = t
    BY <1>1, <1>7, <2>1 DEF EnterArchive, Advanced, OneOn, Into
  <2>3. entries' = e + 1 /\ expanded' = x + Member.size
    BY <1>1 DEF EnterArchive, Counted, Expanded
  <2> QED
    BY <1>1, <1>12, <2>2, <2>3 DEF EnterArchive, AtMember
<1>14. entries' \in 0..MaxEntries /\ expanded' \in 0..MaxExpanded
  <2>1. e < MaxEntries /\ entries' = e + 1 /\ MaxEntries \in Nat
    BY <1>1, LimitsAssumption DEF EnterArchive, Counted, LimitsAssumption
  <2>2. x + Member.size <= MaxExpanded /\ expanded' = x + Member.size /\ MaxExpanded \in Nat
    BY <1>1, LimitsAssumption DEF EnterArchive, Expanded, LimitsAssumption
  <2>3. entries' \in 0..MaxEntries
    BY <1>2, <2>1
  <2>4. expanded' \in 0..MaxExpanded
    BY <1>2, <1>12, <2>2
  <2> QED
    BY <2>3, <2>4
<1>15. ArchiveIsWhole'
  BY <1>13 DEF ArchiveIsWhole
<1> QED
  BY <1>2, <1>10, <1>11, <1>13, <1>14, <1>15 DEF ArchiveInv

LEMMA LeavingKeeps ==
  ASSUME ArchiveInv, LeaveArchive
  PROVE  ArchiveInv'
<1>1. PICK a, s, e, x, hs : a = archive /\ s = open /\ e = entries /\ x = expanded /\ hs = handed
  OBVIOUS
<1>2. /\ a \in Archives /\ e \in 0..MaxEntries /\ x \in 0..MaxExpanded
      /\ Nesting(a, s) /\ Shallow(s) /\ Accounted(a, s, e, x, hs)
  BY <1>1 DEF ArchiveInv, LeaveArchive
<1>3. PICK b : Precedes(s, b) /\ PartOf(a, s, b) /\ Counts(SoFar(s, b), e, x, hs)
  BY <1>2 DEF Accounted
<1>4. AtEndOf(s)
  BY <1>1 DEF LeaveArchive, Level, AtEndOf
<1>5. PICK r : r = SoFar(s, b)
  OBVIOUS
<1>6. r.entries = e /\ r.expanded = x /\ r.handed = hs
  BY <1>3, <1>5 DEF Counts
<1>7. PICK t : t = Back(s)
  OBVIOUS
<1>8. /\ open' = t /\ archive' = a /\ entries' = e /\ expanded' = x /\ handed' = hs
      /\ visit' = IF Len(s) = 1 THEN "done" ELSE "reading"
  BY <1>1, <1>7 DEF LeaveArchive, Back
<1>9. CASE Len(s) = 1
  <2>1. /\ hs = Whole(a).handed /\ e = Whole(a).entries
        /\ x = Whole(a).expanded /\ Whole(a).depth <= MaxArchiveDepth
    BY <1>2, <1>3, <1>4, <1>5, <1>6, <1>9, WholeRead
  <2>2. e <= MaxEntries /\ x <= MaxExpanded
    BY <1>2
  <2>3. Within(Whole(a))
    BY <2>1, <2>2 DEF Within
  <2>4. ArchiveIsWhole'
    <3>1. visit' = "done"
      BY <1>8, <1>9
    <3> QED
      BY <1>8, <2>1, <2>3, <3>1 DEF ArchiveIsWhole
  <2> QED
    BY <1>2, <1>8, <1>9, <2>4 DEF ArchiveInv
<1>10. CASE Len(s) # 1
  <2>1. PICK n : n = Len(s) - 1
    OBVIOUS
  <2>2. n # 0
    BY <1>2, <1>10, <2>1 DEF Nesting
  <2>3. Nesting(a, t) /\ Shallow(t) /\ Accounted(a, t, e, x, hs)
    BY <1>2, <1>3, <1>4, <1>5, <1>6, <1>7, <2>1, <2>2, ArchiveLeft
  <2>4. ArchiveIsWhole'
    BY <1>8, <1>10 DEF ArchiveIsWhole
  <2> QED
    BY <1>2, <1>8, <2>3, <2>4 DEF ArchiveInv
<1> QED
  BY <1>9, <1>10

LEMMA RefusingKeeps ==
  ASSUME ArchiveInv, Refuse
  PROVE  ArchiveInv'
<1>1. PICK a, s, e, x, hs : a = archive /\ s = open /\ e = entries /\ x = expanded /\ hs = handed
  OBVIOUS
<1>2. /\ a \in Archives /\ e \in 0..MaxEntries /\ x \in 0..MaxExpanded
      /\ Nesting(a, s) /\ Accounted(a, s, e, x, hs)
  BY <1>1 DEF ArchiveInv, Refuse, AtMember
<1>3. PICK b : Precedes(s, b) /\ PartOf(a, s, b) /\ Counts(SoFar(s, b), e, x, hs)
  BY <1>2 DEF Accounted
<1>4. PICK n : n = Len(s)
  OBVIOUS
<1>5. PICK r : r = SoFar(s, b)
  OBVIOUS
<1>6. PICK m : m = MembersOf[s[n].archive][s[n].next]
  OBVIOUS
<1>7. AtMemberOf(s) /\ m = Member
  BY <1>1, <1>4, <1>6 DEF Refuse, AtMember, Member, Level, AtMemberOf
<1>8. r.entries = e /\ r.expanded = x
  BY <1>3, <1>5 DEF Counts
<1>9. PICK whole : whole = Whole(a)
  OBVIOUS
<1>10. /\ whole.entries >= e + 1
       /\ m.kind # "directory" => whole.expanded >= x + m.size
       /\ m.kind = "zip" /\ n >= MaxArchiveDepth => whole.depth > MaxArchiveDepth
  BY <1>2, <1>3, <1>4, <1>5, <1>6, <1>7, <1>8, <1>9, MemberCounts
<1>11. whole.entries \in Nat /\ whole.expanded \in Nat /\ MaxEntries \in Nat /\ MaxExpanded \in Nat
       /\ whole.depth \in Nat /\ MaxArchiveDepth \in Nat
  <2>1. MaxArchiveDepth \in 0..MaxArchiveDepth
    BY LimitsAssumption DEF LimitsAssumption
  <2>2. whole \in Tallies
    BY <1>2, <1>9, <2>1, WholeOf DEF Whole
  <2> QED
    BY <2>2, TallyFields, LimitsAssumption DEF LimitsAssumption
<1>12. m.size \in Nat
  <2>1. PICK l, i : l = s[n].archive /\ i = s[n].next
    OBVIOUS
  <2>2. l \in Archives /\ i \in Nat \ {0} /\ Len(MembersOf[l]) \in Nat
    <3>1. n \in 1..Len(s)
      BY <1>2, <1>4 DEF Nesting
    <3> QED
      BY <1>2, <1>4, <2>1, <3>1, OfTheStack
  <2>3. i \in 1..Len(MembersOf[l])
    <3>1. i <= Len(MembersOf[l])
      BY <1>4, <1>7, <2>1 DEF AtMemberOf
    <3> QED
      BY <2>2, <3>1
  <2> QED
    BY <1>6, <2>1, <2>2, <2>3, MemberKinds
<1>13. ~Within(whole)
  <2>1. OverLimit
    BY DEF Refuse
  <2>2. CASE entries >= MaxEntries
    <3>1. whole.entries > MaxEntries
      BY <1>1, <1>2, <1>10, <1>11, <2>2
    <3> QED
      BY <1>11, <3>1 DEF Within
  <2>3. CASE Member.kind # "directory" /\ expanded + Member.size > MaxExpanded
    <3>1. m.kind # "directory" /\ x + m.size > MaxExpanded
      BY <1>1, <1>7, <2>3
    <3>2. whole.expanded > MaxExpanded
      BY <1>2, <1>10, <1>11, <1>12, <3>1
    <3> QED
      BY <1>11, <3>2 DEF Within
  <2>4. CASE Member.kind = "zip" /\ Len(open) >= MaxArchiveDepth
    <3>1. m.kind = "zip" /\ n >= MaxArchiveDepth
      BY <1>1, <1>4, <1>7, <2>4
    <3>2. whole.depth > MaxArchiveDepth
      BY <1>10, <3>1
    <3> QED
      BY <1>11, <3>2 DEF Within
  <2> QED
    BY <2>1, <2>2, <2>3, <2>4 DEF OverLimit
<1>14. archive' = a /\ visit' = "refused" /\ entries' = e /\ expanded' = x
  BY <1>1 DEF Refuse, Unwind
<1>15. ArchiveIsWhole'
  BY <1>9, <1>13, <1>14 DEF ArchiveIsWhole
<1> QED
  BY <1>2, <1>14, <1>15 DEF ArchiveInv

(* The members handed on form a sequence, to which one is appended.        *)
LEMMA HandedOn ==
  ASSUME ArchiveInv, visit = "reading"
  PROVE  /\ handed \o <<>> = handed
         /\ AtMember => Append(handed, <<Level.archive, Level.next>>) = handed \o <<<<Level.archive, Level.next>>>>
<1>1. PICK a, s, hs : a = archive /\ s = open /\ hs = handed
  OBVIOUS
<1>2. PICK e, x : e = entries /\ x = expanded
  OBVIOUS
<1>3. a \in Archives /\ Nesting(a, s) /\ Accounted(a, s, e, x, hs)
  BY <1>1, <1>2 DEF ArchiveInv
<1>4. PICK b : Precedes(s, b) /\ Counts(SoFar(s, b), e, x, hs)
  BY <1>3 DEF Accounted
<1>5. SoFar(s, b) \in Tallies
  BY <1>3, <1>4, SoFarAdds
<1>6. hs \in Seq(Archives \X Nat)
  <2>1. SoFar(s, b).handed = hs
    BY <1>4 DEF Counts
  <2> QED
    BY <1>5, <2>1, TallyFields
<1>7. hs \o <<>> = hs
  BY <1>6, ConcatEmptySeq
<1>8. PICK n : n = Len(s)
  OBVIOUS
<1>9. PICK one : one = <<s[n].archive, s[n].next>>
  OBVIOUS
<1>10. one \in Archives \X Nat
  <2>1. n \in 1..Len(s)
    BY <1>3, <1>8 DEF Nesting
  <2>2. s[n].archive \in Archives /\ s[n].next \in Nat
    BY <1>3, <2>1, OfTheStack
  <2> QED
    BY <1>9, <2>2
<1>11. Append(hs, one) = hs \o <<one>>
  BY <1>6, <1>10, AppendIsConcat
<1> QED
  BY <1>1, <1>7, <1>8, <1>9, <1>11 DEF Level

LEMMA ArchiveStep == ArchiveInv /\ [ArchiveNext]_archiveVars => ArchiveInv'
<1> SUFFICES ASSUME ArchiveInv, [ArchiveNext]_archiveVars PROVE ArchiveInv'
  OBVIOUS
<1> DEFINE one == Alone(Level.archive, Level.next)
<1>1. CASE SkipDirectory
  <2>1. one.expanded = 0 /\ one.handed = <<>>
    BY <1>1 DEF SkipDirectory, Member, Alone
  <2>2. expanded \in 0..MaxExpanded /\ MaxExpanded \in Nat
    BY LimitsAssumption DEF ArchiveInv, LimitsAssumption
  <2>3. expanded' = expanded + one.expanded /\ expanded' <= MaxExpanded
    BY <1>1, <2>1, <2>2 DEF SkipDirectory
  <2>4. handed' = handed \o one.handed
    BY <1>1, <2>1, HandedOn DEF SkipDirectory, AtMember
  <2> QED
    BY <1>1, <2>3, <2>4, PassingKeeps DEF SkipDirectory
<1>2. CASE SkipMember
  <2>1. one.expanded = Member.size /\ one.handed = <<>>
    BY <1>2 DEF SkipMember, Member, Alone
  <2>2. expanded' = expanded + one.expanded /\ expanded' <= MaxExpanded
    BY <1>2, <2>1 DEF SkipMember, Expanded
  <2>3. handed' = handed \o one.handed
    BY <1>2, <2>1, HandedOn DEF SkipMember, AtMember
  <2> QED
    BY <1>2, <2>2, <2>3, PassingKeeps DEF SkipMember
<1>3. CASE HandOn
  <2>1. one.expanded = Member.size /\ one.handed = <<<<Level.archive, Level.next>>>>
    BY <1>3 DEF HandOn, Member, Alone
  <2>2. expanded' = expanded + one.expanded /\ expanded' <= MaxExpanded
    BY <1>3, <2>1 DEF HandOn, Expanded
  <2>3. handed' = handed \o one.handed
    BY <1>3, <2>1, HandedOn DEF HandOn, AtMember
  <2> QED
    BY <1>3, <2>2, <2>3, PassingKeeps DEF HandOn
<1>4. CASE EnterArchive
  BY <1>4, EnteringKeeps
<1>5. CASE LeaveArchive
  BY <1>5, LeavingKeeps
<1>6. CASE Refuse
  BY <1>6, RefusingKeeps
<1>7. CASE VisitFails
  BY <1>7 DEF VisitFails, Unwind, ArchiveInv, ArchiveIsWhole
<1>8. CASE UNCHANGED archiveVars
  BY <1>8 DEF archiveVars, ArchiveInv, ArchiveIsWhole
<1> QED
  BY <1>1, <1>2, <1>3, <1>4, <1>5, <1>6, <1>7, <1>8 DEF ArchiveNext

(* visit_zip reads the whole of an archive or refuses it, whatever archives*)
(* are nested in it, in whatever order and however deep, be it itself, and *)
(* whatever the limits: what it hands on is all there is, in order, and    *)
(* each once, and the limits refuse the archives that break them and no    *)
(* others.                                                                 *)
THEOREM ArchiveAlwaysWhole == ArchiveSpec => []ArchiveIsWhole
<1>1. ArchiveInv => ArchiveIsWhole
  BY DEF ArchiveInv
<1> QED
  BY <1>1, ArchiveStart, ArchiveStep, PTL DEF ArchiveSpec

-----------------------------------------------------------------------------
(* TableSchema.                                                            *)

(* Of as many numbers and one more than a set has members, one leads to    *)
(* none of them, and there is a least such.                                *)
LEMMA FreeNumber ==
  ASSUME NEW from \in Nat, NEW used, IsFiniteSet(used), NEW c, c = Cardinality(used),
         NEW f, \A k, l \in from..(from + c) : f[k] = f[l] => k = l
  PROVE  \E k \in from..(from + c) : f[k] \notin used /\ \A l \in from..(k - 1) : f[l] \in used
<1>1. c \in Nat
  BY FS_CardinalityType
<1> DEFINE K == from..(from + c)
<1>2. IsFiniteSet(K) /\ Cardinality(K) = c + 1
  <2>1. from \in Int /\ from + c \in Int
    BY <1>1
  <2>2. IsFiniteSet(from..(from + c)) /\ Cardinality(from..(from + c)) =
          IF from > from + c THEN 0 ELSE (from + c) - from + 1
    BY <2>1, FS_Interval
  <2> QED
    BY <1>1, <2>2
<1>3. PICK x \in K : f[x] \notin used
  <2> SUFFICES ASSUME \A x \in K : f[x] \in used PROVE FALSE
    OBVIOUS
  <2> HIDE DEF K
  <2>1. PICK g : g = [x \in K |-> f[x]]
    OBVIOUS
  <2>2. g \in [K -> used]
    BY <2>1
  <2>3. Cardinality(used) < Cardinality(K)
    BY <1>1, <1>2
  <2>4. \E x, y \in K : x # y /\ g[x] = g[y]
    BY <1>2, <2>2, <2>3, FS_PigeonHole
  <2>5. \E x, y \in K : x # y /\ f[x] = f[y]
    BY <2>1, <2>4
  <2> QED
    BY <2>5 DEF K
<1> DEFINE Free == {k \in K : f[k] \notin used}
<1>4. Free \in SUBSET Nat /\ x \in Free
  BY <1>1, <1>3
<1>5. PICK k \in Free : \A y \in Free : k <= y
  <2> HIDE DEF Free
  <2> QED
    BY <1>4, LeastNumber
<1>6. ASSUME NEW l \in from..(k - 1) PROVE f[l] \in used
  <2>1. k \in Nat /\ k <= from + c
    BY <1>1
  <2>2. l \in K /\ ~(k <= l)
    BY <1>1, <2>1
  <2> QED
    BY <1>5, <2>2
<1> QED
  BY <1>5, <1>6

(* A number makes a name another one, whatever the case.                   *)
Numbers == {"_", "__"} \X Nat

LEMMA NameFields ==
  ASSUME NEW name \in Names
  PROVE  name = [text |-> name.text, numbers |-> name.numbers] /\ name.text \in DOMAIN LowerCase
         /\ name.numbers \in Seq(Numbers)
BY DEF Names, Numbers

LEMMA NameOf ==
  ASSUME NEW t \in DOMAIN LowerCase, NEW p \in Seq(Numbers)
  PROVE  [text |-> t, numbers |-> p] \in Names
BY DEF Names, Numbers

LEMMA LoweredFields ==
  ASSUME NEW name \in Names
  PROVE  Lowered(name).numbers = name.numbers
BY DEF Names, Lowered

LEMMA NumbersDiffer ==
  ASSUME NEW base \in Names, NEW separator \in {"_", "__"}, NEW k \in Nat, NEW l \in Nat
  PROVE  /\ Numbered(base, separator, k) \in Names
         /\ Lowered(Numbered(base, separator, k)) = Lowered(Numbered(base, separator, l)) => k = l
         /\ Numbered(base, separator, k) = Numbered(base, separator, l) => k = l
<1>1. PICK t, n : t = base.text /\ n = base.numbers
  OBVIOUS
<1>2. base = [text |-> t, numbers |-> n] /\ t \in DOMAIN LowerCase /\ n \in Seq(Numbers)
  BY <1>1, NameFields
<1>3. PICK e : e = <<separator, k>>
  OBVIOUS
<1>4. PICK d : d = <<separator, l>>
  OBVIOUS
<1>5. e \in Numbers /\ d \in Numbers /\ (e = d => k = l)
  BY <1>3, <1>4 DEF Numbers
<1>6. PICK p : p = Append(n, e)
  OBVIOUS
<1>7. PICK q : q = Append(n, d)
  OBVIOUS
<1>8. p \in Seq(Numbers)
  BY <1>2, <1>5, <1>6, AppendProperties
<1>9. p = q => e = d
  <2>1. p[Len(n) + 1] = e /\ q[Len(n) + 1] = d
    BY <1>2, <1>5, <1>6, <1>7, AppendProperties, ZenonT(30)
  <2> QED
    BY <2>1
<1>10. Numbered(base, separator, k) = [text |-> t, numbers |-> p]
  <2>1. Numbered(base, separator, k) = [base EXCEPT !.numbers = Append(base.numbers, e)]
    BY <1>3 DEF Numbered
  <2>2. Numbered(base, separator, k) = [base EXCEPT !.numbers = p]
    BY <1>1, <1>6, <2>1
  <2> QED
    BY <1>2, <2>2
<1>11. Numbered(base, separator, l) = [text |-> t, numbers |-> q]
  <2>1. Numbered(base, separator, l) = [base EXCEPT !.numbers = Append(base.numbers, d)]
    BY <1>4 DEF Numbered
  <2>2. Numbered(base, separator, l) = [base EXCEPT !.numbers = q]
    BY <1>1, <1>7, <2>1
  <2> QED
    BY <1>2, <2>2
<1>12. Numbered(base, separator, k) \in Names /\ Numbered(base, separator, l) \in Names
  <2>1. q \in Seq(Numbers)
    BY <1>2, <1>5, <1>7, AppendProperties
  <2> QED
    BY <1>2, <1>8, <1>10, <1>11, <2>1, NameOf
<1>13. Numbered(base, separator, k).numbers = p /\ Numbered(base, separator, l).numbers = q
  <2>1. [text |-> t, numbers |-> p].numbers = p
    OBVIOUS
  <2>2. [text |-> t, numbers |-> q].numbers = q
    OBVIOUS
  <2> QED
    BY <1>10, <1>11, <2>1, <2>2, Zenon
<1>14. ASSUME Lowered(Numbered(base, separator, k)) = Lowered(Numbered(base, separator, l)) PROVE k = l
  <2>1. Lowered(Numbered(base, separator, k)).numbers = p
    BY <1>12, <1>13, LoweredFields
  <2>2. Lowered(Numbered(base, separator, l)).numbers = q
    BY <1>12, <1>13, LoweredFields
  <2> QED
    BY <1>5, <1>9, <1>14, <2>1, <2>2
<1>15. ASSUME Numbered(base, separator, k) = Numbered(base, separator, l) PROVE k = l
  BY <1>5, <1>9, <1>13, <1>15
<1> QED
  BY <1>12, <1>14, <1>15

(* The name given to a column is one no earlier column has.                *)
LEMMA FirstFreeIsFree ==
  ASSUME NEW base \in Names, NEW from \in Nat, NEW used, IsFiniteSet(used)
  PROVE  FirstFree(base, from, used) \in Names /\ Lowered(FirstFree(base, from, used)) \notin used
<1> DEFINE c == Cardinality(used)
           free(k) == Lowered(Numbered(base, "__", k)) \notin used
           f == [k \in Nat |-> Lowered(Numbered(base, "__", k))]
<1>1. c \in Nat
  BY FS_CardinalityType
<1>2. \A k \in from..(from + c) : k \in Nat
  <2> HIDE DEF c
  <2> QED
    BY <1>1
<1>3. \A k, l \in from..(from + c) : f[k] = f[l] => k = l
  <2> HIDE DEF c
  <2> QED
    BY <1>2, NumbersDiffer
<1>4. \E k \in from..(from + c) : f[k] \notin used /\ \A l \in from..(k - 1) : f[l] \in used
  <2>1. PICK n : n = c
    OBVIOUS
  <2>2. \A k, l \in from..(from + n) : f[k] = f[l] => k = l
    BY <1>3, <2>1
  <2> HIDE DEF f
  <2>3. \E k \in from..(from + n) : f[k] \notin used /\ \A l \in from..(k - 1) : f[l] \in used
    BY <2>1, <2>2, FreeNumber
  <2> QED
    BY <2>1, <2>3
<1>5. \E k \in from..(from + c) : free(k) /\ \A l \in from..(k - 1) : ~free(l)
  <2>1. PICK k \in from..(from + c) : f[k] \notin used /\ \A l \in from..(k - 1) : f[l] \in used
    BY <1>4
  <2>2. k \in Nat /\ \A l \in from..(k - 1) : l \in Nat
    <3> HIDE DEF c, f
    <3> QED
      BY <1>2
  <2> HIDE DEF c
  <2> QED
    BY <2>1, <2>2
<1> HIDE DEF f
<1>6. PICK k : k = CHOOSE m \in from..(from + c) : free(m) /\ \A l \in from..(m - 1) : ~free(l)
  OBVIOUS
<1>7. k \in from..(from + c) /\ free(k)
  <2> HIDE DEF c
  <2> QED
    BY <1>5, <1>6
<1>8. FirstFree(base, from, used) = Numbered(base, "__", k)
  BY <1>6 DEF FirstFree
<1>9. k \in Nat
  BY <1>2, <1>7
<1> QED
  BY <1>7, <1>8, <1>9, NumbersDiffer

LEMMA UnusedIsUnused ==
  ASSUME NEW name \in Names, NEW index \in Nat, NEW used, IsFiniteSet(used)
  PROVE  Unused(name, index, used) \in Names /\ Lowered(Unused(name, index, used)) \notin used
<1>1. Name("column") \in Names
  <2>1. <<>> \in Seq(Numbers)
    BY EmptySeq
  <2>2. "column" \in DOMAIN LowerCase
    BY TextsAssumption DEF TextsAssumption
  <2> QED
    BY <2>1, <2>2, NameOf DEF Name
<1>2. Numbered(Name("column"), "_", index) \in Names
  BY <1>1, NumbersDiffer
<1>3. PICK base : base = IF name = Name("") THEN Numbered(Name("column"), "_", index) ELSE name
  OBVIOUS
<1>4. base \in Names
  BY <1>2, <1>3
<1>5. Unused(name, index, used) = IF Lowered(base) \in used THEN FirstFree(base, 2, used) ELSE base
  BY <1>3 DEF Unused
<1> QED
  BY <1>4, <1>5, FirstFreeIsFree

(* The names of columns are finitely many.                                 *)
LEMMA UsedAreFinite ==
  ASSUME NEW names \in Seq(Names)
  PROVE  IsFiniteSet(NamesUsed(names))
<1>1. Len(names) \in Nat
  OBVIOUS
<1>2. PICK n : n = Len(names)
  OBVIOUS
<1>3. PICK f : f = [i \in 1..n |-> Lowered(names[i])]
  OBVIOUS
<1>4. f \in Surjection(1..n, NamesUsed(names))
  BY <1>2, <1>3 DEF Surjection, NamesUsed
<1>5. IsFiniteSet(1..n)
  BY <1>1, <1>2, FS_Interval
<1> QED
  BY <1>4, <1>5, FS_Surjection

LEMMA OneMoreName ==
  ASSUME NEW before \in Seq(Names), NEW name \in Names, NEW index \in Nat,
         NEW new, new = Unused(name, index, NamesUsed(before)),
         NEW after, after = Append(before, new)
  PROVE  /\ after \in Seq(Names) /\ Len(after) = Len(before) + 1
         /\ Distinct(before) => Distinct(after)
<1>1. new \in Names /\ Lowered(new) \notin NamesUsed(before)
  BY UsedAreFinite, UnusedIsUnused
<1>2. /\ after \in Seq(Names) /\ Len(after) = Len(before) + 1
      /\ \A i \in 1..Len(before) : after[i] = before[i]
      /\ after[Len(before) + 1] = new
  BY <1>1, AppendProperties
<1>3. PICK n : n = Len(before)
  OBVIOUS
<1>4. n \in Nat
  BY <1>3
<1>5. ASSUME Distinct(before) PROVE Distinct(after)
  <2> SUFFICES ASSUME NEW j \in 1..(n + 1), NEW k \in 1..(n + 1), Lowered(after[j]) = Lowered(after[k])
               PROVE  j = k
    BY <1>2, <1>3 DEF Distinct
  <2>1. \A i \in 1..n : Lowered(after[i]) \in NamesUsed(before) /\ after[i] = before[i]
    BY <1>2, <1>3 DEF NamesUsed
  <2>2. Lowered(after[n + 1]) \notin NamesUsed(before)
    BY <1>1, <1>2, <1>3
  <2>3. \A i \in 1..(n + 1) : i = n + 1 \/ i \in 1..n
    BY <1>4
  <2>4. CASE j \in 1..n /\ k \in 1..n
    BY <1>3, <1>5, <2>1, <2>4 DEF Distinct
  <2>5. CASE j \notin 1..n /\ k \notin 1..n
    BY <2>3, <2>5
  <2>6. CASE j \in 1..n /\ k \notin 1..n
    BY <2>1, <2>2, <2>3, <2>6
  <2>7. CASE j \notin 1..n /\ k \in 1..n
    BY <2>1, <2>2, <2>3, <2>7
  <2> QED
    BY <2>4, <2>5, <2>6, <2>7
<1> QED
  BY <1>2, <1>5

(* The columns of a file are named one after the other, each unlike those  *)
(* before it: schema_with_field_ids leaves no two alike.                   *)
LEMMA NamedIsDistinct ==
  ASSUME NEW names \in Seq(Names)
  PROVE  Named(names) \in Seq(Names) /\ Len(Named(names)) = Len(names) /\ Distinct(Named(names))
<1> DEFINE n == Len(names)
           T == Seq(Names)
           Kept(g) == g = [i \in 0..n |->
             IF i = 0 THEN <<>>
             ELSE LET before == g[i - 1] IN Append(before, Unused(names[i], i, NamesUsed(before)))]
           step == [x \in (1..n) \X T |-> Append(x[2], Unused(names[x[1]], x[1], NamesUsed(x[2])))]
<1>1. n \in Nat /\ \A i \in 1..n : names[i] \in Names
  BY ElementOfSeq
<1> HIDE DEF n
<1>2. step \in Steps(n, T)
  <2> SUFFICES ASSUME NEW i \in 1..n, NEW q \in T
               PROVE  Append(q, Unused(names[i], i, NamesUsed(q))) \in T
    <3> HIDE DEF T
    <3> QED
      BY DEF Steps
  <2>1. i \in Nat /\ names[i] \in Names
    BY <1>1
  <2> QED
    BY <2>1, OneMoreName
<1>3. <<>> \in T
  BY EmptySeq
<1>4. PICK f : Solution(f, n, T, <<>>, step)
  <2> HIDE DEF step, T
  <2> QED
    BY <1>1, <1>2, <1>3, Recursion
<1>5. Kept(f)
  <2> HIDE DEF T
  <2>1. ASSUME NEW i \in 1..n
        PROVE  f[i] = Append(f[i - 1], Unused(names[i], i, NamesUsed(f[i - 1])))
    <3>1. f[i - 1] \in T
      BY <1>1, <1>4 DEF Solution
    <3> QED
      BY <1>4, <3>1 DEF Solution
  <2>2. \A i \in 0..n : i # 0 => i \in 1..n
    BY <1>1
  <2> QED
    BY <1>4, <2>1, <2>2 DEF Solution
<1> HIDE DEF Kept, step, T
<1>6. PICK k : k = CHOOSE g : Kept(g)
  OBVIOUS
<1>7. Named(names) = k[n]
  BY <1>6 DEF Named, Kept, n
<1>8. Kept(k)
  BY <1>5, <1>6
<1>9. k[0] = <<>>
  BY <1>1, <1>8 DEF Kept
<1>10. ASSUME NEW i \in 1..n
       PROVE  k[i] = Append(k[i - 1], Unused(names[i], i, NamesUsed(k[i - 1])))
  <2>1. i \in 0..n /\ i # 0
    BY <1>1
  <2> QED
    BY <2>1, <1>8 DEF Kept
<1> DEFINE Good(i) == k[i] \in Seq(Names) /\ Len(k[i]) = i /\ Distinct(k[i])
           Right == {i \in Nat : i <= n => Good(i)}
<1>11. 0 \in Right
  <2>1. <<>> \in Seq(Names) /\ Len(<<>>) = 0
    BY EmptySeq
  <2>2. Distinct(<<>>)
    BY <2>1 DEF Distinct
  <2>3. Good(0)
    BY <1>9, <2>1, <2>2
  <2> HIDE DEF Good
  <2> QED
    BY <2>3
<1>12. \A i \in Nat : i \in Right => i + 1 \in Right
  <2> SUFFICES ASSUME NEW i \in Nat, i + 1 <= n, Good(i) PROVE Good(i + 1)
    <3> HIDE DEF Good
    <3> QED
      BY <1>1
  <2>1. i + 1 \in 1..n /\ (i + 1) - 1 = i /\ i + 1 \in Nat
    BY <1>1
  <2>2. names[i + 1] \in Names
    BY <1>1, <2>1
  <2>3. PICK before : before = k[i]
    OBVIOUS
  <2>4. PICK new : new = Unused(names[i + 1], i + 1, NamesUsed(before))
    OBVIOUS
  <2>5. k[i + 1] = Append(before, new)
    BY <1>10, <2>1, <2>3, <2>4
  <2>6. before \in Seq(Names) /\ Len(before) = i /\ Distinct(before)
    BY <2>3
  <2>7. PICK after : after = Append(before, new)
    OBVIOUS
  <2>8. after \in Seq(Names) /\ Len(after) = Len(before) + 1 /\ Distinct(after)
    <3>1. PICK x, l : x = names[i + 1] /\ l = i + 1
      OBVIOUS
    <3>2. x \in Names /\ l \in Nat
      BY <2>1, <2>2, <3>1
    <3>3. new = Unused(x, l, NamesUsed(before))
      BY <2>4, <3>1
    <3> HIDE DEF Good
    <3> QED
      BY <2>6, <2>7, <3>2, <3>3, OneMoreName, Zenon
  <2>9. k[i + 1] = after
    BY <2>5, <2>7
  <2> QED
    BY <2>6, <2>8, <2>9
<1>13. n \in Right
  <2> HIDE DEF Right
  <2> QED
    BY <1>1, <1>11, <1>12, SetInduction
<1> QED
  BY <1>1, <1>7, <1>13 DEF n

(* A column more than those merged, for the file of a row.                 *)
LEMMA SourceColumnIsNew ==
  ASSUME IsFiniteSet(DOMAIN merged)
  PROVE  SourceColumn \in Names /\ SourceColumn \notin DOMAIN merged
<1> DEFINE base == Name("__source_file")
           used == DOMAIN merged
           c == Cardinality(used)
           taken(k) == Numbered(base, "_", k) \in used
           f == [k \in Nat |-> Numbered(base, "_", k)]
<1>1. base \in Names
  <2>1. <<>> \in Seq(Numbers)
    BY EmptySeq
  <2>2. "__source_file" \in DOMAIN LowerCase
    BY TextsAssumption DEF TextsAssumption
  <2> QED
    BY <2>1, <2>2, NameOf DEF Name
<1>2. CASE base \notin used
  BY <1>1, <1>2 DEF SourceColumn
<1>3. CASE base \in used
  <2>1. c \in Nat
    BY FS_CardinalityType
  <2>2. \A k \in 1..(c + 1) : k \in Nat
    <3> HIDE DEF c
    <3> QED
      BY <2>1
  <2>3. \A k, l \in 1..(c + 1) : f[k] = f[l] => k = l
    <3> HIDE DEF c, base
    <3> QED
      BY <1>1, <2>2, NumbersDiffer
  <2>4. \E k \in 1..(c + 1) : f[k] \notin used /\ \A l \in 1..(k - 1) : f[l] \in used
    <3>1. PICK n : n = c
      OBVIOUS
    <3>2. 1 + n = n + 1
      BY <2>1, <3>1
    <3>3. \A k, l \in 1..(1 + n) : f[k] = f[l] => k = l
      <4> HIDE DEF f
      <4> QED
        BY <2>3, <3>1, <3>2
    <3>4. PICK u : u = used
      OBVIOUS
    <3> HIDE DEF f
    <3>5. \E k \in 1..(1 + n) : f[k] \notin u /\ \A l \in 1..(k - 1) : f[l] \in u
      BY <3>1, <3>3, <3>4, FreeNumber
    <3> QED
      BY <3>1, <3>2, <3>4, <3>5
  <2>5. \E k \in 1..(c + 1) : ~taken(k) /\ \A l \in 1..(k - 1) : taken(l)
    <3>1. PICK k \in 1..(c + 1) : f[k] \notin used /\ \A l \in 1..(k - 1) : f[l] \in used
      BY <2>4
    <3>2. k \in Nat /\ \A l \in 1..(k - 1) : l \in Nat
      <4> HIDE DEF c, f
      <4> QED
        BY <2>2
    <3> HIDE DEF c
    <3> QED
      BY <3>1, <3>2
  <2> HIDE DEF f
  <2>6. PICK k : k = CHOOSE m \in 1..(c + 1) : ~taken(m) /\ \A l \in 1..(m - 1) : taken(l)
    OBVIOUS
  <2>7. k \in 1..(c + 1) /\ ~taken(k)
    <3> HIDE DEF c
    <3> QED
      BY <2>5, <2>6
  <2>8. SourceColumn = Numbered(base, "_", k)
    BY <1>3, <2>6 DEF SourceColumn
  <2>9. k \in Nat
    BY <2>2, <2>7
  <2>10. Numbered(base, "_", k) \in Names
    <3> HIDE DEF base
    <3> QED
      BY <1>1, <2>9, NumbersDiffer
  <2> QED
    BY <2>7, <2>8, <2>10
<1> QED
  BY <1>2, <1>3

(* A map lists each of its keys, in some order.                            *)
LEMMA OrderedIsListed ==
  ASSUME NEW S, IsFiniteSet(S)
  PROVE  Ordered(S) \in Seq(S) /\ ToSet(Ordered(S)) = S
<1> DEFINE n == Cardinality(S)
           T == Seq(S)
           Next1(before) == LET rest == S \ ToSet(before)
                            IN IF rest = {} THEN before ELSE Append(before, CHOOSE x \in rest : TRUE)
           Kept(g) == g = [k \in 0..n |->
             IF k = 0 THEN <<>>
             ELSE LET before == g[k - 1]
                      rest == S \ ToSet(before)
                  IN IF rest = {} THEN before ELSE Append(before, CHOOSE x \in rest : TRUE)]
           step == [x \in (1..n) \X T |-> Next1(x[2])]
<1>1. n \in Nat
  BY FS_CardinalityType
<1>2. ASSUME NEW q \in T, S \ ToSet(q) # {}
      PROVE  \E x \in S : x \notin ToSet(q) /\ Next1(q) = Append(q, x)
  <2>1. PICK x : x = CHOOSE y \in S \ ToSet(q) : TRUE
    OBVIOUS
  <2>2. x \in S \ ToSet(q)
    BY <1>2, <2>1
  <2> QED
    BY <1>2, <2>1, <2>2
<1>3. ASSUME NEW q \in T PROVE Next1(q) \in T
  <2>1. CASE S \ ToSet(q) = {}
    BY <2>1
  <2>2. CASE S \ ToSet(q) # {}
    <3>1. PICK x \in S : Next1(q) = Append(q, x)
      BY <1>2, <2>2
    <3> HIDE DEF Next1
    <3> QED
      BY <3>1, AppendProperties
  <2> QED
    BY <2>1, <2>2
<1> HIDE DEF n
<1>4. step \in Steps(n, T)
  <2> HIDE DEF T, Next1
  <2> QED
    BY <1>3 DEF Steps
<1>5. <<>> \in T
  BY EmptySeq
<1>6. PICK f : Solution(f, n, T, <<>>, step)
  <2> HIDE DEF step, T
  <2> QED
    BY <1>1, <1>4, <1>5, Recursion
<1>7. Kept(f)
  <2> HIDE DEF T
  <2>1. ASSUME NEW i \in 1..n PROVE f[i] = Next1(f[i - 1])
    <3>1. f[i - 1] \in T
      BY <1>1, <1>6 DEF Solution
    <3> HIDE DEF Next1
    <3> QED
      BY <1>6, <3>1 DEF Solution
  <2>2. \A i \in 0..n : i # 0 => i \in 1..n
    BY <1>1
  <2> QED
    BY <1>6, <2>1, <2>2 DEF Solution
<1> HIDE DEF Kept, step, T
<1>8. PICK k : k = CHOOSE g : Kept(g)
  OBVIOUS
<1>9. Ordered(S) = k[n]
  BY <1>8 DEF Ordered, Kept, n
<1>10. Kept(k)
  BY <1>7, <1>8
<1>11. k[0] = <<>>
  BY <1>1, <1>10 DEF Kept
<1>12. ASSUME NEW i \in 1..n PROVE k[i] = Next1(k[i - 1])
  <2>1. i \in 0..n /\ i # 0
    BY <1>1
  <2> QED
    BY <2>1, <1>10 DEF Kept
<1> HIDE DEF Next1
<1> DEFINE Good(i) == k[i] \in Seq(S) /\ IsFiniteSet(ToSet(k[i])) /\ Cardinality(ToSet(k[i])) = i
           Right == {i \in Nat : i <= n => Good(i)}
<1>13. 0 \in Right
  <2>1. Good(0)
    BY <1>11, EmptySeq, NothingInEmpty, FS_EmptySet
  <2> HIDE DEF Good
  <2> QED
    BY <2>1
<1>14. \A i \in Nat : i \in Right => i + 1 \in Right
  <2> SUFFICES ASSUME NEW i \in Nat, i + 1 <= n, Good(i) PROVE Good(i + 1)
    <3> HIDE DEF Good
    <3> QED
      BY <1>1
  <2>1. i + 1 \in 1..n /\ (i + 1) - 1 = i
    BY <1>1
  <2>2. PICK q : q = k[i]
    OBVIOUS
  <2>3. q \in Seq(S) /\ IsFiniteSet(ToSet(q)) /\ Cardinality(ToSet(q)) = i
    BY <2>2
  <2>4. S \ ToSet(q) # {}
    <3>1. ToSet(q) # S
      BY <1>1, <2>1, <2>3 DEF n
    <3> QED
      BY <2>3, <3>1, SeqFacts
  <2>5. PICK x \in S : x \notin ToSet(q) /\ Next1(q) = Append(q, x)
    BY <1>2, <2>3, <2>4 DEF T
  <2>6. k[i + 1] = Append(q, x)
    BY <1>12, <2>1, <2>2, <2>5
  <2>7. ToSet(Append(q, x)) = ToSet(q) \cup {x}
    BY <2>3, SeqFacts
  <2>8. IsFiniteSet(ToSet(q) \cup {x}) /\ Cardinality(ToSet(q) \cup {x}) = i + 1
    BY <2>3, <2>5, FS_AddElement
  <2>9. Append(q, x) \in Seq(S)
    BY <2>3, AppendProperties
  <2> QED
    BY <2>6, <2>7, <2>8, <2>9
<1>15. Good(n)
  <2>1. n \in Right
    <3> HIDE DEF Right
    <3> QED
      BY <1>1, <1>13, <1>14, SetInduction
  <2> HIDE DEF Good
  <2> QED
    BY <1>1, <2>1
<1>16. ToSet(k[n]) = S
  <2>1. ToSet(k[n]) \in SUBSET S
    BY <1>15, SeqFacts
  <2> QED
    BY <1>15, <2>1, FS_Subset DEF n
<1> QED
  BY <1>9, <1>15, <1>16

-----------------------------------------------------------------------------
(* The table is the union of the columns read so far: each has the type    *)
(* those that have it agree on, or is text because two differ or one is.   *)
FieldsOf(i, j) == Written(i.sources[j].header)
TypesUpTo(i, name, m) ==
  {TypeIn(FieldsOf(i, j), name) : j \in {l \in 1..m : name \in NameSet(FieldsOf(i, l))}}
Agreed(type, T) ==
  /\ T # {}
  /\ T # {type} => type = "text" /\ \A t \in T : T # {t}
UnionOf(table, i, m) ==
  /\ DOMAIN table = UNION {NameSet(FieldsOf(i, j)) : j \in 1..m}
  /\ \A n \in DOMAIN table : Agreed(table[n], TypesUpTo(i, n, m))

\* The columns written are those of the table, and that of the source last.
ColumnsFit(i, table, cols) ==
  /\ Len(cols) \in Nat
  /\ DOMAIN table \subseteq NameSet(cols)
  /\ \A k \in 1..Len(cols) :
       /\ cols[k].name \in Names
       /\ cols[k].name \in DOMAIN table => cols[k].type = table[cols[k].name]
  /\ i.tabular => cols[Len(cols)].name \notin DOMAIN table

\* A file has every value of its source in the column's type.
Replaced(i, column) == i.crawled /\ ~i.tabular /\ column.name = Name("name")
FileFits(i, table, cols, output, j) ==
  /\ Distinct(output.names)
  /\ \A k \in 1..Len(cols) :
       cols[k].name \in NameSet(FieldsOf(i, j)) /\ ~Replaced(i, cols[k])
         => output.cells[k] = table[cols[k].name]
FilesFit(i, table, cols, written, next) ==
  /\ written \in Seq(ToSet(written)) /\ Len(written) = next - 1
  /\ \A j \in 1..Len(written) : FileFits(i, table, cols, written[j], j)

SchemaInv ==
  /\ input \in Inputs /\ at \in 1..(Len(input.sources) + 1)
  /\ merging \in {"schema", "write", "done", "failed"}
  /\ merging = "schema" => UnionOf(merged, input, at - 1) /\ files = <<>>
  /\ merging # "schema" => /\ UnionOf(merged, input, Len(input.sources))
                           /\ ColumnsFit(input, merged, columns)
                           /\ FilesFit(input, merged, columns, files, at)
  /\ merging = "done" => at = Len(input.sources) + 1

(* The columns of a file read: as many as its header has, all different.   *)
LEMMA WrittenOf ==
  ASSUME NEW header \in Headers
  PROVE  /\ Len(Written(header)) \in Nat
         /\ IsFiniteSet(NameSet(Written(header))) /\ NameSet(Written(header)) \subseteq Names
         /\ Distinct([j \in 1..Len(Written(header)) |-> Written(header)[j].name])
<1> DEFINE n == Len(header)
           asked == [i \in 1..n |-> header[i].name]
           names == Named(asked)
           w == Written(header)
<1>1. n \in Nat /\ \A i \in 1..n : header[i].name \in Names
  <2>1. PICK H : H = [name : Names, type : STRING]
    OBVIOUS
  <2>2. header \in Seq(H)
    BY <2>1 DEF Headers
  <2>3. n \in Nat /\ \A i \in 1..n : header[i] \in H
    BY <2>2, ElementOfSeq, LenProperties
  <2> QED
    BY <2>1, <2>3
<1> HIDE DEF n
<1>2. asked \in Seq(Names) /\ Len(asked) = n
  BY <1>1
<1> HIDE DEF asked
<1>3. names \in Seq(Names) /\ Len(names) = n /\ Distinct(names)
  BY <1>2, NamedIsDistinct
<1>4. w = [i \in 1..n |-> [name |-> names[i],
                           type |-> IF header[i].type = "null" THEN "text" ELSE header[i].type]]
  BY DEF Written, asked, n
<1> HIDE DEF names, w
<1>5. Len(w) = n /\ \A i \in 1..n : w[i].name = names[i]
  BY <1>1, <1>4
<1>6. [j \in 1..Len(w) |-> w[j].name] = names
  BY <1>3, <1>5, LenProperties
<1>7. NameSet(w) \subseteq Names
  BY <1>3, <1>5, ElementOfSeq DEF NameSet
<1>8. IsFiniteSet(NameSet(w))
  <2>1. PICK f : f = [i \in 1..n |-> w[i].name]
    OBVIOUS
  <2>2. f \in Surjection(1..n, NameSet(w))
    BY <1>5, <2>1 DEF Surjection, NameSet
  <2>3. IsFiniteSet(1..n)
    BY <1>1, FS_Interval
  <2> QED
    BY <2>2, <2>3, FS_Surjection
<1> QED
  BY <1>1, <1>3, <1>5, <1>6, <1>7, <1>8 DEF w

LEMMA SourcesOf ==
  ASSUME NEW i \in Inputs
  PROVE  /\ Len(i.sources) \in Nat /\ ToSet(i.sources) = {i.sources[j] : j \in 1..Len(i.sources)}
         /\ \A j \in 1..Len(i.sources) : i.sources[j].header \in Headers
<1>1. i.sources \in Seq(ToSet(i.sources))
  BY InputsAssumption DEF InputsAssumption
<1>2. Len(i.sources) \in Nat /\ DOMAIN i.sources = 1..Len(i.sources)
  BY <1>1, LenProperties
<1>3. ToSet(i.sources) = {i.sources[j] : j \in 1..Len(i.sources)}
  BY <1>2 DEF ToSet
<1>4. \A j \in 1..Len(i.sources) : i.sources[j].header \in Headers
  BY <1>3, InputsAssumption DEF InputsAssumption
<1> QED
  BY <1>2, <1>3, <1>4

(* A type more: text unless all were this one.                             *)
LEMMA JoinedAgrees ==
  ASSUME NEW old, NEW T, Agreed(old, T), NEW t
  PROVE  Agreed(JoinedType(old, t), T \cup {t})
<1>1. CASE T = {old} /\ old = t
  BY <1>1 DEF Agreed, JoinedType
<1>2. CASE T = {old} /\ old # t
  BY <1>2 DEF Agreed, JoinedType
<1>3. CASE T # {old}
  <2>1. old = "text" /\ T # {} /\ \A x \in T : T # {x}
    BY <1>3 DEF Agreed
  <2>2. \A x \in T \cup {t} : T \cup {t} # {x}
    BY <2>1
  <2>3. JoinedType(old, t) = "text"
    BY <2>1 DEF JoinedType
  <2> QED
    BY <2>2, <2>3 DEF Agreed
<1> QED
  BY <1>1, <1>2, <1>3

(* AddFields: a file more.                                                 *)
LEMMA UnionGrows ==
  ASSUME NEW i, NEW m \in Nat, NEW table, UnionOf(table, i, m),
         NEW fields, fields = FieldsOf(i, m + 1), NEW new,
         new = [n \in DOMAIN table \cup NameSet(fields) |->
                  IF n \notin NameSet(fields) THEN table[n]
                  ELSE LET type == TypeIn(fields, n) IN
                       IF n \in DOMAIN table THEN JoinedType(table[n], type) ELSE type]
  PROVE  UnionOf(new, i, m + 1)
<1>1. 1..(m + 1) = 1..m \cup {m + 1}
  OBVIOUS
<1>2. PICK S : S = 1..m
  OBVIOUS
<1>3. PICK M : M = m + 1
  OBVIOUS
<1>4. PICK L : L = 1..(m + 1)
  OBVIOUS
<1>5. L = S \cup {M}
  BY <1>1, <1>2, <1>3, <1>4
<1>6. DOMAIN table = UNION {NameSet(FieldsOf(i, j)) : j \in S}
  BY <1>2 DEF UnionOf
<1>7. DOMAIN new = DOMAIN table \cup NameSet(fields)
  OBVIOUS
<1>8. DOMAIN new = UNION {NameSet(FieldsOf(i, j)) : j \in L}
  BY <1>3, <1>5, <1>6, <1>7
<1>9. ASSUME NEW n \in DOMAIN new PROVE Agreed(new[n], TypesUpTo(i, n, m + 1))
  <2> DEFINE Before == TypesUpTo(i, n, m)
             After == TypesUpTo(i, n, m + 1)
             type == TypeIn(fields, n)
  <2>1. /\ Before = {TypeIn(FieldsOf(i, j), n) : j \in {l \in S : n \in NameSet(FieldsOf(i, l))}}
        /\ After = {TypeIn(FieldsOf(i, j), n) : j \in {l \in L : n \in NameSet(FieldsOf(i, l))}}
    BY <1>2, <1>4 DEF TypesUpTo
  <2>2. n \in NameSet(fields) => After = Before \cup {type}
    BY <1>3, <1>5, <2>1
  <2>3. n \notin NameSet(fields) => After = Before
    BY <1>3, <1>5, <2>1
  <2>4. n \in DOMAIN table => Agreed(table[n], Before)
    BY DEF UnionOf
  <2>5. n \notin DOMAIN table => Before = {}
    BY <1>6, <2>1
  <2> HIDE DEF Before, After, type
  <2>6. CASE n \notin NameSet(fields)
    <3>1. n \in DOMAIN table /\ new[n] = table[n]
      BY <1>7, <2>6
    <3> QED
      BY <2>3, <2>4, <2>6, <3>1 DEF After
  <2>7. CASE n \in NameSet(fields) /\ n \in DOMAIN table
    <3>1. new[n] = JoinedType(table[n], type)
      BY <1>7, <2>7 DEF type
    <3> QED
      BY <2>2, <2>4, <2>7, <3>1, JoinedAgrees DEF After
  <2>8. CASE n \in NameSet(fields) /\ n \notin DOMAIN table
    <3>1. new[n] = type
      BY <1>7, <2>8 DEF type
    <3>2. After = {type}
      BY <2>2, <2>5, <2>8
    <3> QED
      BY <3>1, <3>2 DEF After, Agreed
  <2> QED
    BY <2>6, <2>7, <2>8
<1> QED
  BY <1>4, <1>8, <1>9 DEF UnionOf

LEMMA UnionIsNames ==
  ASSUME NEW i \in Inputs, NEW table, UnionOf(table, i, Len(i.sources))
  PROVE  IsFiniteSet(DOMAIN table) /\ DOMAIN table \subseteq Names
<1>1. PICK m : m = Len(i.sources)
  OBVIOUS
<1>2. m \in Nat /\ \A j \in 1..m : i.sources[j].header \in Headers
  BY <1>1, SourcesOf
<1>3. \A j \in 1..m : IsFiniteSet(NameSet(FieldsOf(i, j))) /\ NameSet(FieldsOf(i, j)) \subseteq Names
  BY <1>2, WrittenOf DEF FieldsOf
<1>4. PICK f : f = [j \in 1..m |-> NameSet(FieldsOf(i, j))]
  OBVIOUS
<1>5. PICK S : S = {NameSet(FieldsOf(i, j)) : j \in 1..m}
  OBVIOUS
<1>6. f \in Surjection(1..m, S)
  BY <1>4, <1>5 DEF Surjection
<1>7. IsFiniteSet(S)
  <2>1. IsFiniteSet(1..m)
    BY <1>2, FS_Interval
  <2> QED
    BY <1>6, <2>1, FS_Surjection
<1>8. \A T \in S : IsFiniteSet(T) /\ T \subseteq Names
  BY <1>3, <1>5
<1>9. DOMAIN table = UNION S
  BY <1>1, <1>5 DEF UnionOf
<1> QED
  BY <1>7, <1>8, <1>9, FS_UNION

(* BuildTable: the columns of the table, and one for the source.           *)
LEMMA ColumnsListed ==
  ASSUME NEW i, NEW table, DOMAIN table \subseteq Names,
         NEW names \in Seq(DOMAIN table), ToSet(names) = DOMAIN table,
         NEW S, NEW first \in Seq(S), Len(first) = Len(names),
         \A k \in 1..Len(names) : first[k].name = names[k] /\ first[k].type = table[names[k]],
         NEW last, last.name \in Names, last.name \notin DOMAIN table
  PROVE  ColumnsFit(i, table, first \o (IF i.tabular THEN <<last>> ELSE <<>>))
<1> DEFINE n == Len(names)
<1>1. n \in Nat /\ DOMAIN names = 1..n
  BY LenProperties
<1>2. \A k \in 1..n : names[k] \in DOMAIN table
  BY ElementOfSeq
<1>3. \A x \in DOMAIN table : \E k \in 1..n : names[k] = x
  BY <1>1 DEF ToSet
<1>4. PICK cols : cols = first \o (IF i.tabular THEN <<last>> ELSE <<>>)
  OBVIOUS
<1>5. Len(first) = n /\ \A k \in 1..n : first[k].name = names[k] /\ first[k].type = table[names[k]]
  OBVIOUS
<1> HIDE DEF n
<1>6. CASE ~i.tabular
  <2>1. cols = first
    BY <1>4, <1>6
  <2>2. DOMAIN table \subseteq NameSet(cols)
    BY <1>3, <1>5, <2>1 DEF NameSet
  <2> QED
    BY <1>1, <1>2, <1>4, <1>5, <1>6, <2>1, <2>2 DEF ColumnsFit
<1>7. CASE i.tabular
  <2>1. cols = first \o <<last>>
    BY <1>4, <1>7
  <2>2. cols = Append(first, last)
    BY <2>1
  <2>3. /\ Len(cols) = n + 1 /\ cols[n + 1] = last
        /\ \A k \in 1..n : cols[k] = first[k]
    BY <1>5, <2>2, AppendProperties
  <2>4. \A k \in 1..(n + 1) : k \in 1..n \/ k = n + 1
    BY <1>1
  <2>5. \A k \in 1..n : k \in 1..(n + 1)
    BY <1>1
  <2>6. n + 1 \in Nat
    BY <1>1
  <2>7. DOMAIN table \subseteq NameSet(cols)
    <3> SUFFICES ASSUME NEW x \in DOMAIN table PROVE x \in NameSet(cols)
      OBVIOUS
    <3>1. PICK k \in 1..n : names[k] = x
      BY <1>3
    <3>2. cols[k].name = x /\ k \in 1..Len(cols)
      BY <1>5, <2>3, <2>5, <3>1
    <3> QED
      BY <3>2 DEF NameSet
  <2>8. ASSUME NEW k \in 1..(n + 1)
        PROVE  /\ cols[k].name \in Names
               /\ cols[k].name \in DOMAIN table => cols[k].type = table[cols[k].name]
    <3>1. CASE k \in 1..n
      BY <1>2, <1>5, <2>3, <3>1
    <3>2. CASE k = n + 1
      BY <2>3, <3>2
    <3> QED
      BY <2>4, <3>1, <3>2
  <2>9. cols[n + 1].name \notin DOMAIN table
    BY <2>3
  <2>10. ColumnsFit(i, table, cols)
    <3>1. PICK m : m = n + 1
      OBVIOUS
    <3>2. Len(cols) = m /\ m \in Nat /\ cols[m].name \notin DOMAIN table
      BY <2>3, <2>6, <2>9, <3>1
    <3>3. \A k \in 1..m :
            /\ cols[k].name \in Names
            /\ cols[k].name \in DOMAIN table => cols[k].type = table[cols[k].name]
      BY <2>8, <3>1
    <3>4. \A k \in 1..Len(cols) :
            /\ cols[k].name \in Names
            /\ cols[k].name \in DOMAIN table => cols[k].type = table[cols[k].name]
      BY <3>2, <3>3
    <3>5. Len(cols) \in Nat /\ cols[Len(cols)].name \notin DOMAIN table
      BY <3>2
    <3> QED
      BY <2>7, <3>4, <3>5, Zenon DEF ColumnsFit
  <2> QED
    BY <1>4, <2>10
<1> QED
  BY <1>6, <1>7

LEMMA ColumnsBuilt ==
  ASSUME IsFiniteSet(DOMAIN merged), DOMAIN merged \subseteq Names
  PROVE  ColumnsFit(input, merged,
           LET names == Ordered(DOMAIN merged) IN
           [i \in 1..Len(names) |-> [name |-> names[i], type |-> merged[names[i]]]]
             \o (IF input.tabular THEN <<[name |-> SourceColumn, type |-> "text"]>> ELSE <<>>))
<1> DEFINE names == Ordered(DOMAIN merged)
           n == Len(names)
           first == [i \in 1..n |-> [name |-> names[i], type |-> merged[names[i]]]]
           last == [name |-> SourceColumn, type |-> "text"]
<1>1. names \in Seq(DOMAIN merged) /\ ToSet(names) = DOMAIN merged
  BY OrderedIsListed
<1>2. last.name \in Names /\ last.name \notin DOMAIN merged
  BY SourceColumnIsNew
<1>3. n \in Nat
  BY <1>1, LenProperties
<1> HIDE DEF names, n, last
<1>4. \A i \in 1..n : first[i].name = names[i] /\ first[i].type = merged[names[i]]
  OBVIOUS
<1>5. first = [i \in 1..n |-> first[i]]
  OBVIOUS
<1> HIDE DEF first
<1>6. PICK S : S = {first[i] : i \in 1..n}
  OBVIOUS
<1>7. first \in Seq(S) /\ Len(first) = n
  <2>1. first \in [1..n -> S]
    BY <1>5, <1>6
  <2> QED
    BY <1>3, <2>1
<1>8. ColumnsFit(input, merged, first \o (IF input.tabular THEN <<last>> ELSE <<>>))
  BY <1>1, <1>2, <1>4, <1>7, ColumnsListed DEF n
<1> QED
  BY <1>8 DEF first, last, n, names

(* WriteFile and AppendSource: no column of the source is left out or has  *)
(* the value of another, and no two are alike.                             *)
LEMMA OutputFits ==
  ASSUME UnionOf(merged, input, Len(input.sources)), at \in 1..Len(input.sources),
         ColumnsFit(input, merged, columns)
  PROVE  FileFits(input, merged, columns, Output, at)
<1> DEFINE n == Len(columns)
           asked == [i \in 1..n |-> columns[i].name]
<1>1. n \in Nat /\ \A k \in 1..n : columns[k].name \in Names
  BY DEF ColumnsFit
<1> HIDE DEF n
<1>2. asked \in Seq(Names)
  BY <1>1
<1> HIDE DEF asked
<1>3. Output.names = Named(asked)
  BY DEF Output, asked, n
<1>4. Distinct(Output.names)
  BY <1>2, <1>3, NamedIsDistinct
<1>5. ASSUME NEW k \in 1..n, columns[k].name \in NameSet(FieldsOf(input, at)), ~Replaced(input, columns[k])
      PROVE  Output.cells[k] = merged[columns[k].name]
  <2>1. Output.cells[k] = CellOf(columns[k])
    BY DEF Output, n
  <2>2. columns[k].name \in DOMAIN merged
    BY <1>5 DEF UnionOf
  <2>3. columns[k].type = merged[columns[k].name]
    BY <2>2 DEF ColumnsFit, n
  <2>4. ~(input.tabular /\ columns[k].name = columns[Len(columns)].name)
    BY <2>2 DEF ColumnsFit
  <2>5. ~ReplacesName(columns[k])
    BY <1>5 DEF ReplacesName, Replaced
  <2>6. Fields = FieldsOf(input, at)
    BY DEF Fields, Source, FieldsOf
  <2>7. CellOf(columns[k]) = columns[k].type
    BY <1>5, <2>4, <2>5, <2>6 DEF CellOf
  <2> QED
    BY <2>1, <2>3, <2>7
<1> QED
  BY <1>4, <1>5 DEF FileFits, n

LEMMA FilesGrow ==
  ASSUME NEW i, NEW table, NEW cols, NEW written, NEW n \in Nat \ {0}, NEW output,
         FilesFit(i, table, cols, written, n), FileFits(i, table, cols, output, n)
  PROVE  FilesFit(i, table, cols, Append(written, output), n + 1)
<1>1. written \in Seq(ToSet(written)) /\ Len(written) = n - 1
  BY DEF FilesFit
<1>2. PICK longer : longer = Append(written, output)
  OBVIOUS
<1>3. PICK S : S = ToSet(written) \cup {output}
  OBVIOUS
<1>4. written \in Seq(S)
  BY <1>1, <1>3, SeqMonotonic
<1>5. longer \in Seq(S) /\ ToSet(longer) = S
  <2>1. output \in S
    BY <1>3
  <2> QED
    BY <1>2, <1>3, <1>4, <2>1, AppendProperties, SeqFacts
<1>6. Len(longer) = n /\ longer[n] = output /\ \A j \in 1..(n - 1) : longer[j] = written[j]
  BY <1>1, <1>2, <1>4, AppendProperties
<1>7. \A j \in 1..(n - 1) : FileFits(i, table, cols, written[j], j)
  BY <1>1 DEF FilesFit
<1>8. \A j \in 1..n : FileFits(i, table, cols, longer[j], j)
  BY <1>6, <1>7
<1>9. (n + 1) - 1 = n
  OBVIOUS
<1> QED
  BY <1>2, <1>5, <1>6, <1>8, <1>9 DEF FilesFit

LEMMA SchemaStart == SchemaInit => SchemaInv
<1> SUFFICES ASSUME SchemaInit PROVE SchemaInv
  OBVIOUS
<1>1. input \in Inputs /\ at = 1 /\ merging = "schema" /\ files = <<>> /\ merged = [n \in {} |-> "text"]
  BY DEF SchemaInit
<1>2. at \in 1..(Len(input.sources) + 1)
  BY <1>1, SourcesOf
<1>3. UnionOf(merged, input, at - 1)
  <2>1. at - 1 = 0 /\ 1..0 = {}
    BY <1>1
  <2>2. DOMAIN merged = {}
    BY <1>1
  <2> QED
    BY <2>1, <2>2 DEF UnionOf
<1> QED
  BY <1>1, <1>2, <1>3 DEF SchemaInv

LEMMA FieldsAdded == ASSUME SchemaInv, AddFields PROVE SchemaInv'
<1>1. PICK i, m, table, new : i = input /\ m = at - 1 /\ table = merged /\ new = merged'
  OBVIOUS
<1>2. i \in Inputs /\ at \in 1..(Len(i.sources) + 1) /\ merging = "schema" /\ files = <<>>
      /\ UnionOf(table, i, m)
  BY <1>1 DEF SchemaInv, AddFields
<1>3. Len(i.sources) \in Nat
  BY <1>2, SourcesOf
<1>4. at <= Len(i.sources)
  BY <1>1 DEF AddFields
<1>5. m \in Nat /\ m + 1 = at
  BY <1>1, <1>2
<1>6. PICK fields : fields = FieldsOf(i, m + 1)
  OBVIOUS
<1>7. Fields = fields
  BY <1>1, <1>5, <1>6 DEF Fields, Source, FieldsOf
<1>8. new = [n \in DOMAIN table \cup NameSet(fields) |->
               IF n \notin NameSet(fields) THEN table[n]
               ELSE LET type == TypeIn(fields, n) IN
                    IF n \in DOMAIN table THEN JoinedType(table[n], type) ELSE type]
  BY <1>1, <1>7 DEF AddFields
<1>9. UnionOf(new, i, m + 1)
  BY <1>2, <1>5, <1>6, <1>8, UnionGrows
<1>10. at' = at + 1 /\ input' = i /\ merged' = new /\ files' = files /\ merging' = merging
  BY <1>1 DEF AddFields
<1>11. at' \in 1..(Len(i.sources) + 1) /\ at' - 1 = m + 1
  BY <1>2, <1>3, <1>4, <1>5, <1>10
<1>12. UnionOf(merged', input', at' - 1)
  BY <1>9, <1>10, <1>11
<1> QED
  BY <1>2, <1>10, <1>11, <1>12 DEF SchemaInv

LEMMA TableBuilt == ASSUME SchemaInv, BuildTable PROVE SchemaInv'
<1>1. /\ input \in Inputs /\ at \in 1..(Len(input.sources) + 1) /\ merging = "schema" /\ files = <<>>
      /\ UnionOf(merged, input, at - 1) /\ at > Len(input.sources)
  BY DEF SchemaInv, BuildTable
<1>2. Len(input.sources) \in Nat
  BY <1>1, SourcesOf
<1>3. at - 1 = Len(input.sources)
  BY <1>1, <1>2
<1>4. UnionOf(merged, input, Len(input.sources))
  BY <1>1, <1>3
<1>5. IsFiniteSet(DOMAIN merged) /\ DOMAIN merged \subseteq Names
  BY <1>1, <1>4, UnionIsNames
<1>6. PICK cols : cols = columns'
  OBVIOUS
<1>7. ColumnsFit(input, merged, cols)
  BY <1>5, <1>6, ColumnsBuilt DEF BuildTable
<1>8. FilesFit(input, merged, cols, files, 1)
  <2>1. <<>> \in Seq(ToSet(<<>>)) /\ Len(<<>>) = 0 /\ 1 - 1 = 0 /\ 1..0 = {}
    OBVIOUS
  <2> QED
    BY <1>1, <2>1 DEF FilesFit
<1>9. input' = input /\ merged' = merged /\ files' = files /\ at' = 1 /\ merging' = "write"
  BY DEF BuildTable
<1>10. at' \in 1..(Len(input.sources) + 1)
  BY <1>2, <1>9
<1>11. ColumnsFit(input', merged', columns') /\ UnionOf(merged', input', Len(input'.sources))
  BY <1>4, <1>6, <1>7, <1>9
<1>12. FilesFit(input', merged', columns', files', at')
  BY <1>6, <1>8, <1>9
<1> QED
  BY <1>1, <1>9, <1>10, <1>11, <1>12 DEF SchemaInv

LEMMA FileWritten == ASSUME SchemaInv, WriteFile \/ AppendSource PROVE SchemaInv'
<1>1. /\ input \in Inputs /\ at \in 1..(Len(input.sources) + 1) /\ merging = "write"
      /\ UnionOf(merged, input, Len(input.sources)) /\ ColumnsFit(input, merged, columns)
      /\ FilesFit(input, merged, columns, files, at) /\ at <= Len(input.sources)
  BY DEF SchemaInv, WriteFile, AppendSource
<1>2. Len(input.sources) \in Nat
  BY <1>1, SourcesOf
<1>3. at \in 1..Len(input.sources) /\ at \in Nat \ {0}
  BY <1>1, <1>2
<1>4. PICK output, longer, n : output = Output /\ longer = Append(files, output) /\ n = at + 1
  OBVIOUS
<1>5. FileFits(input, merged, columns, output, at)
  BY <1>1, <1>3, <1>4, OutputFits
<1>6. FilesFit(input, merged, columns, longer, n)
  BY <1>1, <1>3, <1>4, <1>5, FilesGrow
<1>7. input' = input /\ merged' = merged /\ columns' = columns /\ merging' = merging
      /\ files' = longer /\ at' = n
  BY <1>4 DEF WriteFile, AppendSource
<1>8. at' \in 1..(Len(input.sources) + 1)
  BY <1>2, <1>3, <1>4, <1>7
<1>9. /\ ColumnsFit(input', merged', columns') /\ UnionOf(merged', input', Len(input'.sources))
      /\ FilesFit(input', merged', columns', files', at')
  BY <1>1, <1>6, <1>7
<1> QED
  BY <1>1, <1>7, <1>8, <1>9 DEF SchemaInv

LEMMA SchemaStep == SchemaInv /\ [SchemaNext]_schemaVars => SchemaInv'
<1> SUFFICES ASSUME SchemaInv, [SchemaNext]_schemaVars PROVE SchemaInv'
  OBVIOUS
<1>1. CASE AddFields
  BY <1>1, FieldsAdded
<1>2. CASE BuildTable
  BY <1>2, TableBuilt
<1>3. CASE WriteFile \/ AppendSource
  BY <1>3, FileWritten
<1>4. CASE MergeFails
  <2>1. input' = input /\ merged' = merged /\ columns' = columns /\ files' = files /\ at' = at
        /\ merging = "write" /\ merging' = "failed"
    BY <1>4 DEF MergeFails
  <2> QED
    BY <2>1 DEF SchemaInv
<1>5. CASE FinishTable
  <2>1. input' = input /\ merged' = merged /\ columns' = columns /\ files' = files /\ at' = at
        /\ merging = "write" /\ merging' = "done" /\ at > Len(input.sources)
    BY <1>5 DEF FinishTable
  <2>2. input \in Inputs /\ at \in 1..(Len(input.sources) + 1)
    BY DEF SchemaInv
  <2>3. at = Len(input.sources) + 1
    BY <2>1, <2>2, SourcesOf
  <2> QED
    BY <2>1, <2>3 DEF SchemaInv
<1>6. CASE UNCHANGED schemaVars
  BY <1>6 DEF SchemaInv, schemaVars
<1> QED
  BY <1>1, <1>2, <1>3, <1>4, <1>5, <1>6 DEF SchemaNext

LEMMA NamesDiffer == SchemaInv => NamesAreDistinct
<1> SUFFICES ASSUME SchemaInv PROVE NamesAreDistinct
  OBVIOUS
<1>1. ASSUME NEW i \in 1..Len(input.sources)
      PROVE  LET header == Written(input.sources[i].header) IN
             Distinct([j \in 1..Len(header) |-> header[j].name])
  <2>1. input.sources[i].header \in Headers
    BY SourcesOf DEF SchemaInv
  <2> QED
    BY <2>1, WrittenOf
<1>2. ASSUME NEW i \in 1..Len(files) PROVE Distinct(files[i].names)
  <2>1. CASE merging = "schema"
    <3>1. files = <<>>
      BY <2>1 DEF SchemaInv
    <3>2. 1..Len(files) = {}
      BY <3>1
    <3> QED
      BY <3>2
  <2>2. CASE merging # "schema"
    BY <2>2 DEF SchemaInv, FilesFit, FileFits
  <2> QED
    BY <2>1, <2>2
<1> QED
  BY <1>1, <1>2 DEF NamesAreDistinct

(* No two columns of a file read or written have names that SQL could not  *)
(* tell apart, whatever their headers and the numbers the names end with:  *)
(* schema_with_field_ids, of any number of columns.                        *)
THEOREM NamesAlwaysDistinct == SchemaSpec => []NamesAreDistinct
<1>1. SchemaInv /\ [SchemaNext]_schemaVars => SchemaInv'
  BY SchemaStep
<1> QED
  BY SchemaStart, <1>1, NamesDiffer, PTL DEF SchemaSpec

(* The types one set of sources gives a column, in whatever order they     *)
(* come, decide the column's.                                              *)
LEMMA AgreedType ==
  ASSUME NEW type, NEW T, IsFiniteSet(T), Agreed(type, T)
  PROVE  type = IF Cardinality(T) = 1 THEN CHOOSE t \in T : TRUE ELSE "text"
<1>1. CASE T = {type}
  <2>1. Cardinality(T) = 1
    BY <1>1, FS_Singleton
  <2> QED
    BY <1>1, <2>1
<1>2. CASE T # {type}
  <2>1. Cardinality(T) # 1
    <3> SUFFICES ASSUME Cardinality(T) = 1 PROVE FALSE
      OBVIOUS
    <3>1. PICK x : T = {x}
      BY FS_Singleton
    <3> QED
      BY <1>2, <3>1 DEF Agreed
  <2> QED
    BY <1>2, <2>1 DEF Agreed
<1> QED
  BY <1>1, <1>2

LEMMA UnionIsWhole == SchemaInv => TableIsUnion
<1> SUFFICES ASSUME SchemaInv PROVE TableIsUnion
  OBVIOUS
<1>1. PICK i, m : i = input /\ m = Len(input.sources)
  OBVIOUS
<1>2. i \in Inputs /\ m = Len(i.sources)
  BY <1>1 DEF SchemaInv
<1>3. m \in Nat /\ ToSet(i.sources) = {i.sources[j] : j \in 1..m}
      /\ \A j \in 1..m : i.sources[j].header \in Headers
  BY <1>2, SourcesOf
<1>4. ASSUME merging \in {"write", "done"}
      PROVE  /\ DOMAIN merged = UNION {NameSet(Written(s.header)) : s \in ToSet(input.sources)}
             /\ DOMAIN merged \subseteq NameSet(columns)
             /\ \A n \in DOMAIN merged :
                  merged[n] = IF Cardinality(TypesOf(n)) = 1 THEN CHOOSE t \in TypesOf(n) : TRUE ELSE "text"
             /\ \A k \in 1..Len(files) : \A l \in 1..Len(columns) :
                  columns[l].name \in NameSet(Written(input.sources[k].header)) /\ ~ReplacesName(columns[l])
                    => files[k].cells[l] = merged[columns[l].name]
  <2>1. UnionOf(merged, i, m) /\ ColumnsFit(i, merged, columns) /\ FilesFit(i, merged, columns, files, at)
    BY <1>1, <1>4 DEF SchemaInv
  <2>2. DOMAIN merged = UNION {NameSet(Written(s.header)) : s \in ToSet(i.sources)}
    <3>1. DOMAIN merged = UNION {NameSet(Written(i.sources[j].header)) : j \in 1..m}
      BY <2>1 DEF UnionOf, FieldsOf
    <3>2. {NameSet(Written(s.header)) : s \in ToSet(i.sources)}
            = {NameSet(Written(i.sources[j].header)) : j \in 1..m}
      BY <1>3
    <3> QED
      BY <3>1, <3>2
  <2>3. DOMAIN merged \subseteq NameSet(columns)
    BY <2>1 DEF ColumnsFit
  <2>4. ASSUME NEW n \in DOMAIN merged
        PROVE  merged[n] = IF Cardinality(TypesOf(n)) = 1 THEN CHOOSE t \in TypesOf(n) : TRUE ELSE "text"
    <3>1. PICK T : T = TypesUpTo(i, n, m)
      OBVIOUS
    <3>2. TypesOf(n) = T
      BY <1>1, <1>3, <3>1 DEF TypesOf, TypesUpTo, FieldsOf
    <3>3. Agreed(merged[n], T)
      BY <2>1, <3>1 DEF UnionOf
    <3>4. IsFiniteSet(T)
      <4>1. PICK J : J = {j \in 1..m : n \in NameSet(FieldsOf(i, j))}
        OBVIOUS
      <4>2. IsFiniteSet(1..m)
        BY <1>3, FS_Interval
      <4>3. IsFiniteSet(J)
        BY <4>1, <4>2, FS_Subset
      <4>4. PICK f : f = [j \in J |-> TypeIn(FieldsOf(i, j), n)]
        OBVIOUS
      <4>5. f \in Surjection(J, T)
        BY <3>1, <4>1, <4>4 DEF Surjection, TypesUpTo
      <4> QED
        BY <4>3, <4>5, FS_Surjection
    <3> QED
      BY <3>2, <3>3, <3>4, AgreedType
  <2>5. ASSUME NEW k \in 1..Len(files), NEW l \in 1..Len(columns),
               columns[l].name \in NameSet(Written(input.sources[k].header)), ~ReplacesName(columns[l])
        PROVE  files[k].cells[l] = merged[columns[l].name]
    <3>1. columns[l].name \in NameSet(FieldsOf(i, k)) /\ ~Replaced(i, columns[l])
      BY <1>1, <2>5 DEF FieldsOf, Replaced, ReplacesName
    <3> QED
      BY <2>1, <3>1 DEF FilesFit, FileFits
  <2> QED
    BY <1>1, <2>2, <2>3, <2>4, <2>5
<1>5. ASSUME merging = "done" PROVE Len(files) = Len(input.sources)
  <2>1. Len(files) = at - 1 /\ at = m + 1
    BY <1>1, <1>5 DEF SchemaInv, FilesFit
  <2> QED
    BY <1>1, <1>3, <2>1
<1> QED
  BY <1>4, <1>5 DEF TableIsUnion

(* The table of any number of files is their union: no column and no file  *)
(* is left out, the type of a column depends on the set of files and not   *)
(* on the order in which they are read, and every value is in its column.  *)
THEOREM TableAlwaysUnion == SchemaSpec => []TableIsUnion
<1>1. SchemaInv /\ [SchemaNext]_schemaVars => SchemaInv'
  BY SchemaStep
<1> QED
  BY SchemaStart, <1>1, UnionIsWhole, PTL DEF SchemaSpec
=============================================================================
