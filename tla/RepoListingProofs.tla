------------------------- MODULE RepoListingProofs --------------------------
(***************************************************************************)
(* Theorems about RepoListing for every set of entries, every choice of    *)
(* what the filters let pass, every page size and every number of changes  *)
(* in Gitea while the listing runs.                                        *)
(***************************************************************************)
EXTENDS RepoListing, FiniteSetTheorems, SequenceTheorems, TLAPS

-----------------------------------------------------------------------------
(* Gitea's list: where the entries are after an insertion or a removal.    *)

(* What comes in at place i moves the entries from there on up by one.     *)
LEMMA InsertedPlaces ==
  ASSUME NEW S, NEW s \in Seq(S), NEW i \in 1..(Len(s) + 1), NEW e \in S
  PROVE  /\ InsertAt(s, i, e) \in Seq(S)
         /\ Len(InsertAt(s, i, e)) = Len(s) + 1
         /\ \A k \in 1..(Len(s) + 1) :
              InsertAt(s, i, e)[k] = IF k < i THEN s[k]
                                     ELSE IF k = i THEN e ELSE s[k - 1]
<1> DEFINE front == SubSeq(s, 1, i - 1)
           back == SubSeq(s, i, Len(s))
           part == front \o <<e>>
           whole == part \o back
<1>1. Len(s) \in Nat /\ \A n \in 1..Len(s) : s[n] \in S
  OBVIOUS
<1>2. /\ front \in Seq(S)
      /\ Len(front) = i - 1
      /\ \A n \in 1..(i - 1) : front[n] = s[n]
  BY <1>1, SubSeqProperties
<1>3. /\ back \in Seq(S)
      /\ Len(back) = Len(s) + 1 - i
      /\ \A n \in 1..(Len(s) + 1 - i) : back[n] = s[i + n - 1]
  BY <1>1, SubSeqProperties
<1>4. <<e>> \in Seq(S) /\ Len(<<e>>) = 1 /\ <<e>>[1] = e
  OBVIOUS
<1> HIDE DEF front, back, part, whole
<1>5. /\ part \in Seq(S)
      /\ Len(part) = i
      /\ \A n \in 1..i : part[n] = IF n < i THEN s[n] ELSE e
  BY <1>1, <1>2, <1>4, ConcatProperties DEF part
<1>6. /\ whole \in Seq(S)
      /\ Len(whole) = Len(part) + Len(back)
      /\ \A n \in 1..(Len(part) + Len(back)) :
           whole[n] = IF n <= Len(part) THEN part[n] ELSE back[n - Len(part)]
  BY <1>3, <1>5, ConcatProperties DEF whole
<1>7. InsertAt(s, i, e) = whole
  BY DEF InsertAt, front, back, part, whole
<1>8. ASSUME NEW k \in 1..(Len(s) + 1)
      PROVE  whole[k] =
               IF k < i THEN s[k] ELSE IF k = i THEN e ELSE s[k - 1]
  <2>1. CASE k <= i
    BY <2>1, <1>1, <1>3, <1>5, <1>6
  <2>2. CASE k > i
    <3>1. k - i \in 1..(Len(s) + 1 - i) /\ i + (k - i) - 1 = k - 1
      BY <2>2, <1>1
    <3>2. back[k - i] = s[i + (k - i) - 1]
      BY <3>1, <1>3
    <3>3. whole[k] = back[k - i]
      BY <2>2, <1>1, <1>3, <1>5, <1>6
    <3> QED
      BY <3>1, <3>2, <3>3, <2>2, <1>1
  <2> QED
    BY <2>1, <2>2, <1>1
<1> QED
  BY <1>1, <1>3, <1>5, <1>6, <1>7, <1>8

(* What leaves place i moves the entries behind it down by one.            *)
LEMMA RemovedPlaces ==
  ASSUME NEW S, NEW s \in Seq(S), NEW i \in 1..Len(s)
  PROVE  /\ RemoveAt(s, i) \in Seq(S)
         /\ Len(RemoveAt(s, i)) = Len(s) - 1
         /\ \A k \in 1..(Len(s) - 1) :
              RemoveAt(s, i)[k] = IF k < i THEN s[k] ELSE s[k + 1]
<1> DEFINE front == SubSeq(s, 1, i - 1)
           back == SubSeq(s, i + 1, Len(s))
           whole == front \o back
<1>1. Len(s) \in Nat /\ \A n \in 1..Len(s) : s[n] \in S
  OBVIOUS
<1>2. /\ front \in Seq(S)
      /\ Len(front) = i - 1
      /\ \A n \in 1..(i - 1) : front[n] = s[n]
  BY <1>1, SubSeqProperties
<1>3. /\ back \in Seq(S)
      /\ Len(back) = Len(s) - i
      /\ \A n \in 1..(Len(s) - i) : back[n] = s[i + n]
  BY <1>1, SubSeqProperties
<1> HIDE DEF front, back, whole
<1>4. /\ whole \in Seq(S)
      /\ Len(whole) = Len(front) + Len(back)
      /\ \A n \in 1..(Len(front) + Len(back)) :
           whole[n] = IF n <= Len(front) THEN front[n] ELSE back[n - Len(front)]
  BY <1>2, <1>3, ConcatProperties DEF whole
<1>5. RemoveAt(s, i) = whole
  BY DEF RemoveAt, front, back, whole
<1>6. ASSUME NEW k \in 1..(Len(s) - 1)
      PROVE  whole[k] = IF k < i THEN s[k] ELSE s[k + 1]
  <2>1. CASE k < i
    <3>1. /\ k \in 1..(Len(front) + Len(back)) /\ k <= Len(front)
          /\ k \in 1..(i - 1)
      BY <2>1, <1>1, <1>2, <1>3
    <3>2. whole[k] = front[k]
      BY <3>1, <1>4
    <3> QED
      BY <3>1, <3>2, <2>1, <1>2
  <2>2. CASE k >= i
    <3>1. k - i + 1 \in 1..(Len(s) - i) /\ i + (k - i + 1) = k + 1
      BY <2>2, <1>1
    <3>2. back[k - i + 1] = s[i + (k - i + 1)]
      BY <3>1, <1>3
    <3>3. /\ k \in 1..(Len(front) + Len(back)) /\ ~(k <= Len(front))
          /\ k - Len(front) = k - i + 1
      BY <2>2, <1>1, <1>2, <1>3
    <3>4. whole[k] = back[k - i + 1]
      BY <3>3, <1>4
    <3> QED
      BY <3>1, <3>2, <3>4, <2>2, <1>1
  <2> QED
    BY <2>1, <2>2, <1>1
<1>7. Len(front) + Len(back) = Len(s) - 1
  BY <1>1, <1>2, <1>3
<1> QED
  BY <1>7, <1>1, <1>2, <1>3, <1>4, <1>5, <1>6

(* An insertion leaves every entry in the list, and so does a removal of   *)
(* another one.                                                            *)
LEMMA InsertedKeeps ==
  ASSUME NEW s \in Seq(Entries), NEW e \in Entries, NEW i \in 1..(Len(s) + 1)
  PROVE  /\ \A k \in 1..Len(InsertAt(s, i, e)) :
              \/ InsertAt(s, i, e)[k] = e
              \/ \E n \in 1..Len(s) : s[n] = InsertAt(s, i, e)[k]
         /\ \A n \in 1..Len(s) :
              \E k \in 1..Len(InsertAt(s, i, e)) : InsertAt(s, i, e)[k] = s[n]
<1> DEFINE longer == InsertAt(s, i, e)
<1>1. /\ Len(s) \in Nat /\ Len(longer) = Len(s) + 1
      /\ \A k \in 1..(Len(s) + 1) :
           longer[k] = IF k < i THEN s[k] ELSE IF k = i THEN e ELSE s[k - 1]
  BY InsertedPlaces
<1> HIDE DEF longer
<1>2. ASSUME NEW k \in 1..Len(longer)
      PROVE  longer[k] = e \/ \E n \in 1..Len(s) : s[n] = longer[k]
  <2>1. CASE k < i
    BY <2>1, <1>1
  <2>2. CASE k > i
    <3>1. k - 1 \in 1..Len(s) /\ longer[k] = s[k - 1]
      BY <2>2, <1>1
    <3> QED
      BY <3>1
  <2> QED
    BY <2>1, <2>2, <1>1
<1>3. ASSUME NEW n \in 1..Len(s)
      PROVE  \E k \in 1..Len(longer) : longer[k] = s[n]
  <2>1. CASE n < i
    BY <2>1, <1>1
  <2>2. CASE n >= i
    <3>1. n + 1 \in 1..(Len(s) + 1) /\ ~(n + 1 < i) /\ n + 1 # i /\ (n + 1) - 1 = n
      BY <2>2, <1>1
    <3>2. longer[n + 1] = s[n]
      BY <3>1, <1>1
    <3> QED
      BY <3>1, <3>2, <1>1
  <2> QED
    BY <2>1, <2>2, <1>1
<1> QED
  BY <1>2, <1>3 DEF longer

LEMMA RemovedKeeps ==
  ASSUME NEW s \in Seq(Entries), NEW i \in 1..Len(s)
  PROVE  /\ \A k \in 1..Len(RemoveAt(s, i)) :
              \E n \in 1..Len(s) : s[n] = RemoveAt(s, i)[k]
         /\ \A n \in 1..Len(s) :
              s[n] = s[i] \/ \E k \in 1..Len(RemoveAt(s, i)) : RemoveAt(s, i)[k] = s[n]
<1> DEFINE rest == RemoveAt(s, i)
<1>1. /\ Len(s) \in Nat /\ Len(rest) = Len(s) - 1
      /\ \A k \in 1..(Len(s) - 1) : rest[k] = IF k < i THEN s[k] ELSE s[k + 1]
  BY RemovedPlaces
<1> HIDE DEF rest
<1>2. ASSUME NEW k \in 1..Len(rest) PROVE \E n \in 1..Len(s) : s[n] = rest[k]
  <2>1. CASE k < i
    BY <2>1, <1>1
  <2>2. CASE k >= i
    BY <2>2, <1>1
  <2> QED
    BY <2>1, <2>2, <1>1
<1>3. ASSUME NEW n \in 1..Len(s), s[n] # s[i]
      PROVE  \E k \in 1..Len(rest) : rest[k] = s[n]
  <2>1. CASE n < i
    BY <2>1, <1>1
  <2>2. CASE n > i
    <3>1. n - 1 \in 1..(Len(s) - 1) /\ ~(n - 1 < i) /\ (n - 1) + 1 = n
      BY <2>2, <1>1
    <3>2. rest[n - 1] = s[n]
      BY <3>1, <1>1
    <3> QED
      BY <3>1, <3>2, <1>1
  <2> QED
    BY <2>1, <2>2, <1>1, <1>3
<1> QED
  BY <1>2, <1>3 DEF rest

(* The smaller of two numbers.                                             *)
LEMMA MinOfTwo ==
  ASSUME NEW a \in Int, NEW b \in Int
  PROVE  Min({a, b}) = IF a <= b THEN a ELSE b
<1>1. \E x \in {a, b} : \A y \in {a, b} : x <= y
  OBVIOUS
<1> QED
  BY <1>1 DEF Min

(* Pages cut the list without a gap and without an overlap.                *)
LEMMA PageBounds ==
  ASSUME NEW n \in Nat \ {0}
  PROVE  /\ (n - 1) * PageSize \in Nat
         /\ n * PageSize \in Nat
         /\ n * PageSize = (n - 1) * PageSize + PageSize
         /\ (n + 1 - 1) * PageSize = n * PageSize
BY ListingAssumption

(* A page has the entries of its places, in their order.                   *)
LEMMA PagePlaces ==
  ASSUME remote \in Seq(Entries), NEW n \in Nat \ {0}
  PROVE  /\ PageOf(n) \in Seq(Entries)
         /\ Len(PageOf(n)) \in Nat /\ Len(PageOf(n)) <= PageSize
         /\ \A i \in 1..Len(PageOf(n)) :
              /\ (n - 1) * PageSize + i \in 1..Len(remote)
              /\ PageOf(n)[i] = remote[(n - 1) * PageSize + i]
         /\ \A k \in 1..Len(remote) :
              (n - 1) * PageSize < k /\ k <= n * PageSize
                => k - (n - 1) * PageSize \in 1..Len(PageOf(n))
<1> DEFINE first == (n - 1) * PageSize
           last == Min({n * PageSize, Len(remote)})
<1>1. /\ PageSize \in Nat \ {0} /\ Len(remote) \in Nat
      /\ \A k \in 1..Len(remote) : remote[k] \in Entries
      /\ first \in Nat /\ n * PageSize \in Nat /\ n * PageSize = first + PageSize
  BY ListingAssumption, PageBounds
<1>2. last = IF n * PageSize <= Len(remote) THEN n * PageSize ELSE Len(remote)
  BY <1>1, MinOfTwo
<1>3. PageOf(n) = SubSeq(remote, first + 1, last)
  BY DEF PageOf
<1> HIDE DEF first, last
<1>4. /\ last \in Int /\ first + 1 \in Int
      /\ \A k \in (first + 1)..last : remote[k] \in Entries
  BY <1>1, <1>2
<1>5. /\ PageOf(n) \in Seq(Entries)
      /\ Len(PageOf(n)) = IF first + 1 <= last THEN last - (first + 1) + 1 ELSE 0
      /\ \A i \in 1..(last - (first + 1) + 1) :
           PageOf(n)[i] = remote[first + 1 + i - 1]
  BY <1>3, <1>4, SubSeqProperties
<1>6. Len(PageOf(n)) = IF first < last THEN last - first ELSE 0
  BY <1>1, <1>4, <1>5
<1>7. Len(PageOf(n)) \in Nat /\ Len(PageOf(n)) <= PageSize
  BY <1>1, <1>2, <1>6
<1>8. ASSUME NEW i \in 1..Len(PageOf(n))
      PROVE  first + i \in 1..Len(remote) /\ PageOf(n)[i] = remote[first + i]
  <2>1. i \in 1..(last - (first + 1) + 1) /\ first + 1 + i - 1 = first + i
    BY <1>1, <1>4, <1>6
  <2>2. first + i \in 1..Len(remote)
    BY <1>1, <1>2, <1>4, <1>6
  <2> QED
    BY <2>1, <2>2, <1>5
<1>9. ASSUME NEW k \in 1..Len(remote), first < k, k <= n * PageSize
      PROVE  k - first \in 1..Len(PageOf(n))
  BY <1>1, <1>2, <1>6, <1>9
<1> QED
  BY <1>5, <1>7, <1>8, <1>9 DEF first

(* The list has no place behind its last page.                             *)
LEMMA LastPageEnds ==
  ASSUME remote \in Seq(Entries), NEW n \in Nat \ {0}, ~(n < LastPage)
  PROVE  Len(remote) <= n * PageSize
<1> DEFINE q == LastPage
<1>1. PageSize \in Nat \ {0} /\ Len(remote) \in Nat
  BY ListingAssumption
<1>2. q \in Nat /\ Len(remote) + PageSize - 1 < (q + 1) * PageSize
  BY <1>1 DEF LastPage
<1>3. q <= n
  BY <1>2
<1> HIDE DEF q
<1>4. (q + 1) * PageSize = q * PageSize + PageSize
  BY <1>1, <1>2
<1>5. q * PageSize <= n * PageSize
  BY <1>1, <1>2, <1>3
<1>6. q * PageSize \in Nat /\ n * PageSize \in Nat
  BY <1>1, <1>2
<1> QED
  BY <1>1, <1>2, <1>4, <1>5, <1>6

-----------------------------------------------------------------------------
(* What happens in Gitea, and the history of it.                           *)

LEMMA HistoryGrows ==
  ASSUME changes \in Seq(Change),
         NEW what \in {"added", "removed", "pushed"}, NEW e \in Entries,
         Happens(what, e)
  PROVE  /\ changes' \in Seq(Change)
         /\ Len(changes') <= MaxChanges
         /\ changes' # <<>>
         /\ \A x : Touched(x)' <=> Touched(x) \/ x = e
         /\ \A whats : Happened(whats)' <=> Happened(whats) \/ what \in whats
<1> DEFINE c == [what |-> what, entry |-> e]
<1>1. c \in Change /\ c.what = what /\ c.entry = e
  BY DEF Change
<1>2. changes' = Append(changes, c) /\ Len(changes) < MaxChanges
  BY DEF Happens
<1> HIDE DEF c
<1>3. /\ changes' \in Seq(Change)
      /\ Len(changes) \in Nat /\ Len(changes') = Len(changes) + 1
      /\ \A n \in 1..Len(changes) : changes'[n] = changes[n]
      /\ changes'[Len(changes) + 1] = c
      /\ DOMAIN changes = 1..Len(changes)
      /\ DOMAIN changes' = 1..Len(changes')
  BY <1>1, <1>2, AppendProperties
<1>4. Len(changes') <= MaxChanges
  BY <1>2, <1>3, ListingAssumption
<1>5. changes' # <<>>
  BY <1>3
<1>6. DOMAIN changes' = DOMAIN changes \cup {Len(changes) + 1}
  BY <1>3
<1>7. ASSUME NEW x PROVE Touched(x)' <=> Touched(x) \/ x = e
  BY <1>1, <1>3, <1>6 DEF Touched
<1>8. ASSUME NEW whats
      PROVE  Happened(whats)' <=> Happened(whats) \/ what \in whats
  BY <1>1, <1>3, <1>6 DEF Happened
<1> QED
  BY <1>3, <1>4, <1>5, <1>7, <1>8

(* A new entry makes no other one come nearer to the front, and no entry   *)
(* come twice.                                                             *)
LEMMA InsertedOnce ==
  ASSUME NEW S, NEW s \in Seq(S), IsInjective(s),
         NEW e \in S, \A k \in 1..Len(s) : s[k] # e,
         NEW i \in 1..(Len(s) + 1)
  PROVE  /\ InsertAt(s, i, e) \in Seq(S)
         /\ IsInjective(InsertAt(s, i, e))
         /\ Len(InsertAt(s, i, e)) = Len(s) + 1
         /\ \A k \in 1..(Len(s) + 1) :
              InsertAt(s, i, e)[k] # e
                => \E n \in 1..Len(s) : n <= k /\ s[n] = InsertAt(s, i, e)[k]
<1> DEFINE longer == InsertAt(s, i, e)
<1>1. /\ longer \in Seq(S)
      /\ Len(s) \in Nat /\ Len(longer) = Len(s) + 1
      /\ \A k \in 1..(Len(s) + 1) :
           longer[k] = IF k < i THEN s[k] ELSE IF k = i THEN e ELSE s[k - 1]
  BY InsertedPlaces
<1> HIDE DEF longer
<1>2. \A a, b \in 1..Len(s) : s[a] = s[b] => a = b
  BY DEF IsInjective
<1>3. ASSUME NEW k \in 1..Len(longer), longer[k] # e
      PROVE  \E n \in 1..Len(s) :
               /\ n <= k /\ s[n] = longer[k]
               /\ n = IF k < i THEN k ELSE k - 1
  <2>1. CASE k < i
    BY <2>1, <1>1
  <2>2. CASE k > i
    BY <2>2, <1>1
  <2>3. k # i
    BY <1>1, <1>3
  <2> QED
    BY <2>1, <2>2, <2>3, <1>1
<1>4. ASSUME NEW k \in 1..Len(longer), longer[k] = e PROVE k = i
  <2>1. CASE k < i
    <3>1. k \in 1..Len(s) /\ longer[k] = s[k]
      BY <2>1, <1>1
    <3> QED
      BY <3>1, <1>4
  <2>2. CASE k > i
    <3>1. k - 1 \in 1..Len(s) /\ longer[k] = s[k - 1]
      BY <2>2, <1>1
    <3> QED
      BY <3>1, <1>4
  <2> QED
    BY <2>1, <2>2, <1>1
<1>5. ASSUME NEW a \in 1..Len(longer), NEW b \in 1..Len(longer),
             longer[a] = longer[b]
      PROVE  a = b
  BY <1>1, <1>2, <1>3, <1>4, <1>5
<1> QED
  BY <1>1, <1>3, <1>5 DEF IsInjective, longer

(* Places of the list after an entry came in at place i.                   *)
LEMMA AddedPlaces ==
  ASSUME remote \in Seq(Entries), IsInjective(remote),
         NEW e \in Entries, NEW i \in 1..(Len(remote) + 1),
             NEW date \in Dates, Add(e, i, date)
  PROVE  /\ remote' \in Seq(Entries) /\ IsInjective(remote')
         /\ Len(remote') = Len(remote) + 1
         /\ \A k \in 1..Len(remote') :
              remote'[k] # e => \E n \in 1..Len(remote) : n <= k /\ remote[n] = remote'[k]
<1>1. \A k \in 1..Len(remote) : remote[k] # e
  BY DEF Add, There
<1> QED
  BY <1>1, InsertedOnce DEF Add

(* Places of the list after the entry of place i was removed.              *)
LEMMA DeletedPlaces ==
  ASSUME remote \in Seq(Entries), IsInjective(remote),
         NEW i \in DOMAIN remote
  PROVE  /\ RemoveAt(remote, i) \in Seq(Entries)
         /\ Len(RemoveAt(remote, i)) = Len(remote) - 1
         /\ \A k \in 1..Len(RemoveAt(remote, i)) :
              /\ RemoveAt(remote, i)[k] # remote[i]
              /\ \E n \in 1..Len(remote) : k <= n /\ remote[n] = RemoveAt(remote, i)[k]
         /\ \A a, b \in 1..Len(RemoveAt(remote, i)) :
              RemoveAt(remote, i)[a] = RemoveAt(remote, i)[b] => a = b
<1> DEFINE rest == RemoveAt(remote, i)
<1>1. /\ rest \in Seq(Entries)
      /\ Len(remote) \in Nat /\ i \in 1..Len(remote)
      /\ Len(rest) = Len(remote) - 1
      /\ \A k \in 1..(Len(remote) - 1) :
           rest[k] = IF k < i THEN remote[k] ELSE remote[k + 1]
  BY RemovedPlaces
<1> HIDE DEF rest
<1>2. \A a, b \in 1..Len(remote) : remote[a] = remote[b] => a = b
  BY DEF IsInjective
<1>3. ASSUME NEW k \in 1..Len(rest)
      PROVE  /\ rest[k] # remote[i]
             /\ \E n \in 1..Len(remote) :
                  /\ k <= n /\ remote[n] = rest[k]
                  /\ n = IF k < i THEN k ELSE k + 1
  <2>1. CASE k < i
    BY <2>1, <1>1, <1>2
  <2>2. CASE k >= i
    BY <2>2, <1>1, <1>2
  <2> QED
    BY <2>1, <2>2, <1>1
<1>4. ASSUME NEW a \in 1..Len(rest), NEW b \in 1..Len(rest), rest[a] = rest[b]
      PROVE  a = b
  BY <1>1, <1>2, <1>3, <1>4
<1> QED
  BY <1>1, <1>3, <1>4 DEF rest

(* A push moves an entry, at most.                                         *)
LEMMA PushedPlaces ==
  ASSUME remote \in Seq(Entries), IsInjective(remote),
         NEW i \in DOMAIN remote, NEW k \in DOMAIN remote,
             NEW date \in Dates, PushTo(i, k, date)
  PROVE  remote' \in Seq(Entries) /\ IsInjective(remote')
<1> DEFINE rest == RemoveAt(remote, i)
<1>1. /\ rest \in Seq(Entries) /\ Len(rest) = Len(remote) - 1
      /\ \A n \in 1..Len(rest) : rest[n] # remote[i]
      /\ \A a, b \in 1..Len(rest) : rest[a] = rest[b] => a = b
  BY DeletedPlaces
<1>2. /\ remote[i] \in Entries
      /\ remote' = InsertAt(rest, k, remote[i])
  BY DEF PushTo
<1>3. k \in 1..(Len(rest) + 1)
  BY <1>1
<1> HIDE DEF rest
<1>4. IsInjective(rest)
  BY <1>1 DEF IsInjective
<1> QED
  BY <1>1, <1>2, <1>3, <1>4, InsertedOnce

-----------------------------------------------------------------------------
(* What a step of the loop does to what is left of the page.               *)

(* A page that was read, with the dates of the moment.                     *)
LEMMA PageInHand ==
  ASSUME TypeOK, ReadPage
  PROVE  /\ todo' \in Seq(Version) /\ Len(todo') <= PageSize
         /\ \A i \in 1..Len(todo') :
              /\ (page - 1) * PageSize + i \in 1..Len(remote)
              /\ todo'[i].entry = remote[(page - 1) * PageSize + i]
              /\ todo'[i].created = created[todo'[i].entry]
         /\ \A k \in 1..Len(remote) :
              (page - 1) * PageSize < k /\ k <= page * PageSize
                => k - (page - 1) * PageSize \in 1..Len(todo')
<1> DEFINE p == PageOf(page)
<1>1. /\ remote \in Seq(Entries) /\ page \in Nat \ {0}
      /\ created \in [Entries -> Nat]
  BY DEF TypeOK
<1>2. /\ p \in Seq(Entries) /\ Len(p) \in Nat /\ Len(p) <= PageSize
      /\ \A i \in 1..Len(p) :
           /\ (page - 1) * PageSize + i \in 1..Len(remote)
           /\ p[i] = remote[(page - 1) * PageSize + i]
      /\ \A k \in 1..Len(remote) :
           (page - 1) * PageSize < k /\ k <= page * PageSize
             => k - (page - 1) * PageSize \in 1..Len(p)
  BY <1>1, PagePlaces
<1>3. todo' = [i \in DOMAIN p |-> [entry |-> p[i], created |-> created[p[i]]]]
  BY DEF ReadPage
<1> HIDE DEF p
<1>4. DOMAIN p = 1..Len(p) /\ \A i \in 1..Len(p) : p[i] \in Entries
  BY <1>2
<1>5. \A i \in 1..Len(p) : [entry |-> p[i], created |-> created[p[i]]] \in Version
  BY <1>1, <1>4 DEF Version
<1>6. todo' \in [1..Len(p) -> Version]
  BY <1>3, <1>4, <1>5
<1>7. todo' \in Seq(Version) /\ Len(todo') = Len(p)
  BY <1>2, <1>6
<1>8. \A i \in 1..Len(p) :
        todo'[i].entry = p[i] /\ todo'[i].created = created[p[i]]
  BY <1>3, <1>4
<1> QED
  BY <1>2, <1>7, <1>8

(* The entry that the loop comes to is the first one of what is left.      *)
LEMMA EntryInHand ==
  ASSUME TypeOK, AtEntry
  PROVE  /\ Head(todo) = todo[1] /\ Head(todo) \in Version
         /\ Head(todo).entry \in Entries /\ Head(todo).created \in Nat
         /\ Len(todo) \in Nat \ {0}
         /\ Tail(todo) \in Seq(Version) /\ Len(Tail(todo)) = Len(todo) - 1
         /\ \A i \in 1..(Len(todo) - 1) : Tail(todo)[i] = todo[i + 1]
<1>1. todo \in Seq(Version) /\ todo # <<>>
  BY DEF TypeOK, AtEntry
<1>2. /\ Head(todo) = todo[1] /\ Head(todo) \in Version
      /\ Len(todo) \in Nat \ {0}
      /\ Tail(todo) \in Seq(Version) /\ Len(Tail(todo)) = Len(todo) - 1
      /\ \A i \in 1..Len(Tail(todo)) : Tail(todo)[i] = todo[i + 1]
  BY <1>1, HeadTailProperties
<1>3. Head(todo).entry \in Entries /\ Head(todo).created \in Nat
  BY <1>2 DEF Version
<1> QED
  BY <1>2, <1>3

(* What the loop may append: the entry it came to, with its date or now.   *)
LEMMA VersionAdded ==
  ASSUME TypeOK, NEW v \in Version, versions' = Append(versions, v)
  PROVE  /\ versions' \in Seq(Version)
         /\ Len(versions) \in Nat /\ Len(versions') = Len(versions) + 1
         /\ \A i \in 1..Len(versions) : versions'[i] = versions[i]
         /\ versions'[Len(versions) + 1] = v
<1>1. versions \in Seq(Version)
  BY DEF TypeOK
<1> QED
  BY <1>1, AppendProperties

(* An entry the loop is done with has become a version if it is wanted,    *)
(* and has been passed over if not.                                        *)
LEMMA EntryDone ==
  ASSUME TypeOK, SkipEntry \/ AddWithFile \/ AddBranch
  PROVE  /\ AtEntry
         /\ todo' = Tail(todo)
         /\ UNCHANGED <<clock, remote, created, changes, phase, page, more, latest>>
         /\ \/ ~Wants(Head(todo).entry) /\ versions' = versions
            \/ /\ Wants(Head(todo).entry)
               /\ kind = "branch" \/ Head(todo).entry \in There
               /\ \E v \in Version :
                    /\ versions' = Append(versions, v)
                    /\ v.entry = Head(todo).entry
                    /\ v.created = IF kind = "branch" /\ v.entry = GhPages
                                   THEN clock ELSE Head(todo).created
<1> USE DEF NextEntry, giteaVars
<1>1. AtEntry
  BY DEF SkipEntry, AddWithFile, AddBranch
<1>2. /\ Head(todo) \in Version /\ clock \in Nat
      /\ Head(todo).entry \in Entries /\ Head(todo).created \in Nat
  BY <1>1, EntryInHand DEF TypeOK
<1>3. CASE SkipEntry
  BY <1>1, <1>3 DEF SkipEntry, Wants
<1>4. CASE AddWithFile
  <2>1. CASE Head(todo).entry \in WithDocs
    BY <2>1, <1>1, <1>2, <1>4 DEF AddWithFile, Wants
  <2>2. CASE Head(todo).entry \notin WithDocs
    BY <2>2, <1>1, <1>4 DEF AddWithFile, Wants
  <2> QED
    BY <2>1, <2>2
<1>5. CASE AddBranch
  <2>1. CASE Head(todo).entry = GhPages
    <3> DEFINE v == [Head(todo) EXCEPT !.created = clock]
    <3>1. v \in Version /\ v.entry = Head(todo).entry /\ v.created = clock
      BY <1>2 DEF Version
    <3>2. versions' = Append(versions, v)
      BY <2>1, <1>5 DEF AddBranch
    <3> HIDE DEF v
    <3> QED
      BY <3>1, <3>2, <2>1, <1>1, <1>5 DEF AddBranch, Wants
  <2>2. CASE Head(todo).entry # GhPages
    BY <2>2, <1>1, <1>2, <1>5 DEF AddBranch, Wants
  <2> QED
    BY <2>1, <2>2
<1> QED
  BY <1>3, <1>4, <1>5

-----------------------------------------------------------------------------
(* Type correctness.                                                       *)

LEMMA FunctionIsSeq ==
  ASSUME NEW S, NEW n \in Nat, NEW f \in [1..n -> S]
  PROVE  f \in Seq(S) /\ Len(f) = n
OBVIOUS

LEMMA InjectiveSeq ==
  ASSUME NEW S, NEW s \in Seq(S)
  PROVE  IsInjective(s) <=> \A a, b \in 1..Len(s) : s[a] = s[b] => a = b
BY DEF IsInjective

LEMMA ListTyped == Init => remote \in Seq(Entries) /\ IsInjective(remote)
<1> SUFFICES ASSUME Init PROVE remote \in Seq(Entries) /\ IsInjective(remote)
  OBVIOUS
<1>1. PICK there \in SUBSET Entries :
        IsFiniteSet(there) /\ remote \in SetToSeqs(there)
  BY DEF Init
<1>2. Cardinality(there) \in Nat
  BY <1>1, FS_CardinalityType
<1>3. /\ remote \in [1..Cardinality(there) -> there]
      /\ \A i, j \in 1..Cardinality(there) : i # j => remote[i] # remote[j]
  BY <1>1 DEF SetToSeqs
<1>4. remote \in Seq(there)
  BY <1>2, <1>3, FunctionIsSeq
<1>5. remote \in Seq(Entries)
  BY <1>1, <1>4, SeqMonotonic
<1> QED
  BY <1>3, <1>5 DEF IsInjective

LEMMA TypeInit == Init => TypeOK
<1> SUFFICES ASSUME Init PROVE TypeOK
  OBVIOUS
<1>1. /\ kind \in {"package", "release", "branch"}
      /\ clock = 2 /\ created = Dated /\ changes = <<>>
      /\ phase = "paging" /\ page = 1 /\ more = FALSE
      /\ todo = <<>> /\ versions = <<>> /\ latest = <<>>
  BY DEF Init, Start
<1>2. created \in [Entries -> Nat]
  BY <1>1, ListingAssumption
<1>3. changes \in Seq(Change) /\ todo \in Seq(Version) /\ versions \in Seq(Version)
  BY <1>1
<1>4. Len(changes) <= MaxChanges /\ Len(todo) <= PageSize
  BY <1>1, ListingAssumption
<1>5. /\ latest \in Seq(Version)
      /\ Len(latest) = IF phase = "stored" THEN 1 ELSE 0
  BY <1>1
<1>6. remote \in Seq(Entries) /\ IsInjective(remote)
  BY ListTyped
<1>7. clock \in Nat /\ page \in Nat \ {0}
  BY <1>1
<1>8. more \in BOOLEAN
  BY <1>1
<1>9. phase \in Phases
  BY <1>1 DEF Phases
<1> QED
  BY <1>1, <1>2, <1>3, <1>4, <1>5, <1>6, <1>7, <1>8, <1>9 DEF TypeOK

LEMMA TypeStep == TypeOK /\ [Next]_vars => TypeOK'
<1> SUFFICES ASSUME TypeOK, [Next]_vars PROVE TypeOK'
  OBVIOUS
<1> USE DEF TypeOK
<1>1. ASSUME NEW e \in Entries, NEW i \in 1..(Len(remote) + 1),
             NEW date \in Dates, Add(e, i, date),
             UNCHANGED kind
      PROVE  TypeOK'
  <2>1. remote' \in Seq(Entries) /\ IsInjective(remote')
    BY <1>1, AddedPlaces
  <2>2. changes' \in Seq(Change) /\ Len(changes') <= MaxChanges
    BY <1>1, HistoryGrows DEF Add
  <2>3. clock' \in Nat /\ created' \in [Entries -> Nat]
    BY <1>1, ListingAssumption DEF Add
  <2> QED
    BY <1>1, <2>1, <2>2, <2>3 DEF Add, runVars
<1>2. ASSUME NEW i \in DOMAIN remote, Delete(i), UNCHANGED kind
      PROVE  TypeOK'
  <2>1. /\ remote[i] \in Entries /\ Happens("removed", remote[i])
        /\ remote' = RemoveAt(remote, i)
    BY <1>2 DEF Delete
  <2>2. remote' \in Seq(Entries) /\ IsInjective(remote')
    <3> DEFINE rest == RemoveAt(remote, i)
    <3>1. /\ rest \in Seq(Entries)
          /\ \A a, b \in 1..Len(rest) : rest[a] = rest[b] => a = b
      BY DeletedPlaces
    <3>2. remote' = rest
      BY <2>1
    <3> HIDE DEF rest
    <3> QED
      BY <3>1, <3>2, InjectiveSeq
  <2>3. changes' \in Seq(Change) /\ Len(changes') <= MaxChanges
    BY <2>1, HistoryGrows
  <2> QED
    BY <1>2, <2>2, <2>3 DEF Delete, runVars
<1>3. ASSUME NEW i \in DOMAIN remote, NEW k \in DOMAIN remote,
             NEW date \in Dates, PushTo(i, k, date),
             UNCHANGED kind
      PROVE  TypeOK'
  <2>1. remote' \in Seq(Entries) /\ IsInjective(remote')
    BY <1>3, PushedPlaces
  <2>2. remote[i] \in Entries /\ Happens("pushed", remote[i])
    BY <1>3 DEF PushTo
  <2>3. changes' \in Seq(Change) /\ Len(changes') <= MaxChanges
    BY <2>2, HistoryGrows
  <2>4. clock' \in Nat /\ created' \in [Entries -> Nat]
    BY <1>3, ListingAssumption DEF PushTo
  <2> QED
    BY <1>3, <2>1, <2>3, <2>4 DEF PushTo, runVars
<1>4. ASSUME ReadPage, UNCHANGED kind PROVE TypeOK'
  <2>1. todo' \in Seq(Version) /\ Len(todo') <= PageSize
    BY <1>4, PageInHand
  <2> QED
    BY <1>4, <2>1 DEF ReadPage, giteaVars, Phases
<1>5. ASSUME TurnPage, UNCHANGED kind PROVE TypeOK'
  BY <1>5 DEF TurnPage, giteaVars, Phases
<1>6. ASSUME GiteaFails \/ EntryGone \/ FindNothing, UNCHANGED kind PROVE TypeOK'
  BY <1>6 DEF GiteaFails, EntryGone, FindNothing, AtEntry, giteaVars, Phases
<1>7. ASSUME SkipEntry \/ AddWithFile \/ AddBranch, UNCHANGED kind PROVE TypeOK'
  <2>1. /\ AtEntry /\ todo' = Tail(todo)
        /\ UNCHANGED <<clock, remote, created, changes, phase, page, more, latest>>
        /\ versions' = versions \/ \E v \in Version : versions' = Append(versions, v)
    BY <1>7, EntryDone
  <2>2. todo' \in Seq(Version) /\ Len(todo') = Len(todo) - 1 /\ Len(todo) \in Nat
    BY <2>1, EntryInHand
  <2>3. Len(todo') <= PageSize
    BY <2>2, ListingAssumption
  <2>4. versions' \in Seq(Version)
    BY <2>1, VersionAdded
  <2> QED
    BY <1>7, <2>1, <2>2, <2>3, <2>4
<1>8. ASSUME StoreSorted, UNCHANGED kind PROVE TypeOK'
  <2>1. latest' \in Seq(Version) /\ Len(latest') = 1
    BY <1>8 DEF StoreSorted
  <2> QED
    BY <1>8, <2>1 DEF StoreSorted, giteaVars, Phases
<1>9. CASE UNCHANGED vars
  BY <1>9 DEF vars, giteaVars, runVars
<1> QED
  BY <1>1, <1>2, <1>3, <1>4, <1>5, <1>6, <1>7, <1>8, <1>9 DEF Next, Gitea, List

(* Every reachable state of a listing is well typed; the page in hand is   *)
(* one page, and a latest version is there exactly when it was stored.     *)
THEOREM TypeCorrect == Spec => []TypeOK
BY TypeInit, TypeStep, PTL DEF Spec

-----------------------------------------------------------------------------
(* The inductive invariant.                                                *)

(* The entries of the page in hand that the loop has not come to.          *)
Coming == {todo[i].entry : i \in DOMAIN todo}

(* Between two pages, and behind the last one, no entry is in hand; nothing*)
(* is collected before the first page, and the last one says that it is.   *)
BetweenPages ==
  /\ phase \in {"paging", "listed", "stored", "empty"} => todo = <<>>
  /\ phase = "paging" /\ page = 1 => versions = <<>>
  /\ phase \in {"listed", "stored", "empty"} => ~more

(* The runner has been past place k of the list as it now is.              *)
ReadPlace(k) ==
  \/ phase = "paging" /\ k <= (page - 1) * PageSize
  \/ phase = "page" /\ (~more \/ k <= page * PageSize)
  \/ phase \in {"listed", "stored", "empty"}

(* As long as nothing leaves its place, or if there is but one page, what  *)
(* the runner has been past is collected, or is still in hand.             *)
NoneMissed ==
  (page = 1 /\ ~more) \/ ~Happened({"removed", "pushed"})
    => \A k \in DOMAIN remote :
         ReadPlace(k) /\ Wants(remote[k]) /\ ~Touched(remote[k])
           => remote[k] \in Listed \cup Coming

(* As long as nothing comes in, or if there is but one page, no entry is   *)
(* collected or in hand twice.                                             *)
NoneDoubled ==
  page = 1 \/ ~Happened({"added", "pushed"})
    => /\ \A i, k \in DOMAIN versions : versions[i].entry = versions[k].entry => i = k
       /\ \A i, k \in DOMAIN todo : todo[i].entry = todo[k].entry => i = k
       /\ Listed \cap Coming = {}

(* As long as nothing comes in, no entry that is collected or in hand is   *)
(* at a place that is still to be read.                                    *)
NoneAhead ==
  ~Happened({"added", "pushed"}) /\ phase \in {"paging", "page"}
    => \A k \in DOMAIN remote :
         remote[k] \in Listed \cup Coming
           => k <= (IF phase = "paging" THEN page - 1 ELSE page) * PageSize

(* What is collected is wanted, and an entry in hand or collected is still *)
(* there unless something happened to it.                                  *)
NoneStrange ==
  /\ \A e \in Listed : Wants(e)
  /\ \A e \in Listed \cup Coming : ~Touched(e) => e \in There

(* A version has the date of its entry, unless something happened to it;   *)
(* gh-pages gets one from within the listing.                              *)
DatesFit ==
  /\ clock >= Start
  /\ \A i \in DOMAIN todo :
       ~Touched(todo[i].entry) => todo[i].created = created[todo[i].entry]
  /\ \A i \in DOMAIN versions :
       IF kind = "branch" /\ versions[i].entry = GhPages
       THEN versions[i].created >= Start
       ELSE ~Touched(versions[i].entry)
              => versions[i].created = created[versions[i].entry]

(* What is stored as the latest version is one of the newest collected.    *)
LatestCollected ==
  phase = "stored"
    => \E i \in DOMAIN versions :
         /\ latest = <<versions[i]>>
         /\ \A k \in DOMAIN versions : versions[i].created >= versions[k].created

ListingInv ==
  /\ TypeOK
  /\ BetweenPages
  /\ NoneMissed
  /\ NoneDoubled
  /\ NoneAhead
  /\ NoneStrange
  /\ DatesFit
  /\ LatestCollected

-----------------------------------------------------------------------------
(* Who changes what.                                                       *)

LEMMA GiteaAlone == Gitea => UNCHANGED runVars /\ phase \notin Over
BY DEF Gitea, Add, Delete, PushTo, Happens

LEMMA ListAlone == List => UNCHANGED giteaVars
BY DEF List, ReadPage, TurnPage, GiteaFails, SkipEntry, EntryGone, AddWithFile,
       AddBranch, FindNothing, StoreSorted, NextEntry

(* Without a change in Gitea its history and its list stay what they are.  *)
LEMMA HistoryStays ==
  ASSUME UNCHANGED giteaVars
  PROVE  /\ There' = There
         /\ \A x : Touched(x)' <=> Touched(x)
         /\ \A whats : Happened(whats)' <=> Happened(whats)
BY DEF giteaVars, There, Touched, Happened

(* Whatever happens in Gitea leaves its trace in the history.              *)
LEMMA GiteaLeavesTrace ==
  ASSUME TypeOK, Gitea
  PROVE  /\ changes' # <<>>
         /\ \A x : Touched(x) => Touched(x)'
         /\ \A whats : Happened(whats) => Happened(whats)'
         /\ \A x : created'[x] # created[x] /\ x \in Entries => Touched(x)'
         /\ clock' >= clock
<1>1. /\ changes \in Seq(Change) /\ remote \in Seq(Entries) /\ clock \in Nat
      /\ created \in [Entries -> Nat]
  BY DEF TypeOK
<1>2. ASSUME NEW what \in {"added", "removed", "pushed"}, NEW e \in Entries,
             Happens(what, e)
      PROVE  /\ changes' # <<>>
             /\ \A x : Touched(x)' <=> Touched(x) \/ x = e
             /\ \A whats : Happened(whats) => Happened(whats)'
  BY <1>1, <1>2, HistoryGrows
<1>3. ASSUME NEW e \in Entries, NEW i \in 1..(Len(remote) + 1),
             NEW date \in Dates, Add(e, i, date)
      PROVE  /\ changes' # <<>> /\ \A whats : Happened(whats) => Happened(whats)'
             /\ \A x : Touched(x)' <=> Touched(x) \/ x = e
             /\ clock' = clock + 1 /\ created' = [created EXCEPT ![e] = date]
  BY <1>2, <1>3 DEF Add
<1>4. ASSUME NEW i \in DOMAIN remote, Delete(i)
      PROVE  /\ changes' # <<>> /\ \A whats : Happened(whats) => Happened(whats)'
             /\ \A x : Touched(x) => Touched(x)'
             /\ clock' = clock /\ created' = created
  BY <1>1, <1>2, <1>4 DEF Delete
<1>5. ASSUME NEW i \in DOMAIN remote, NEW k \in DOMAIN remote,
             NEW date \in Dates, PushTo(i, k, date)
      PROVE  /\ changes' # <<>> /\ \A whats : Happened(whats) => Happened(whats)'
             /\ \A x : Touched(x)' <=> Touched(x) \/ x = remote[i]
             /\ clock' = clock + 1 /\ created' = [created EXCEPT ![remote[i]] = date]
  BY <1>1, <1>2, <1>5 DEF PushTo
<1>6. CASE \E e \in Entries, i \in 1..(Len(remote) + 1), date \in Dates : Add(e, i, date)
  BY <1>1, <1>3, <1>6
<1>7. CASE \E i \in DOMAIN remote : Delete(i)
  BY <1>1, <1>4, <1>7
<1>8. CASE \E i, k \in DOMAIN remote, date \in Dates : PushTo(i, k, date)
  BY <1>1, <1>5, <1>8
<1> QED
  BY <1>6, <1>7, <1>8 DEF Gitea

(* An entry that nothing happens to stays where the list has it, or stays  *)
(* out of the list.                                                        *)
LEMMA OthersStay ==
  ASSUME TypeOK, Gitea
  PROVE  \A x : ~Touched(x)' => (x \in There' <=> x \in There)
<1>1. /\ changes \in Seq(Change) /\ remote \in Seq(Entries)
      /\ DOMAIN remote = 1..Len(remote) /\ IsInjective(remote)
  BY DEF TypeOK
<1>2. \A x : x \in There <=> \E n \in 1..Len(remote) : remote[n] = x
  BY <1>1 DEF There
<1>3. ASSUME remote' \in Seq(Entries)
      PROVE  \A x : x \in There' <=> \E n \in 1..Len(remote') : remote'[n] = x
  BY <1>3 DEF There
<1>4. ASSUME NEW e \in Entries, NEW i \in 1..(Len(remote) + 1),
             NEW date \in Dates, Add(e, i, date),
             NEW x, ~Touched(x)'
      PROVE  x \in There' <=> x \in There
  <2>1. x # e
    BY <1>1, <1>4, HistoryGrows DEF Add
  <2>2. remote' \in Seq(Entries)
    BY <1>1, <1>4, AddedPlaces
  <2> DEFINE longer == InsertAt(remote, i, e)
  <2>3. /\ \A k \in 1..Len(longer) :
             longer[k] = e \/ \E n \in 1..Len(remote) : remote[n] = longer[k]
        /\ \A n \in 1..Len(remote) : \E k \in 1..Len(longer) : longer[k] = remote[n]
    BY <1>1, InsertedKeeps
  <2>4. remote' = longer
    BY <1>4 DEF Add
  <2> HIDE DEF longer
  <2> QED
    BY <2>1, <2>2, <2>3, <2>4, <1>2, <1>3
<1>5. ASSUME NEW i \in DOMAIN remote, Delete(i), NEW x, ~Touched(x)'
      PROVE  x \in There' <=> x \in There
  <2>1. /\ remote[i] \in Entries /\ Happens("removed", remote[i])
        /\ remote' = RemoveAt(remote, i)
    BY <1>1, <1>5 DEF Delete
  <2>2. x # remote[i]
    BY <1>1, <1>5, <2>1, HistoryGrows
  <2>3. remote' \in Seq(Entries)
    BY <1>1, <2>1, DeletedPlaces
  <2> DEFINE rest == RemoveAt(remote, i)
  <2>4. /\ \A k \in 1..Len(rest) : \E n \in 1..Len(remote) : remote[n] = rest[k]
        /\ \A n \in 1..Len(remote) :
             remote[n] = remote[i] \/ \E k \in 1..Len(rest) : rest[k] = remote[n]
    <3>1. i \in 1..Len(remote)
      BY <1>1
    <3> QED
      BY <1>1, <3>1, RemovedKeeps, Zenon
  <2>5. remote' = rest
    BY <2>1
  <2> HIDE DEF rest
  <2> QED
    BY <2>2, <2>3, <2>4, <2>5, <1>2, <1>3
<1>6. ASSUME NEW i \in DOMAIN remote, NEW k \in DOMAIN remote,
             NEW date \in Dates, PushTo(i, k, date),
             NEW x, ~Touched(x)'
      PROVE  x \in There' <=> x \in There
  <2> DEFINE rest == RemoveAt(remote, i)
  <2>1. remote[i] \in Entries /\ Happens("pushed", remote[i])
    BY <1>1, <1>6 DEF PushTo
  <2>2. x # remote[i]
    BY <1>1, <1>6, <2>1, HistoryGrows
  <2>3. remote' \in Seq(Entries)
    BY <1>1, <1>6, PushedPlaces
  <2>4. /\ rest \in Seq(Entries) /\ Len(rest) = Len(remote) - 1
        /\ \A m \in 1..Len(rest) : \E n \in 1..Len(remote) : remote[n] = rest[m]
        /\ \A n \in 1..Len(remote) :
             remote[n] = remote[i] \/ \E m \in 1..Len(rest) : rest[m] = remote[n]
    BY <1>1, DeletedPlaces, RemovedKeeps
  <2>5. remote' = InsertAt(rest, k, remote[i])
    BY <1>6 DEF PushTo
  <2>6. k \in 1..(Len(rest) + 1)
    BY <2>4, <1>1
  <2> HIDE DEF rest
  <2> DEFINE longer == InsertAt(rest, k, remote[i])
  <2>7. /\ \A m \in 1..Len(longer) :
             longer[m] = remote[i] \/ \E n \in 1..Len(rest) : rest[n] = longer[m]
        /\ \A n \in 1..Len(rest) : \E m \in 1..Len(longer) : longer[m] = rest[n]
    BY <2>1, <2>4, <2>6, InsertedKeeps
  <2>8. remote' = longer
    BY <2>5
  <2> HIDE DEF longer
  <2>9. (\E m \in 1..Len(remote') : remote'[m] = x)
          <=> \E m \in 1..Len(rest) : rest[m] = x
    BY <2>2, <2>7, <2>8
  <2>10. (\E m \in 1..Len(rest) : rest[m] = x)
           <=> \E n \in 1..Len(remote) : remote[n] = x
    BY <2>2, <2>4
  <2> QED
    BY <2>3, <2>9, <2>10, <1>2, <1>3
<1> QED
  BY <1>4, <1>5, <1>6 DEF Gitea

(* The places of the page that was read are in hand.                       *)
LEMMA PageComes ==
  ASSUME TypeOK, ReadPage
  PROVE  \A x : x \in Coming' <=>
           \E k \in 1..Len(remote) :
             (page - 1) * PageSize < k /\ k <= page * PageSize /\ x = remote[k]
<1> DEFINE first == (page - 1) * PageSize
<1>1. /\ first \in Nat /\ page * PageSize = first + PageSize
      /\ PageSize \in Nat /\ Len(remote) \in Nat
  BY PageBounds, ListingAssumption DEF TypeOK
<1>2. /\ todo' \in Seq(Version) /\ Len(todo') \in Nat /\ Len(todo') <= PageSize
      /\ \A i \in 1..Len(todo') :
           /\ first + i \in 1..Len(remote)
           /\ todo'[i].entry = remote[first + i]
      /\ \A k \in 1..Len(remote) :
           first < k /\ k <= page * PageSize => k - first \in 1..Len(todo')
  BY PageInHand
<1> HIDE DEF first
<1>3. \A x : x \in Coming' <=> \E i \in 1..Len(todo') : x = todo'[i].entry
  BY <1>2 DEF Coming
<1>4. ASSUME NEW i \in 1..Len(todo')
      PROVE  /\ first + i \in 1..Len(remote)
             /\ first < first + i /\ first + i <= page * PageSize
             /\ todo'[i].entry = remote[first + i]
  BY <1>1, <1>2
<1>5. ASSUME NEW k \in 1..Len(remote), first < k, k <= page * PageSize
      PROVE  \E i \in 1..Len(todo') : remote[k] = todo'[i].entry
  <2>1. k - first \in 1..Len(todo') /\ first + (k - first) = k
    BY <1>1, <1>2, <1>5
  <2> QED
    BY <2>1, <1>2
<1>6. ASSUME NEW x, NEW i \in 1..Len(todo'), x = todo'[i].entry
      PROVE  \E k \in 1..Len(remote) :
               first < k /\ k <= page * PageSize /\ x = remote[k]
  BY <1>2, <1>4, <1>6
<1>7. \A x : x \in Coming' <=>
        \E k \in 1..Len(remote) :
          first < k /\ k <= page * PageSize /\ x = remote[k]
  BY <1>3, <1>5, <1>6
<1> QED
  BY <1>7 DEF first

(* An entry leaves the page in hand, and is collected if it is wanted.     *)
LEMMA EntryMoves ==
  ASSUME TypeOK, SkipEntry \/ AddWithFile \/ AddBranch
  PROVE  /\ Head(todo).entry \in Coming
         /\ \A x : x \in Coming <=> x \in Coming' \/ x = Head(todo).entry
         /\ \A x : x \in Listed' <=>
              x \in Listed \/ (x = Head(todo).entry /\ Wants(Head(todo).entry))
<1>1. AtEntry /\ todo' = Tail(todo)
  BY EntryDone
<1>2. /\ Head(todo) = todo[1] /\ Len(todo) \in Nat \ {0}
      /\ Len(todo') = Len(todo) - 1 /\ todo' \in Seq(Version)
      /\ \A i \in 1..(Len(todo) - 1) : todo'[i] = todo[i + 1]
  BY <1>1, EntryInHand
<1>3. DOMAIN todo = 1..Len(todo) /\ DOMAIN todo' = 1..(Len(todo) - 1)
  BY <1>2 DEF TypeOK
<1>4. Head(todo).entry \in Coming
  BY <1>2, <1>3 DEF Coming
<1>5. ASSUME NEW x, x \in Coming PROVE x \in Coming' \/ x = Head(todo).entry
  <2>1. PICK i \in 1..Len(todo) : x = todo[i].entry
    BY <1>3, <1>5 DEF Coming
  <2>2. CASE i = 1
    BY <2>1, <2>2, <1>2
  <2>3. CASE i # 1
    <3>1. i - 1 \in 1..(Len(todo) - 1) /\ (i - 1) + 1 = i
      BY <2>3, <1>2
    <3>2. todo'[i - 1] = todo[i]
      BY <3>1, <1>2
    <3> QED
      BY <3>1, <3>2, <2>1, <1>3 DEF Coming
  <2> QED
    BY <2>2, <2>3
<1>6. ASSUME NEW x, x \in Coming' PROVE x \in Coming
  <2>1. PICK i \in 1..(Len(todo) - 1) : x = todo'[i].entry
    BY <1>3, <1>6 DEF Coming
  <2>2. i + 1 \in 1..Len(todo) /\ todo'[i] = todo[i + 1]
    BY <1>2
  <2> QED
    BY <2>1, <2>2, <1>3 DEF Coming
<1>7. ASSUME NEW x
      PROVE  x \in Listed' <=>
               x \in Listed \/ (x = Head(todo).entry /\ Wants(Head(todo).entry))
  <2>1. CASE ~Wants(Head(todo).entry) /\ versions' = versions
    BY <2>1 DEF Listed
  <2>2. CASE /\ Wants(Head(todo).entry)
             /\ \E v \in Version : versions' = Append(versions, v)
                                  /\ v.entry = Head(todo).entry
    <3>1. PICK v \in Version :
            versions' = Append(versions, v) /\ v.entry = Head(todo).entry
      BY <2>2
    <3>2. /\ Len(versions) \in Nat
          /\ DOMAIN versions = 1..Len(versions)
          /\ DOMAIN versions' = 1..(Len(versions) + 1)
          /\ \A i \in 1..Len(versions) : versions'[i] = versions[i]
          /\ versions'[Len(versions) + 1] = v
      BY <3>1, VersionAdded DEF TypeOK
    <3>3. DOMAIN versions' = DOMAIN versions \cup {Len(versions) + 1}
      BY <3>2
    <3> QED
      BY <3>1, <3>2, <3>3, <2>2 DEF Listed
  <2> QED
    BY <2>1, <2>2, EntryDone
<1> QED
  BY <1>4, <1>5, <1>6, <1>7

-----------------------------------------------------------------------------
(* Nothing wanted is missed unless an entry has left its place.            *)

LEMMA BetweenStep ==
  TypeOK /\ BetweenPages /\ [Next]_vars => BetweenPages'
<1> SUFFICES ASSUME TypeOK, BetweenPages, [Next]_vars PROVE BetweenPages'
  OBVIOUS
<1> USE DEF BetweenPages
<1>1. CASE Gitea
  BY <1>1, GiteaAlone DEF runVars
<1>2. CASE SkipEntry \/ AddWithFile \/ AddBranch
  BY <1>2, EntryDone DEF AtEntry
<1>3. CASE TurnPage
  <2>1. page \in Nat \ {0} /\ (page' = page + 1 => page' # 1)
    BY DEF TypeOK
  <2> QED
    BY <2>1, <1>3 DEF TurnPage
<1>4. CASE ReadPage \/ GiteaFails \/ EntryGone \/ FindNothing \/ StoreSorted
  BY <1>4 DEF ReadPage, GiteaFails, EntryGone, FindNothing, StoreSorted
<1>5. CASE UNCHANGED vars
  BY <1>5 DEF vars, runVars
<1> QED
  BY <1>1, <1>2, <1>3, <1>4, <1>5 DEF Next, List

LEMMA MissedStep ==
  TypeOK /\ BetweenPages /\ NoneMissed /\ [Next]_vars => NoneMissed'
<1> DEFINE Sure == (page = 1 /\ ~more) \/ ~Happened({"removed", "pushed"})
<1> SUFFICES ASSUME TypeOK, BetweenPages, NoneMissed, [Next]_vars, Sure',
                    NEW k \in (DOMAIN remote)',
                    ReadPlace(k)', Wants(remote[k])', ~Touched(remote[k])'
             PROVE  remote'[k] \in Listed' \cup Coming'
  BY DEF NoneMissed
<1>1. /\ remote \in Seq(Entries) /\ IsInjective(remote)
      /\ Len(remote) \in Nat /\ DOMAIN remote = 1..Len(remote)
      /\ changes \in Seq(Change) /\ page \in Nat \ {0}
      /\ page * PageSize \in Nat /\ (page - 1) * PageSize \in Nat
      /\ page = 1 => (page - 1) * PageSize = 0
  BY PageBounds, ListingAssumption DEF TypeOK
<1>2. ASSUME Sure, NEW n \in 1..Len(remote),
             ReadPlace(n), Wants(remote[n]), ~Touched(remote[n])
      PROVE  remote[n] \in Listed \cup Coming
  BY <1>1, <1>2 DEF NoneMissed
<1>3. ASSUME Gitea, UNCHANGED kind PROVE remote'[k] \in Listed' \cup Coming'
  <2>1. /\ UNCHANGED runVars
        /\ Listed' = Listed /\ Coming' = Coming
    BY <1>3, GiteaAlone DEF runVars, Listed, Coming
  <2>2. /\ ~Touched(remote'[k]) /\ Wants(remote'[k])
        /\ Happened({"removed", "pushed"}) => Happened({"removed", "pushed"})'
    BY <1>3, GiteaLeavesTrace DEF Wants
  <2>3. Sure
    BY <2>1, <2>2 DEF runVars
  <2>4. remote' \in Seq(Entries) /\ k \in 1..Len(remote') /\ k \in Nat
    <3>1. TypeOK'
      BY TypeStep
    <3>2. remote' \in Seq(Entries)
      BY <3>1 DEF TypeOK
    <3>3. k \in DOMAIN remote'
      OBVIOUS
    <3> QED
      BY <3>2, <3>3
  <2>5. PICK n \in 1..Len(remote) : ReadPlace(n) /\ remote[n] = remote'[k]
    <3>1. CASE \E e \in Entries, i \in 1..(Len(remote) + 1), date \in Dates : Add(e, i, date)
      <4>1. PICK e \in Entries, i \in 1..(Len(remote) + 1), date \in Dates : Add(e, i, date)
        BY <3>1
      <4>2. remote'[k] # e
        BY <1>1, <4>1, HistoryGrows DEF Add
      <4>3. PICK n \in 1..Len(remote) : n <= k /\ remote[n] = remote'[k]
        BY <1>1, <4>1, <4>2, <2>4, AddedPlaces
      <4>4. ReadPlace(n)
        BY <1>1, <2>1, <2>4, <4>3 DEF ReadPlace, runVars
      <4> QED
        BY <4>3, <4>4
    <3>2. CASE (\E i \in DOMAIN remote : Delete(i))
               \/ \E i, m \in DOMAIN remote, date \in Dates : PushTo(i, m, date)
      <4>1. Happened({"removed", "pushed"})'
        <5>1. ASSUME NEW e \in Entries, NEW what \in {"removed", "pushed"},
                     Happens(what, e)
              PROVE  Happened({"removed", "pushed"})'
          BY <1>1, <5>1, HistoryGrows
        <5> QED
          BY <5>1, <3>2, <1>1 DEF Delete, PushTo
      <4>2. page = 1 /\ ~more
        BY <4>1, <2>1 DEF runVars
      <4>3. ReadPlace(k)
        BY <2>1 DEF ReadPlace, runVars
      <4>4. \A n \in 1..Len(remote) : ReadPlace(n)
        BY <4>2, <4>3, <2>4, <1>1 DEF ReadPlace
      <4>5. remote'[k] \in There
        <5>1. remote'[k] \in There'
          BY DEF There
        <5> QED
          BY <5>1, <1>3, OthersStay
      <4>6. PICK n \in DOMAIN remote : remote[n] = remote'[k]
        BY <4>5 DEF There
      <4> QED
        BY <4>4, <4>6, <1>1
    <3> QED
      BY <3>1, <3>2, <1>3 DEF Gitea
  <2> HIDE DEF Sure
  <2> QED
    BY <2>1, <2>2, <2>3, <2>5, <1>2
<1>4. ASSUME UNCHANGED giteaVars
      PROVE  /\ k \in 1..Len(remote) /\ k \in Nat /\ remote'[k] = remote[k]
             /\ ~Touched(remote[k])
             /\ UNCHANGED <<page, more>> => Sure
             /\ page' # 1 => Sure
             /\ UNCHANGED kind => Wants(remote[k])
  <2>1. remote' = remote
    BY <1>4 DEF giteaVars
  <2> QED
    BY <1>1, <1>4, <2>1, HistoryStays DEF Wants
<1>5. ASSUME ReadPage, UNCHANGED kind
      PROVE  remote'[k] \in Listed' \cup Coming'
  <2>1. /\ UNCHANGED giteaVars /\ versions' = versions /\ page' = page
        /\ phase = "paging" /\ phase' = "page" /\ more' = (page < LastPage)
    BY <1>5 DEF ReadPage
  <2>2. k <= page * PageSize
    <3>1. CASE more'
      BY <2>1, <3>1 DEF ReadPlace
    <3>2. CASE ~more'
      <4>1. Len(remote) <= page * PageSize
        BY <3>2, <2>1, <1>1, LastPageEnds
      <4> QED
        BY <4>1, <1>1, <1>4, <2>1
    <3> QED
      BY <3>1, <3>2
  <2>3. CASE k <= (page - 1) * PageSize
    <3>1. ReadPlace(k) /\ page' # 1
      BY <2>1, <2>3, <1>1, <1>4 DEF ReadPlace
    <3>2. remote[k] \in Listed \cup Coming
      <4> HIDE DEF Sure
      <4> QED
        BY <3>1, <2>1, <1>2, <1>4, <1>5
    <3>3. Coming = {}
      BY <2>1 DEF Coming, BetweenPages
    <3> QED
      BY <3>2, <3>3, <2>1, <1>4 DEF Listed
  <2>4. CASE (page - 1) * PageSize < k
    BY <2>1, <2>2, <2>4, <1>4, <1>5, PageComes
  <2> QED
    BY <2>3, <2>4, <2>1, <1>1, <1>4
<1>6. ASSUME TurnPage, UNCHANGED kind
      PROVE  remote'[k] \in Listed' \cup Coming'
  <2>1. /\ UNCHANGED giteaVars /\ versions' = versions /\ todo' = todo
        /\ phase = "page"
        /\ \/ more /\ phase' = "paging" /\ page' = page + 1
           \/ ~more /\ phase' = "listed" /\ page' = page /\ more' = more
    BY <1>6 DEF TurnPage
  <2>2. ReadPlace(k)
    <3>1. CASE more /\ phase' = "paging" /\ page' = page + 1
      <4>1. (page' - 1) * PageSize = page * PageSize
        BY <3>1, <1>1
      <4> QED
        BY <4>1, <3>1, <2>1 DEF ReadPlace
    <3>2. CASE ~more
      BY <3>2, <2>1 DEF ReadPlace
    <3> QED
      BY <3>1, <3>2, <2>1
  <2>3. Sure
    <3>1. page' = page + 1 => page' # 1
      BY <1>1
    <3> HIDE DEF Sure
    <3> QED
      BY <3>1, <2>1, <1>4
  <2> HIDE DEF Sure
  <2>4. remote[k] \in Listed \cup Coming
    BY <2>1, <2>2, <2>3, <1>2, <1>4, <1>6
  <2> QED
    BY <2>1, <2>4, <1>4 DEF Listed, Coming
<1>7. ASSUME SkipEntry \/ AddWithFile \/ AddBranch, UNCHANGED kind
      PROVE  remote'[k] \in Listed' \cup Coming'
  <2>1. UNCHANGED giteaVars /\ UNCHANGED <<phase, page, more>>
    BY <1>7, EntryDone DEF giteaVars
  <2>2. ReadPlace(k)
    BY <2>1 DEF ReadPlace
  <2>3. remote[k] \in Listed \cup Coming /\ Wants(remote[k])
    <3> HIDE DEF Sure
    <3> QED
      BY <2>1, <2>2, <1>2, <1>4, <1>7
  <2> QED
    BY <1>7, <2>1, <2>3, <1>4, EntryMoves
<1>8. ASSUME GiteaFails \/ EntryGone PROVE FALSE
  BY <1>8 DEF GiteaFails, EntryGone, ReadPlace
<1>9. ASSUME FindNothing \/ StoreSorted, UNCHANGED kind
       PROVE  remote'[k] \in Listed' \cup Coming'
  <2>1. /\ UNCHANGED giteaVars /\ UNCHANGED <<versions, todo, page, more>>
        /\ phase = "listed"
    BY <1>9 DEF FindNothing, StoreSorted
  <2>2. ReadPlace(k)
    BY <2>1 DEF ReadPlace
  <2>3. remote[k] \in Listed \cup Coming
    <3> HIDE DEF Sure
    <3> QED
      BY <2>1, <2>2, <1>2, <1>4, <1>9
  <2> QED
    BY <2>1, <2>3, <1>4 DEF Listed, Coming
<1>10. CASE UNCHANGED vars
  <2>1. UNCHANGED giteaVars /\ UNCHANGED <<kind, phase, page, more, versions, todo>>
    BY <1>10 DEF vars, runVars
  <2>2. ReadPlace(k)
    BY <2>1 DEF ReadPlace
  <2>3. remote[k] \in Listed \cup Coming
    <3> HIDE DEF Sure
    <3> QED
      BY <2>1, <2>2, <1>2, <1>4
  <2> QED
    BY <2>1, <2>3, <1>4 DEF Listed, Coming
<1> QED
  BY <1>3, <1>5, <1>6, <1>7, <1>8, <1>9, <1>10 DEF Next, List

-----------------------------------------------------------------------------
(* Nothing is listed twice unless an entry has come in.                    *)

LEMMA DoubledStep ==
  TypeOK /\ BetweenPages /\ NoneDoubled /\ NoneAhead /\ [Next]_vars => NoneDoubled'
<1> DEFINE Sure == page = 1 \/ ~Happened({"added", "pushed"})
           Apart == \A i, k \in DOMAIN versions :
                      versions[i].entry = versions[k].entry => i = k
           ApartInHand == \A i, k \in DOMAIN todo :
                            todo[i].entry = todo[k].entry => i = k
           Disjoint == Listed \cap Coming = {}
<1> SUFFICES ASSUME TypeOK, BetweenPages, NoneDoubled, NoneAhead, [Next]_vars, Sure'
             PROVE  Apart' /\ ApartInHand' /\ Disjoint'
  BY DEF NoneDoubled
<1>1. /\ remote \in Seq(Entries) /\ IsInjective(remote)
      /\ Len(remote) \in Nat /\ DOMAIN remote = 1..Len(remote)
      /\ changes \in Seq(Change) /\ page \in Nat \ {0}
      /\ (page - 1) * PageSize \in Nat
  BY PageBounds DEF TypeOK
<1>2. \A a, b \in 1..Len(remote) : remote[a] = remote[b] => a = b
  BY <1>1, InjectiveSeq
<1>3. ASSUME Sure PROVE Apart /\ ApartInHand /\ Disjoint
  BY <1>3 DEF NoneDoubled
<1>4. ASSUME page' = page \/ page' # 1,
             Happened({"added", "pushed"}) => Happened({"added", "pushed"})'
      PROVE  Sure
  BY <1>4
<1>5. UNCHANGED giteaVars
        => (Happened({"added", "pushed"})' <=> Happened({"added", "pushed"}))
  BY HistoryStays
<1>6. ASSUME UNCHANGED <<versions, todo>>
      PROVE  /\ Apart' <=> Apart
             /\ ApartInHand' <=> ApartInHand
             /\ Disjoint' <=> Disjoint
  BY <1>6 DEF Listed, Coming
<1>7. CASE Gitea
  <2>1. UNCHANGED <<versions, todo, page>>
    BY <1>7, GiteaAlone DEF runVars
  <2>2. Happened({"added", "pushed"}) => Happened({"added", "pushed"})'
    BY <1>7, GiteaLeavesTrace
  <2> HIDE DEF Sure, Apart, ApartInHand, Disjoint
  <2> QED
    BY <2>1, <2>2, <1>3, <1>4, <1>6
<1>8. CASE ReadPage
  <2>1. /\ UNCHANGED giteaVars /\ versions' = versions /\ page' = page
        /\ phase = "paging"
    BY <1>8 DEF ReadPage
  <2>2. Sure
    <3> HIDE DEF Sure
    <3> QED
      BY <2>1, <1>4, <1>5
  <2>3. ApartInHand'
    <3>1. /\ todo' \in Seq(Version)
          /\ \A i \in 1..Len(todo') :
               /\ (page - 1) * PageSize + i \in 1..Len(remote)
               /\ todo'[i].entry = remote[(page - 1) * PageSize + i]
      BY <1>8, PageInHand
    <3>2. ASSUME NEW i \in 1..Len(todo'), NEW k \in 1..Len(todo'),
                 todo'[i].entry = todo'[k].entry
          PROVE  i = k
      <4>1. (page - 1) * PageSize + i = (page - 1) * PageSize + k
        BY <3>1, <3>2, <1>2
      <4> QED
        BY <4>1, <1>1, <3>1
    <3> QED
      BY <3>1, <3>2
  <2>4. \A x : x \in Coming' <=>
          \E k \in 1..Len(remote) :
            (page - 1) * PageSize < k /\ k <= page * PageSize /\ x = remote[k]
    BY <1>8, PageComes
  <2>5. Disjoint'
    <3>1. CASE page = 1
      <4>1. DOMAIN versions = {}
        BY <3>1, <2>1 DEF BetweenPages
      <4> QED
        BY <4>1, <2>1 DEF Listed
    <3>2. CASE ~Happened({"added", "pushed"})
      <4>1. ASSUME NEW x, x \in Listed, x \in Coming' PROVE FALSE
        <5>1. PICK k \in 1..Len(remote) : (page - 1) * PageSize < k /\ x = remote[k]
          BY <4>1, <2>4
        <5>2. k <= (page - 1) * PageSize
          BY <5>1, <4>1, <3>2, <2>1, <1>1 DEF NoneAhead
        <5> QED
          BY <5>1, <5>2, <1>1
      <4> QED
        BY <4>1, <2>1 DEF Listed
    <3> QED
      BY <3>1, <3>2, <2>2
  <2>6. Apart'
    BY <2>1, <2>2, <1>3
  <2> QED
    BY <2>3, <2>5, <2>6
<1>9. CASE SkipEntry \/ AddWithFile \/ AddBranch
  <2> DEFINE e == Head(todo).entry
  <2>1. /\ UNCHANGED giteaVars /\ UNCHANGED page
        /\ AtEntry /\ todo' = Tail(todo)
    BY <1>9, EntryDone DEF giteaVars
  <2>2. Apart /\ ApartInHand /\ Listed \cap Coming = {}
    <3>1. Apart /\ ApartInHand /\ Disjoint
      <4> HIDE DEF Sure, Apart, ApartInHand, Disjoint
      <4> QED
        BY <2>1, <1>3, <1>4, <1>5
    <3> QED
      BY <3>1
  <2>3. /\ e \in Coming
        /\ \A x : x \in Coming <=> x \in Coming' \/ x = e
        /\ \A x : x \in Listed' <=> x \in Listed \/ (x = e /\ Wants(e))
    BY <1>9, EntryMoves
  <2>4. /\ e = todo[1].entry /\ Len(todo) \in Nat \ {0}
        /\ DOMAIN todo = 1..Len(todo) /\ DOMAIN todo' = 1..(Len(todo) - 1)
        /\ \A i \in 1..(Len(todo) - 1) : todo'[i] = todo[i + 1]
    BY <2>1, EntryInHand DEF TypeOK
  <2> HIDE DEF e
  <2>5. ApartInHand'
    <3>1. ASSUME NEW i \in 1..(Len(todo) - 1), NEW k \in 1..(Len(todo) - 1),
                 todo'[i].entry = todo'[k].entry
          PROVE  i = k
      <4>1. /\ i + 1 \in DOMAIN todo /\ k + 1 \in DOMAIN todo
            /\ todo[i + 1].entry = todo[k + 1].entry
        BY <3>1, <2>4
      <4>2. i + 1 = k + 1
        BY <4>1, <2>2
      <4> QED
        BY <4>2, <2>4
    <3> QED
      BY <3>1, <2>4
  <2>6. e \notin Coming'
    <3>1. ASSUME NEW i \in 1..(Len(todo) - 1), todo'[i].entry = e PROVE FALSE
      <4>1. /\ i + 1 \in DOMAIN todo /\ 1 \in DOMAIN todo
            /\ todo[i + 1].entry = todo[1].entry
        BY <3>1, <2>4
      <4>2. i + 1 = 1
        BY <4>1, <2>2
      <4> QED
        BY <4>2, <2>4
    <3> QED
      BY <3>1, <2>4 DEF Coming
  <2>7. Disjoint'
    BY <2>2, <2>3, <2>6
  <2>8. Apart'
    <3>1. CASE versions' = versions
      BY <3>1, <2>2
    <3>2. CASE \E v \in Version : versions' = Append(versions, v) /\ v.entry = e
      <4>1. PICK v \in Version : versions' = Append(versions, v) /\ v.entry = e
        BY <3>2
      <4>2. /\ Len(versions) \in Nat
            /\ DOMAIN versions = 1..Len(versions)
            /\ DOMAIN versions' = 1..(Len(versions) + 1)
            /\ \A i \in 1..Len(versions) : versions'[i] = versions[i]
            /\ versions'[Len(versions) + 1] = v
        BY <4>1, VersionAdded DEF TypeOK
      <4>3. \A i \in 1..Len(versions) : versions[i].entry # e
        BY <2>2, <2>3, <4>2 DEF Listed
      <4>4. ASSUME NEW i \in DOMAIN versions', NEW k \in DOMAIN versions',
                   versions'[i].entry = versions'[k].entry
            PROVE  i = k
        <5>1. CASE i = Len(versions) + 1 /\ k = Len(versions) + 1
          BY <5>1
        <5>2. CASE i # Len(versions) + 1 /\ k # Len(versions) + 1
          <6>1. i \in DOMAIN versions /\ k \in DOMAIN versions
            BY <5>2, <4>2
          <6> QED
            BY <6>1, <4>2, <4>4, <2>2
        <5>3. CASE i # Len(versions) + 1 /\ k = Len(versions) + 1
          <6>1. i \in 1..Len(versions)
            BY <5>3, <4>2
          <6> QED
            BY <6>1, <5>3, <4>1, <4>2, <4>3, <4>4
        <5>4. CASE i = Len(versions) + 1 /\ k # Len(versions) + 1
          <6>1. k \in 1..Len(versions)
            BY <5>4, <4>2
          <6> QED
            BY <6>1, <5>4, <4>1, <4>2, <4>3, <4>4
        <5> QED
          BY <5>1, <5>2, <5>3, <5>4
      <4> QED
        BY <4>4
    <3> QED
      BY <3>1, <3>2, <1>9, EntryDone DEF e
  <2> QED
    BY <2>5, <2>7, <2>8
<1>10. CASE TurnPage
  <2>1. /\ UNCHANGED giteaVars /\ UNCHANGED <<versions, todo>>
        /\ page' = page + 1 \/ page' = page
    BY <1>10 DEF TurnPage
  <2>2. page' = page \/ page' # 1
    BY <2>1, <1>1
  <2> HIDE DEF Sure, Apart, ApartInHand, Disjoint
  <2> QED
    BY <2>1, <2>2, <1>3, <1>4, <1>5, <1>6
<1>11. CASE UNCHANGED giteaVars /\ UNCHANGED <<versions, todo, page>>
  <2> HIDE DEF Sure, Apart, ApartInHand, Disjoint
  <2> QED
    BY <1>11, <1>3, <1>4, <1>5, <1>6
<1>12. GiteaFails \/ EntryGone \/ FindNothing \/ StoreSorted \/ UNCHANGED vars
         => UNCHANGED giteaVars /\ UNCHANGED <<versions, todo, page>>
  BY DEF GiteaFails, EntryGone, FindNothing, StoreSorted, vars, runVars
<1> HIDE DEF Sure, Apart, ApartInHand, Disjoint
<1> QED
  BY <1>7, <1>8, <1>9, <1>10, <1>11, <1>12 DEF Next, List

(* Entries that leave only move the others to the front, past which the    *)
(* runner is already.                                                      *)
LEMMA AheadStep ==
  TypeOK /\ BetweenPages /\ NoneAhead /\ [Next]_vars => NoneAhead'
<1> DEFINE limit == (IF phase = "paging" THEN page - 1 ELSE page) * PageSize
           Held == Listed \cup Coming
<1> SUFFICES ASSUME TypeOK, BetweenPages, NoneAhead, [Next]_vars,
                    ~Happened({"added", "pushed"})', phase' \in {"paging", "page"},
                    NEW k \in (DOMAIN remote)', remote'[k] \in Held'
             PROVE  k <= limit'
  BY DEF NoneAhead
<1>1. /\ remote \in Seq(Entries) /\ IsInjective(remote)
      /\ Len(remote) \in Nat /\ DOMAIN remote = 1..Len(remote)
      /\ changes \in Seq(Change) /\ page \in Nat \ {0}
      /\ page * PageSize \in Nat /\ (page - 1) * PageSize \in Nat
      /\ page * PageSize = (page - 1) * PageSize + PageSize
      /\ PageSize \in Nat /\ limit \in Nat
  BY PageBounds, ListingAssumption DEF TypeOK
<1>2. \A a, b \in 1..Len(remote) : remote[a] = remote[b] => a = b
  BY <1>1, InjectiveSeq
<1>3. ASSUME ~Happened({"added", "pushed"}), phase \in {"paging", "page"},
             NEW n \in 1..Len(remote), remote[n] \in Held
      PROVE  n <= limit
  BY <1>1, <1>3 DEF NoneAhead
<1>4. ASSUME UNCHANGED <<versions, todo>> PROVE Held' = Held
  BY <1>4 DEF Listed, Coming
<1>5. ASSUME UNCHANGED giteaVars
      PROVE  /\ ~Happened({"added", "pushed"}) /\ remote' = remote
             /\ k \in 1..Len(remote) /\ k \in Nat
  <2>1. remote' = remote
    BY <1>5 DEF giteaVars
  <2> QED
    BY <1>1, <1>5, <2>1, HistoryStays
<1>6. ASSUME NEW what \in {"added", "pushed"}, NEW e \in Entries, Happens(what, e)
      PROVE  FALSE
  BY <1>1, <1>6, HistoryGrows
<1>7. ASSUME NEW e \in Entries, NEW i \in 1..(Len(remote) + 1),
             NEW date \in Dates, Add(e, i, date)
      PROVE  FALSE
  BY <1>6, <1>7 DEF Add
<1>8. ASSUME NEW i \in DOMAIN remote, NEW n \in DOMAIN remote,
             NEW date \in Dates, PushTo(i, n, date)
      PROVE  FALSE
  BY <1>1, <1>6, <1>8 DEF PushTo
<1>9. ASSUME NEW i \in DOMAIN remote, Delete(i) PROVE k <= limit'
  <2>1. /\ remote[i] \in Entries /\ Happens("removed", remote[i])
        /\ remote' = RemoveAt(remote, i)
        /\ UNCHANGED <<versions, todo, phase, page>>
    BY <1>1, <1>9 DEF Delete, runVars
  <2>2. ~Happened({"added", "pushed"})
    BY <1>1, <2>1, HistoryGrows
  <2>3. /\ remote' \in Seq(Entries)
        /\ \A m \in 1..Len(remote') :
             \E n \in 1..Len(remote) : m <= n /\ remote[n] = remote'[m]
    BY <1>1, <2>1, DeletedPlaces
  <2>4. k \in 1..Len(remote') /\ k \in Nat
    BY <2>3
  <2>5. PICK n \in 1..Len(remote) : k <= n /\ remote[n] = remote'[k]
    BY <2>3, <2>4
  <2>6. limit' = limit /\ Held' = Held
    BY <2>1, <1>4
  <2> HIDE DEF limit, Held
  <2>7. n <= limit
    BY <2>1, <2>2, <2>5, <2>6, <1>3
  <2> QED
    BY <2>4, <2>5, <2>6, <2>7, <1>1
<1>10. CASE ReadPage
  <2>1. /\ UNCHANGED giteaVars /\ versions' = versions /\ page' = page
        /\ phase = "paging" /\ phase' = "page"
    BY <1>10 DEF ReadPage
  <2>2. limit' = page * PageSize /\ limit = (page - 1) * PageSize
    BY <2>1
  <2>3. CASE remote[k] \in Listed
    <3> HIDE DEF limit
    <3> QED
      BY <2>1, <2>2, <2>3, <1>1, <1>3, <1>5
  <2>4. CASE remote[k] \in Coming'
    <3>1. PICK n \in 1..Len(remote) : n <= page * PageSize /\ remote[k] = remote[n]
      BY <2>4, <1>10, PageComes
    <3>2. n = k
      BY <3>1, <2>1, <1>2, <1>5
    <3> QED
      BY <3>1, <3>2, <2>2
  <2> QED
    BY <2>1, <2>3, <2>4, <1>5 DEF Listed
<1>11. CASE TurnPage
  <2>1. /\ UNCHANGED giteaVars /\ UNCHANGED <<versions, todo>>
        /\ phase = "page" /\ phase' = "paging" /\ page' = page + 1
    BY <1>11 DEF TurnPage
  <2>2. limit' = limit /\ Held' = Held
    BY <2>1, <1>1, <1>4
  <2> HIDE DEF limit, Held
  <2> QED
    BY <2>1, <2>2, <1>3, <1>5
<1>12. CASE SkipEntry \/ AddWithFile \/ AddBranch
  <2>1. UNCHANGED giteaVars /\ UNCHANGED <<phase, page>>
    BY <1>12, EntryDone DEF giteaVars
  <2>2. Held' \subseteq Held /\ limit' = limit
    BY <2>1, <1>12, EntryMoves
  <2> HIDE DEF limit, Held
  <2> QED
    BY <2>1, <2>2, <1>3, <1>5
<1>13. ASSUME GiteaFails \/ EntryGone \/ FindNothing \/ StoreSorted PROVE FALSE
  BY <1>13 DEF GiteaFails, EntryGone, FindNothing, StoreSorted
<1>14. CASE UNCHANGED vars
  <2>1. UNCHANGED giteaVars /\ UNCHANGED <<versions, todo, phase, page>>
    BY <1>14 DEF vars, runVars
  <2>2. limit' = limit /\ Held' = Held
    BY <2>1, <1>4
  <2> HIDE DEF limit, Held
  <2> QED
    BY <2>1, <2>2, <1>3, <1>5
<1> HIDE DEF limit, Held
<1> QED
  BY <1>7, <1>8, <1>9, <1>10, <1>11, <1>12, <1>13, <1>14, <1>1 DEF Next, Gitea, List

-----------------------------------------------------------------------------
(* Nothing is listed that should not be.                                   *)

LEMMA StrangeStep ==
  TypeOK /\ NoneStrange /\ [Next]_vars => NoneStrange'
<1> SUFFICES ASSUME TypeOK, NoneStrange, [Next]_vars PROVE NoneStrange'
  OBVIOUS
<1>1. /\ \A e \in Listed : Wants(e)
      /\ \A e \in Listed \cup Coming : ~Touched(e) => e \in There
  BY DEF NoneStrange
<1>2. \A e : Wants(e)' <=> Wants(e)
  BY DEF Next, vars, Wants
<1>3. ASSUME UNCHANGED giteaVars
      PROVE  There' = There /\ \A e : Touched(e)' <=> Touched(e)
  BY <1>3, HistoryStays
<1>4. CASE Gitea
  <2>1. Listed' = Listed /\ Coming' = Coming
    BY <1>4, GiteaAlone DEF runVars, Listed, Coming
  <2>2. \A e : ~Touched(e)' => ~Touched(e) /\ (e \in There' <=> e \in There)
    BY <1>4, GiteaLeavesTrace, OthersStay
  <2> QED
    BY <2>1, <2>2, <1>1, <1>2 DEF NoneStrange
<1>5. CASE ReadPage
  <2>1. Listed' = Listed /\ UNCHANGED giteaVars
    BY <1>5 DEF ReadPage, Listed
  <2>2. \A x \in Coming' : \E k \in 1..Len(remote) : x = remote[k]
    BY <1>5, PageComes
  <2>3. Coming' \subseteq There
    BY <2>2 DEF There, TypeOK
  <2> QED
    BY <2>1, <2>3, <1>1, <1>2, <1>3 DEF NoneStrange
<1>6. CASE SkipEntry \/ AddWithFile \/ AddBranch
  <2> DEFINE e == Head(todo).entry
  <2>1. UNCHANGED giteaVars
    BY <1>6, EntryDone DEF giteaVars
  <2>2. /\ e \in Coming
        /\ \A x : x \in Coming <=> x \in Coming' \/ x = e
        /\ \A x : x \in Listed' <=> x \in Listed \/ (x = e /\ Wants(e))
    BY <1>6, EntryMoves
  <2> HIDE DEF e
  <2> QED
    BY <2>1, <2>2, <1>1, <1>2, <1>3 DEF NoneStrange
<1>7. CASE UNCHANGED giteaVars /\ UNCHANGED <<versions, todo>>
  <2>1. Listed' = Listed /\ Coming' = Coming
    BY <1>7 DEF Listed, Coming
  <2> QED
    BY <2>1, <1>1, <1>2, <1>3, <1>7 DEF NoneStrange
<1>8. TurnPage \/ GiteaFails \/ EntryGone \/ FindNothing \/ StoreSorted
        => UNCHANGED giteaVars /\ UNCHANGED <<versions, todo>>
  BY DEF TurnPage, GiteaFails, EntryGone, FindNothing, StoreSorted
<1>9. UNCHANGED vars => UNCHANGED giteaVars /\ UNCHANGED <<versions, todo>>
  BY DEF vars, runVars
<1> QED
  BY <1>4, <1>5, <1>6, <1>7, <1>8, <1>9 DEF Next, List

-----------------------------------------------------------------------------
(* The dates, and the latest version.                                      *)

LEMMA DatesStep ==
  TypeOK /\ DatesFit /\ [Next]_vars => DatesFit'
<1> SUFFICES ASSUME TypeOK, DatesFit, [Next]_vars PROVE DatesFit'
  OBVIOUS
<1>1. /\ clock \in Nat /\ created \in [Entries -> Nat]
      /\ todo \in Seq(Version) /\ versions \in Seq(Version)
      /\ DOMAIN todo = 1..Len(todo) /\ DOMAIN versions = 1..Len(versions)
      /\ \A i \in DOMAIN todo : todo[i].entry \in Entries
      /\ \A i \in DOMAIN versions : versions[i].entry \in Entries
  <2>1. /\ clock \in Nat /\ created \in [Entries -> Nat]
        /\ todo \in Seq(Version) /\ versions \in Seq(Version)
    BY DEF TypeOK
  <2>2. /\ \A i \in DOMAIN todo : todo[i] \in Version
        /\ \A i \in DOMAIN versions : versions[i] \in Version
    BY <2>1
  <2> QED
    BY <2>1, <2>2 DEF Version
<1>2. UNCHANGED kind
  BY DEF Next, vars
<1>3. CASE Gitea
  <2>1. /\ \A x : Touched(x) => Touched(x)'
        /\ \A x \in Entries : ~Touched(x)' => created'[x] = created[x]
        /\ clock' >= clock
    BY <1>3, GiteaLeavesTrace
  <2>2. clock' \in Nat
    BY TypeStep DEF TypeOK
  <2>3. UNCHANGED <<todo, versions>>
    BY <1>3, GiteaAlone DEF runVars
  <2>4. clock' >= Start
    BY <2>1, <2>2, <1>1 DEF DatesFit, Start
  <2>6. \A i \in DOMAIN todo :
          ~Touched(todo[i].entry)' => todo[i].created = created'[todo[i].entry]
    BY <2>1, <2>3, <1>1 DEF DatesFit
  <2>7. \A i \in DOMAIN versions :
          IF kind = "branch" /\ versions[i].entry = GhPages
          THEN versions[i].created >= Start
          ELSE ~Touched(versions[i].entry)'
                 => versions[i].created = created'[versions[i].entry]
    BY <2>1, <2>3, <1>1 DEF DatesFit
  <2> QED
    BY <2>3, <2>4, <2>6, <2>7, <1>2 DEF DatesFit
<1>4. ASSUME UNCHANGED giteaVars
      PROVE  /\ \A x : Touched(x)' <=> Touched(x)
             /\ clock' = clock /\ created' = created
  BY <1>4, HistoryStays DEF giteaVars
<1>5. CASE ReadPage
  <2>1. UNCHANGED giteaVars /\ UNCHANGED versions
    BY <1>5 DEF ReadPage
  <2>2. \A i \in DOMAIN todo' : todo'[i].created = created[todo'[i].entry]
    BY <1>5, PageInHand
  <2> QED
    BY <2>1, <2>2, <1>2, <1>4 DEF DatesFit
<1>6. CASE SkipEntry \/ AddWithFile \/ AddBranch
  <2> DEFINE e == Head(todo).entry
  <2>1. /\ UNCHANGED giteaVars /\ AtEntry /\ todo' = Tail(todo)
    BY <1>6, EntryDone DEF giteaVars
  <2>2. /\ Head(todo) = todo[1] /\ Len(todo) \in Nat \ {0}
        /\ DOMAIN todo' = 1..(Len(todo) - 1)
        /\ \A i \in 1..(Len(todo) - 1) : todo'[i] = todo[i + 1]
    BY <2>1, EntryInHand
  <2>3. ~Touched(e) => Head(todo).created = created[e]
    BY <2>2, <1>1 DEF DatesFit
  <2>4. ASSUME NEW i \in DOMAIN todo', ~Touched(todo'[i].entry)
        PROVE  todo'[i].created = created[todo'[i].entry]
    <3>1. i + 1 \in DOMAIN todo /\ todo'[i] = todo[i + 1]
      BY <2>2, <1>1
    <3> QED
      BY <3>1, <2>4 DEF DatesFit
  <2>5. ASSUME NEW i \in DOMAIN versions'
        PROVE  IF kind = "branch" /\ versions'[i].entry = GhPages
               THEN versions'[i].created >= Start
               ELSE ~Touched(versions'[i].entry)
                      => versions'[i].created = created[versions'[i].entry]
    <3>1. CASE versions' = versions
      BY <3>1 DEF DatesFit
    <3>2. CASE \E v \in Version :
                 /\ versions' = Append(versions, v)
                 /\ v.entry = e
                 /\ v.created = IF kind = "branch" /\ v.entry = GhPages
                                THEN clock ELSE Head(todo).created
      <4>1. PICK v \in Version :
              /\ versions' = Append(versions, v)
              /\ v.entry = e
              /\ v.created = IF kind = "branch" /\ v.entry = GhPages
                             THEN clock ELSE Head(todo).created
        BY <3>2
      <4>2. /\ DOMAIN versions' = DOMAIN versions \cup {Len(versions) + 1}
            /\ \A n \in DOMAIN versions : versions'[n] = versions[n]
            /\ versions'[Len(versions) + 1] = v
        BY <4>1, <1>1, VersionAdded
      <4>3. CASE i \in DOMAIN versions
        BY <4>2, <4>3 DEF DatesFit
      <4>4. CASE i = Len(versions) + 1
        BY <4>1, <4>2, <4>4, <2>3 DEF DatesFit
      <4> QED
        BY <4>2, <4>3, <4>4
    <3> QED
      BY <3>1, <3>2, <1>6, EntryDone
  <2> QED
    BY <2>1, <2>4, <2>5, <1>2, <1>4 DEF DatesFit
<1>7. CASE UNCHANGED giteaVars /\ UNCHANGED <<versions, todo>>
  BY <1>7, <1>2, <1>4 DEF DatesFit
<1>8. TurnPage \/ GiteaFails \/ EntryGone \/ FindNothing \/ StoreSorted
        => UNCHANGED giteaVars /\ UNCHANGED <<versions, todo>>
  BY DEF TurnPage, GiteaFails, EntryGone, FindNothing, StoreSorted
<1>9. UNCHANGED vars => UNCHANGED giteaVars /\ UNCHANGED <<versions, todo>>
  BY DEF vars, runVars
<1> QED
  BY <1>3, <1>5, <1>6, <1>7, <1>8, <1>9 DEF Next, List

LEMMA LatestStep ==
  TypeOK /\ LatestCollected /\ [Next]_vars => LatestCollected'
<1> SUFFICES ASSUME TypeOK, LatestCollected, [Next]_vars PROVE LatestCollected'
  OBVIOUS
<1>1. CASE StoreSorted
  BY <1>1 DEF StoreSorted, LatestCollected
<1>2. CASE UNCHANGED <<phase, versions, latest>>
  BY <1>2 DEF LatestCollected
<1>3. CASE phase' # "stored"
  BY <1>3 DEF LatestCollected
<1>4. ReadPage \/ TurnPage \/ GiteaFails \/ EntryGone \/ FindNothing => phase' # "stored"
  BY DEF ReadPage, TurnPage, GiteaFails, EntryGone, FindNothing
<1>5. SkipEntry \/ AddWithFile \/ AddBranch => phase' # "stored"
  BY DEF SkipEntry, AddWithFile, AddBranch, AtEntry, NextEntry
<1>6. Gitea \/ UNCHANGED vars => UNCHANGED <<phase, versions, latest>>
  BY GiteaAlone DEF vars, runVars
<1> QED
  BY <1>1, <1>2, <1>3, <1>4, <1>5, <1>6 DEF Next, List

-----------------------------------------------------------------------------
(* The invariant holds, and the properties follow from it.                 *)

LEMMA InvInit == Init => ListingInv
<1> SUFFICES ASSUME Init PROVE ListingInv
  OBVIOUS
<1>1. /\ clock = Start /\ created = Dated /\ changes = <<>>
      /\ phase = "paging" /\ page = 1 /\ todo = <<>> /\ versions = <<>>
  BY DEF Init
<1>2. TypeOK
  BY TypeInit
<1>3. DOMAIN todo = {} /\ DOMAIN versions = {}
  BY <1>1
<1>4. BetweenPages /\ NoneStrange /\ LatestCollected
  BY <1>1, <1>3 DEF BetweenPages, NoneStrange, LatestCollected, Coming, Listed
<1>5. NoneMissed
  <2>1. ASSUME NEW k \in DOMAIN remote PROVE ~ReadPlace(k)
    <3>1. k \in Nat \ {0} /\ (page - 1) * PageSize = 0
      BY <1>1, <1>2, ListingAssumption DEF TypeOK
    <3> QED
      BY <3>1, <1>1 DEF ReadPlace
  <2> QED
    BY <2>1 DEF NoneMissed
<1>6. NoneDoubled /\ NoneAhead
  BY <1>3 DEF NoneDoubled, NoneAhead, Listed, Coming
<1>7. DatesFit
  BY <1>1, <1>3 DEF DatesFit, Start
<1> QED
  BY <1>2, <1>4, <1>5, <1>6, <1>7 DEF ListingInv

LEMMA InvStep == ListingInv /\ [Next]_vars => ListingInv'
BY TypeStep, BetweenStep, MissedStep, DoubledStep, AheadStep, StrangeStep,
   DatesStep, LatestStep DEF ListingInv

LEMMA InvHolds == Spec => []ListingInv
BY InvInit, InvStep, PTL DEF Spec

(* At the end of the loop nothing is in hand any more.                     *)
LEMMA AtTheEnd ==
  ASSUME ListingInv, phase \in {"listed", "stored", "empty"}
  PROVE  /\ Coming = {}
         /\ page = 1 \/ ~Happened({"removed", "pushed"}) => Wanted \subseteq Listed
<1>1. Coming = {} /\ ~more
  BY DEF ListingInv, BetweenPages, Coming
<1>2. ASSUME page = 1 \/ ~Happened({"removed", "pushed"}), NEW e \in Wanted PROVE e \in Listed
  <2>1. PICK k \in DOMAIN remote : e = remote[k]
    BY DEF Wanted, There
  <2>2. ReadPlace(k) /\ Wants(remote[k]) /\ ~Touched(remote[k])
    BY <2>1 DEF ReadPlace, Wanted
  <2> QED
    BY <2>1, <2>2, <1>1, <1>2 DEF ListingInv, NoneMissed
<1> QED
  BY <1>1, <1>2

(* An entry that is there throughout is missed only if the list has more   *)
(* than one page and another entry left its place: entries that come in    *)
(* move the others away from the front, onto pages that are still to be    *)
(* read, but never past the runner.                                        *)
THEOREM MissedCorrect == Spec => []MissedOnlyIfLeft
<1>1. ListingInv => MissedOnlyIfLeft
  <2>1. ListingInv => (page \in Nat \ {0} /\ (page = 1 \/ page > 1))
    BY DEF ListingInv, TypeOK
  <2> QED
    BY <2>1, AtTheEnd DEF MissedOnlyIfLeft
<1> QED
  BY <1>1, InvHolds, PTL

(* An entry is listed twice only on two pages, and only if another one     *)
(* came in: entries that leave only move the others to the front, past     *)
(* which the runner is.                                                    *)
THEOREM DoubledCorrect == Spec => []DoubledOnlyIfCame
<1>1. ListingInv => DoubledOnlyIfCame
  <2> SUFFICES ASSUME ListingInv, page = 1 \/ ~Happened({"added", "pushed"})
               PROVE  IsInjective([i \in DOMAIN versions |-> versions[i].entry])
    BY DEF DoubledOnlyIfCame, ListingInv, TypeOK
  <2>1. \A i, k \in DOMAIN versions : versions[i].entry = versions[k].entry => i = k
    BY DEF ListingInv, NoneDoubled
  <2> QED
    BY <2>1 DEF IsInjective
<1> QED
  BY <1>1, InvHolds, PTL

(* Of a list that does not change while it is paged, the listing has each  *)
(* wanted entry once and nothing else.                                     *)
THEOREM ExactCorrect == Spec => []QuietListingExact
<1>1. ListingInv => QuietListingExact
  <2> SUFFICES ASSUME ListingInv, phase \in {"listed", "stored", "empty"},
                      changes = <<>>
               PROVE  Listed = Wanted /\ Len(versions) = Cardinality(Wanted)
    BY DEF QuietListingExact
  <2>1. /\ \A x : ~Touched(x)
        /\ \A whats : ~Happened(whats)
    BY DEF Touched, Happened
  <2>2. Listed = Wanted
    <3>1. Wanted \subseteq Listed
      BY <2>1, AtTheEnd
    <3>2. Listed \subseteq Wanted
      BY <2>1 DEF ListingInv, NoneStrange, Wanted
    <3> QED
      BY <3>1, <3>2
  <2>3. /\ Len(versions) \in Nat
        /\ DOMAIN versions = 1..Len(versions)
        /\ \A i, k \in 1..Len(versions) : versions[i].entry = versions[k].entry => i = k
    BY <2>1 DEF ListingInv, NoneDoubled, TypeOK
  <2> DEFINE f == [i \in 1..Len(versions) |-> versions[i].entry]
  <2>4. f \in Bijection(1..Len(versions), Listed)
    <3>1. f \in [1..Len(versions) -> Listed]
      BY <2>3 DEF Listed
    <3>2. \A a, b \in 1..Len(versions) : f[a] = f[b] => a = b
      BY <2>3
    <3>3. \A t \in Listed : \E i \in 1..Len(versions) : f[i] = t
      BY <2>3 DEF Listed
    <3> HIDE DEF f
    <3>4. f \in Injection(1..Len(versions), Listed)
      BY <3>1, <3>2 DEF Injection, IsInjective
    <3>5. f \in Surjection(1..Len(versions), Listed)
      BY <3>1, <3>3 DEF Surjection
    <3> QED
      BY <3>4, <3>5 DEF Bijection
  <2>5. ExistsBijection(1..Len(versions), Listed)
    BY <2>4 DEF ExistsBijection
  <2>6. IsFiniteSet(1..Len(versions)) /\ Cardinality(1..Len(versions)) = Len(versions)
    BY <2>3, FS_Interval
  <2>7. Cardinality(Listed) = Len(versions)
    BY <2>5, <2>6, FS_Bijection
  <2> QED
    BY <2>2, <2>7
<1> QED
  BY <1>1, InvHolds, PTL

(* The latest version is at least as new as everything that was there      *)
(* throughout, unless the list has more pages and an entry left its place. *)
THEOREM NewestCorrect == Spec => []LatestIsNewest
<1>1. ListingInv => LatestIsNewest
  <2> SUFFICES ASSUME ListingInv, phase = "stored",
                      page = 1 \/ ~Happened({"removed", "pushed"}), NEW e \in Wanted,
                      ~(kind = "branch" /\ e = GhPages)
               PROVE  created[e] <= latest[1].created
    BY DEF LatestIsNewest
  <2>1. e \in Listed
    BY AtTheEnd
  <2>2. PICK k \in DOMAIN versions : versions[k].entry = e
    BY <2>1 DEF Listed
  <2>3. PICK i \in DOMAIN versions :
          /\ latest = <<versions[i]>>
          /\ \A n \in DOMAIN versions : versions[i].created >= versions[n].created
    BY DEF ListingInv, LatestCollected
  <2>4. ~Touched(e) /\ e \in Entries /\ created[e] \in Nat
    BY DEF Wanted, There, ListingInv, TypeOK
  <2>5. versions[k].created \in Nat /\ versions[i].created \in Nat
    <3>1. versions[k] \in Version /\ versions[i] \in Version
      BY <2>2, <2>3 DEF ListingInv, TypeOK
    <3> QED
      BY <3>1 DEF Version
  <2>6. created[e] <= versions[k].created
    BY <2>2, <2>4, <2>5 DEF ListingInv, DatesFit
  <2> QED
    BY <2>2, <2>3, <2>4, <2>5, <2>6
<1> QED
  BY <1>1, InvHolds, PTL

(* gh-pages is the latest version wherever it is listed, unless the latest *)
(* one bears a date that lay in the future when the listing began.         *)
THEOREM GhPagesCorrect == Spec => []GhPagesIsLatest
<1>1. ListingInv => GhPagesIsLatest
  <2> SUFFICES ASSUME ListingInv, phase = "stored", kind = "branch", GhPages \in Listed
               PROVE  latest[1].created >= Start
    BY DEF GhPagesIsLatest
  <2>1. PICK k \in DOMAIN versions : versions[k].entry = GhPages
    BY DEF Listed
  <2>2. PICK i \in DOMAIN versions :
          /\ latest = <<versions[i]>>
          /\ \A n \in DOMAIN versions : versions[i].created >= versions[n].created
    BY DEF ListingInv, LatestCollected
  <2>3. versions[k] \in Version /\ versions[i] \in Version
    BY <2>1, <2>2 DEF ListingInv, TypeOK
  <2>4. versions[k].created \in Nat /\ versions[i].created \in Nat
    BY <2>3 DEF Version
  <2>5. versions[k].created >= Start
    BY <2>1 DEF ListingInv, DatesFit
  <2> QED
    BY <2>1, <2>2, <2>4, <2>5 DEF Start
<1> QED
  BY <1>1, InvHolds, PTL

-----------------------------------------------------------------------------
(* How far the listing is from its end.                                    *)

(* Pages that are still to be read when the loop is about to read page p,  *)
(* and the steps of the loop that they may take.                           *)
Left(p) == (IF p < LastPage THEN LastPage - p ELSE 0) + 1
Pages(p) == Left(p) * (PageSize + 2) + 1

(* The steps that the listing has left at most, if the list in Gitea stays *)
(* as it is.                                                               *)
Fuel ==
  CASE phase = "paging" -> Pages(page)
    [] phase = "page" -> Len(todo) + 1 + IF more THEN Pages(page + 1) ELSE 1
    [] phase = "listed" -> 1
    [] OTHER -> 0

LEMMA PagesLeft ==
  ASSUME remote \in Seq(Entries), NEW p \in Nat \ {0}
  PROVE  /\ Pages(p) \in Nat /\ Pages(p) >= PageSize + 3
         /\ p < LastPage => Pages(p) = Pages(p + 1) + (PageSize + 2)
<1> DEFINE q == LastPage
<1>1. PageSize \in Nat \ {0} /\ Len(remote) \in Nat
  BY ListingAssumption
<1>2. q \in Nat
  BY <1>1 DEF LastPage
<1>3. /\ Left(p) = (IF p < q THEN q - p ELSE 0) + 1
      /\ Left(p + 1) = (IF p + 1 < q THEN q - (p + 1) ELSE 0) + 1
  BY DEF Left
<1> HIDE DEF q
<1>4. Left(p) \in Nat \ {0} /\ Left(p + 1) \in Nat \ {0}
  BY <1>2, <1>3
<1>5. p < q => Left(p) = Left(p + 1) + 1
  BY <1>2, <1>3
<1>6. ASSUME NEW a \in Nat \ {0}
      PROVE  /\ a * (PageSize + 2) \in Nat
             /\ a * (PageSize + 2) >= PageSize + 2
             /\ (a + 1) * (PageSize + 2) = a * (PageSize + 2) + (PageSize + 2)
  BY <1>1
<1>7. Pages(p) \in Nat /\ Pages(p) >= PageSize + 3
  BY <1>1, <1>4, <1>6 DEF Pages
<1>8. p < q => Pages(p) = Pages(p + 1) + (PageSize + 2)
  BY <1>1, <1>4, <1>5, <1>6 DEF Pages
<1> QED
  BY <1>7, <1>8 DEF q

(* While Gitea's list stays as it is, each step of the loop brings the     *)
(* listing nearer to its end; changes in Gitea can add pages to read, and  *)
(* there are at most MaxChanges of them.  The loop of allGiteaPages so has *)
(* no way to run on over a list of finitely many pages (gitea.go:12-30).   *)
THEOREM ListingNears ==
  Spec => [][List => Fuel \in Nat /\ Fuel' \in Nat /\ Fuel' < Fuel]_vars
<1>1. ASSUME TypeOK, TypeOK', List
      PROVE  Fuel \in Nat /\ Fuel' \in Nat /\ Fuel' < Fuel
  <2>1. /\ remote \in Seq(Entries) /\ page \in Nat \ {0} /\ PageSize \in Nat \ {0}
        /\ todo \in Seq(Version) /\ Len(todo) \in Nat
        /\ Len(todo') \in Nat /\ Len(todo') <= PageSize
        /\ page + 1 \in Nat \ {0}
    BY <1>1, ListingAssumption DEF TypeOK
  <2>2. /\ Pages(page) \in Nat /\ Pages(page) >= PageSize + 3
        /\ page < LastPage => Pages(page) = Pages(page + 1) + (PageSize + 2)
        /\ Pages(page + 1) \in Nat /\ Pages(page + 1) >= PageSize + 3
    BY <2>1, PagesLeft
  <2>3. Pages(page)' = IF page' = page THEN Pages(page) ELSE Pages(page')
    BY <1>1, ListAlone DEF Pages, Left, LastPage, giteaVars
  <2>4. Pages(page + 1)' = IF page' = page THEN Pages(page + 1) ELSE Pages(page' + 1)
    BY <1>1, ListAlone DEF Pages, Left, LastPage, giteaVars
  <2>5. /\ phase = "paging" => Fuel = Pages(page)
        /\ phase = "page" => Fuel = Len(todo) + 1 + IF more THEN Pages(page + 1) ELSE 1
        /\ phase = "listed" => Fuel = 1
    BY DEF Fuel
  <2>6. /\ phase' = "paging" => Fuel' = Pages(page)'
        /\ phase' = "page"
             => Fuel' = Len(todo') + 1 + IF more' THEN Pages(page + 1)' ELSE 1
        /\ phase' = "listed" => Fuel' = 1
        /\ phase' \in Over => Fuel' = 0
    BY DEF Fuel, Over
  <2> HIDE DEF Fuel, Pages, Left
  <2>7. CASE ReadPage
    <3>1. /\ phase = "paging" /\ phase' = "page" /\ page' = page
          /\ more' = (page < LastPage)
      BY <2>7 DEF ReadPage
    <3>2. Fuel' = Len(todo') + 1 + IF more' THEN Pages(page + 1) ELSE 1
      BY <3>1, <2>4, <2>6
    <3>3. Fuel = Pages(page)
      BY <3>1, <2>5
    <3>4. CASE more'
      <4>1. Pages(page) = Pages(page + 1) + (PageSize + 2)
        BY <3>1, <3>4, <2>2
      <4>2. Fuel' = Len(todo') + 1 + Pages(page + 1)
        BY <3>2, <3>4
      <4> QED
        BY <4>1, <4>2, <3>3, <2>1, <2>2
    <3>5. CASE ~more'
      <4>1. Fuel' = Len(todo') + 1 + 1
        BY <3>2, <3>5
      <4> QED
        BY <4>1, <3>3, <2>1, <2>2
    <3> QED
      BY <3>4, <3>5
  <2>8. CASE TurnPage
    <3>1. /\ phase = "page" /\ Len(todo) = 0
          /\ \/ more /\ page' = page + 1 /\ phase' = "paging"
             \/ ~more /\ phase' = "listed"
      BY <2>8 DEF TurnPage
    <3>2. page + 1 # page
      BY <2>1
    <3>3. CASE more /\ page' = page + 1 /\ phase' = "paging"
      <4>1. Fuel' = Pages(page + 1) /\ Fuel = 0 + 1 + Pages(page + 1)
        BY <3>1, <3>2, <3>3, <2>3, <2>5, <2>6
      <4> QED
        BY <4>1, <2>2
    <3>4. CASE ~more /\ phase' = "listed"
      BY <3>1, <3>4, <2>5, <2>6
    <3> QED
      BY <3>1, <3>3, <3>4
  <2>9. CASE SkipEntry \/ AddWithFile \/ AddBranch
    <3>1. /\ phase = "page" /\ phase' = "page" /\ page' = page /\ more' = more
          /\ Len(todo') = Len(todo) - 1
      BY <2>9, <1>1, EntryDone, EntryInHand DEF AtEntry
    <3>2. Fuel' = Len(todo') + 1 + IF more THEN Pages(page + 1) ELSE 1
      BY <3>1, <2>4, <2>6
    <3> QED
      BY <3>1, <3>2, <2>1, <2>2, <2>5
  <2>10. CASE GiteaFails \/ EntryGone \/ FindNothing \/ StoreSorted
    <3>1. phase \in {"paging", "page", "listed"} /\ phase' \in Over
      BY <2>10 DEF GiteaFails, EntryGone, FindNothing, StoreSorted, AtEntry, Over
    <3>2. Fuel' = 0
      BY <3>1, <2>6
    <3>3. Fuel \in Nat \ {0}
      <4>1. CASE phase = "paging"
        BY <4>1, <2>1, <2>2, <2>5
      <4>2. CASE phase = "page" /\ more
        BY <4>2, <2>1, <2>2, <2>5
      <4>3. CASE phase = "page" /\ ~more
        BY <4>3, <2>1, <2>5
      <4>4. CASE phase = "listed"
        BY <4>4, <2>5
      <4> QED
        BY <4>1, <4>2, <4>3, <4>4, <3>1
    <3> QED
      BY <3>2, <3>3
  <2> QED
    BY <1>1, <2>7, <2>8, <2>9, <2>10 DEF List
<1>2. TypeOK /\ TypeOK' /\ [Next]_vars
        => [List => Fuel \in Nat /\ Fuel' \in Nat /\ Fuel' < Fuel]_vars
  BY <1>1
<1> QED
  BY <1>2, TypeCorrect, PTL DEF Spec

=============================================================================
