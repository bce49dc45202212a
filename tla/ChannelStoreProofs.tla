------------------------- MODULE ChannelStoreProofs -------------------------
(***************************************************************************)
(* The vectors keep what Membership promises: lists without duplicates and *)
(* channels with members, also between two iterations of the loop that     *)
(* erases while it scans.                                                  *)
(***************************************************************************)
EXTENDS ChannelStore, VectorLemmas
-----------------------------------------------------------------------------
(* Lookups.                                                                *)

\* The lookup that scans to the end stops at a channel with the name, if there is one.
LEMMA LookupProperties ==
    ASSUME NEW cs, Len(cs) \in Nat, NEW ch
    PROVE  \/ Lookup(cs, ch) = 0 /\ \A p \in 1 .. Len(cs) : cs[p].name # ch
           \/ Lookup(cs, ch) \in 1 .. Len(cs) /\ cs[Lookup(cs, ch)].name = ch
<1> DEFINE I == {p \in 1 .. Len(cs) : cs[p].name = ch}
<1>1. Lookup(cs, ch) = IF I # {} THEN Max(I) ELSE 0
  BY DEF Lookup, SelectLastInSeq
<1>2. I # {} => \E x \in I : \A y \in I : x >= y
  <2>1. I \subseteq 0 .. Len(cs)
    OBVIOUS
  <2>2. QED
    BY <2>1, HasMax
<1>3. I # {} => Max(I) \in I
  BY <1>2 DEF Max
<1>4. QED
  BY <1>1, <1>3

\* So does the one that stops at the first.
LEMMA FirstLookupProperties ==
    ASSUME NEW cs, Len(cs) \in Nat, NEW ch
    PROVE  \/ FirstLookup(cs, ch) = 0 /\ \A p \in 1 .. Len(cs) : cs[p].name # ch
           \/ FirstLookup(cs, ch) \in 1 .. Len(cs) /\ cs[FirstLookup(cs, ch)].name = ch
<1> DEFINE I == {p \in 1 .. Len(cs) : cs[p].name = ch}
<1>1. FirstLookup(cs, ch) = IF I # {} THEN Min(I) ELSE 0
  BY DEF FirstLookup, SelectInSeq
<1>2. I # {} => \E x \in I : \A y \in I : x <= y
  <2>1. I \subseteq Nat
    OBVIOUS
  <2>2. QED
    BY <2>1, HasMin
<1>3. I # {} => Min(I) \in I
  BY <1>2 DEF Min
<1>4. QED
  BY <1>1, <1>3
-----------------------------------------------------------------------------
(* Vectors.                                                                *)

LEMMA AddProperties ==
    ASSUME NEW S, NEW s \in Seq(S), NEW f \in S
    PROVE  /\ Add(s, f) \in Seq(S)
           /\ ToSet(Add(s, f)) = ToSet(s) \cup {f}
           /\ IsInjective(s) => IsInjective(Add(s, f))
<1>1. CASE Contains(s, f)
  <2>1. f \in ToSet(s)
    BY <1>1 DEF Contains, ToSet
  <2>2. QED
    BY <1>1, <2>1 DEF Add
<1>2. CASE ~Contains(s, f)
  <2>1. f \notin ToSet(s)
    BY <1>2 DEF Contains, ToSet
  <2>2. Add(s, f) = Append(s, f)
    BY <1>2 DEF Add
  <2>3. /\ Append(s, f) \in Seq(S)
        /\ DOMAIN Append(s, f) = DOMAIN s \cup {Len(s) + 1}
        /\ Len(s) + 1 \notin DOMAIN s
        /\ \A q \in DOMAIN s : Append(s, f)[q] = s[q]
        /\ Append(s, f)[Len(s) + 1] = f
    BY AppendPositions
  <2>4. ToSet(Append(s, f)) = ToSet(s) \cup {f}
    BY <2>3 DEF ToSet
  <2>5. IsInjective(s) => IsInjective(Append(s, f))
    BY <2>1, <2>3 DEF IsInjective, ToSet
  <2>6. QED
    BY <2>2, <2>3, <2>4, <2>5
<1>3. QED
  BY <1>1, <1>2

\* The first match is erased; without duplicates there is no other.
LEMMA RemoveFdProperties ==
    ASSUME NEW S, NEW s \in Seq(S), NEW f
    PROVE  /\ RemoveFd(s, f) \in Seq(S)
           /\ IsInjective(s) => /\ IsInjective(RemoveFd(s, f))
                                /\ ToSet(RemoveFd(s, f)) = ToSet(s) \ {f}
<1>1. CASE \A i \in DOMAIN s : s[i] # f
  <2>1. RemoveFd(s, f) = s /\ f \notin ToSet(s)
    BY <1>1 DEF RemoveFd, RemoveFirst, ToSet
  <2>2. QED
    BY <2>1
<1>2. CASE \E i \in DOMAIN s : s[i] = f
  <2>1. PICK p \in 1 .. Len(s) : s[p] = f /\ RemoveFd(s, f) = RemoveAt(s, p)
    <3>1. FirstAt(s, f) \in 1 .. Len(s) /\ s[FirstAt(s, f)] = f
      BY <1>2, FirstAtProperties
    <3>2. RemoveFd(s, f) = RemoveAt(s, FirstAt(s, f))
      BY <1>2 DEF RemoveFd, RemoveFirst, FirstAt, SelectInSeq
    <3>3. QED
      BY <3>1, <3>2
  <2>2. RemoveAt(s, p) \in Seq(S)
    BY RemoveAtProperties
  <2>3. ASSUME IsInjective(s)
        PROVE  IsInjective(RemoveAt(s, p)) /\ ToSet(RemoveAt(s, p)) = ToSet(s) \ {f}
    <3>1. \A q \in DOMAIN s \ {p} : s[q] # f
      BY <2>1, <2>3 DEF IsInjective
    <3>2. QED
      BY <2>1, <2>3, <3>1, RemoveAtPositions DEF IsInjective, ToSet
  <2>4. QED
    BY <2>1, <2>2, <2>3
<1>3. QED
  BY <1>1, <1>2
-----------------------------------------------------------------------------
(* Channels.                                                               *)

\* What StoreInv says of one channel of the vector.
Good(chan) ==
    /\ chan \in Entry
    /\ ~isEmpty(chan)
    /\ IsInjective(chan.memberFds)
    /\ IsInjective(chan.operatorFds)
    /\ IsInjective(chan.invitedFds)
    /\ ToSet(chan.operatorFds) \subseteq ToSet(chan.memberFds)

LEMMA EmptyList ==
    ASSUME NEW S, NEW s \in Seq(S)
    PROVE  s = <<>> <=> ToSet(s) = {}
<1>1. s = <<>> <=> Len(s) = 0
  BY EmptySeq
<1>2. DOMAIN s = 1 .. Len(s) /\ Len(s) \in Nat
  OBVIOUS
<1>3. DOMAIN s = {} <=> Len(s) = 0
  <2>1. Len(s) # 0 => 1 \in DOMAIN s
    BY <1>2
  <2>2. QED
    BY <1>2, <2>1
<1>4. ToSet(s) = {} <=> DOMAIN s = {}
  BY DEF ToSet
<1>5. QED
  BY <1>1, <1>3, <1>4

\* What is taken from a channel when f leaves it, and with the invitation of f.
Left(chan, f) ==
    [removeMember(chan, f) EXCEPT !.invitedFds = RemoveFd(@, f),
                                  !.operatorFds = RemoveFd(@, f)]

LEMMA RemoveMemberProperties ==
    ASSUME NEW chan, Good(chan), NEW f, NEW rest, rest = removeMember(chan, f)
    PROVE  /\ rest \in Entry /\ rest.name = chan.name
           /\ ToSet(rest.memberFds) = ToSet(chan.memberFds) \ {f}
           /\ ToSet(rest.operatorFds) = ToSet(chan.operatorFds) \ {f}
           /\ rest.invitedFds = chan.invitedFds
           /\ isEmpty(rest) <=> ToSet(chan.memberFds) \subseteq {f}
           /\ ~isEmpty(rest) => Good(rest)
<1>1. /\ chan \in [name : Names, memberFds : Seq(Fds), operatorFds : Seq(Fds),
                   invitedFds : Seq(Fds)]
      /\ IsInjective(chan.memberFds) /\ IsInjective(chan.operatorFds)
      /\ IsInjective(chan.invitedFds)
      /\ ToSet(chan.operatorFds) \subseteq ToSet(chan.memberFds)
  BY DEF Good, Entry
<1> DEFINE ms == RemoveFd(chan.memberFds, f)
           os == RemoveFd(chan.operatorFds, f)
<1>2. /\ ms \in Seq(Fds) /\ IsInjective(ms) /\ ToSet(ms) = ToSet(chan.memberFds) \ {f}
      /\ os \in Seq(Fds) /\ IsInjective(os) /\ ToSet(os) = ToSet(chan.operatorFds) \ {f}
  BY <1>1, RemoveFdProperties
<1>3. rest = [chan EXCEPT !.memberFds = ms, !.operatorFds = os]
  BY DEF removeMember
<1> HIDE DEF ms, os
<1>4. /\ rest \in Entry
      /\ rest.name = chan.name /\ rest.memberFds = ms /\ rest.operatorFds = os
      /\ rest.invitedFds = chan.invitedFds
  BY <1>1, <1>2, <1>3 DEF Entry
<1>5. isEmpty(rest) <=> ToSet(chan.memberFds) \subseteq {f}
  <2>1. ms = <<>> <=> ToSet(ms) = {}
    BY <1>2, EmptyList
  <2>2. QED
    BY <1>2, <1>4, <2>1 DEF isEmpty
<1>6. QED
  BY <1>1, <1>2, <1>4, <1>5 DEF Good

LEMMA LeftProperties ==
    ASSUME NEW chan, Good(chan), NEW f, NEW rest, rest = Left(chan, f)
    PROVE  /\ rest \in Entry /\ rest.name = chan.name
           /\ ToSet(rest.memberFds) = ToSet(chan.memberFds) \ {f}
           /\ ToSet(rest.operatorFds) = ToSet(chan.operatorFds) \ {f}
           /\ ToSet(rest.invitedFds) = ToSet(chan.invitedFds) \ {f}
           /\ isEmpty(rest) <=> ToSet(chan.memberFds) \subseteq {f}
           /\ ~isEmpty(rest) => Good(rest)
<1> DEFINE mid == removeMember(chan, f)
<1>1. /\ mid \in Entry /\ mid.name = chan.name
      /\ ToSet(mid.memberFds) = ToSet(chan.memberFds) \ {f}
      /\ ToSet(mid.operatorFds) = ToSet(chan.operatorFds) \ {f}
      /\ mid.invitedFds = chan.invitedFds
      /\ isEmpty(mid) <=> ToSet(chan.memberFds) \subseteq {f}
      /\ ~isEmpty(mid) => Good(mid)
  BY RemoveMemberProperties
<1>2. IsInjective(mid.operatorFds)
  <2>1. IsInjective(chan.operatorFds) /\ chan \in Entry /\ chan.operatorFds \in Seq(Fds)
    BY DEF Good, Entry
  <2>2. mid.operatorFds = RemoveFd(chan.operatorFds, f)
    BY <2>1 DEF removeMember, Entry
  <2>3. QED
    BY <2>1, <2>2, RemoveFdProperties
<1>3. rest = [mid EXCEPT !.invitedFds = RemoveFd(@, f), !.operatorFds = RemoveFd(@, f)]
  BY DEF Left
<1> HIDE DEF mid
<1> DEFINE is == RemoveFd(mid.invitedFds, f)
           os == RemoveFd(mid.operatorFds, f)
<1>4. /\ is \in Seq(Fds) /\ IsInjective(is) /\ ToSet(is) = ToSet(chan.invitedFds) \ {f}
      /\ os \in Seq(Fds) /\ IsInjective(os) /\ ToSet(os) = ToSet(chan.operatorFds) \ {f}
  <2>1. mid.invitedFds \in Seq(Fds) /\ mid.operatorFds \in Seq(Fds)
    BY <1>1 DEF Entry
  <2>2. IsInjective(mid.invitedFds)
    BY <1>1 DEF Good
  <2>3. /\ is \in Seq(Fds) /\ IsInjective(is) /\ ToSet(is) = ToSet(chan.invitedFds) \ {f}
    BY <1>1, <2>1, <2>2, RemoveFdProperties
  <2>4. /\ os \in Seq(Fds) /\ IsInjective(os) /\ ToSet(os) = ToSet(mid.operatorFds) \ {f}
    BY <1>2, <2>1, RemoveFdProperties
  <2>5. QED
    BY <1>1, <2>3, <2>4
<1>5. rest = [mid EXCEPT !.invitedFds = is, !.operatorFds = os]
  BY <1>3
<1> HIDE DEF is, os
<1>6. /\ rest \in Entry
      /\ rest.name = mid.name /\ rest.memberFds = mid.memberFds
      /\ rest.operatorFds = os /\ rest.invitedFds = is
  BY <1>1, <1>4, <1>5 DEF Entry
<1>7. QED
  BY <1>1, <1>4, <1>6 DEF Good, isEmpty
-----------------------------------------------------------------------------
(* Vectors of channels.                                                    *)

Distinct(cs) == \A p, q \in DOMAIN cs : cs[p].name = cs[q].name => p = q

\* What StoreInv says of the vector.
Sound(cs) ==
    /\ cs \in Seq(Entry)
    /\ Distinct(cs)
    /\ \A p \in DOMAIN cs : Good(cs[p])

\* The vector ds holds the channels E with the name ch where cs may hold others, and is
\* otherwise like it.
Swapped(cs, ds, ch, E) ==
    /\ Sound(ds)
    /\ Entries(ds, ch) = E
    /\ \A c \in Names \ {ch} : Entries(ds, c) = Entries(cs, c)

LEMMA OneEntry ==
    ASSUME NEW cs, Sound(cs), NEW p \in DOMAIN cs
    PROVE  Entries(cs, cs[p].name) = {cs[p]}
BY DEF Sound, Distinct, Entries, ToSet

\* A channel of the vector is changed in place.
LEMMA ReplaceEntries ==
    ASSUME NEW cs, Sound(cs), NEW p \in DOMAIN cs,
           NEW e, Good(e), e.name = cs[p].name,
           NEW ds, ds = [cs EXCEPT ![p] = e]
    PROVE  Swapped(cs, ds, e.name, {e})
<1>1. /\ cs \in Seq(Entry) /\ e \in Entry
  BY DEF Sound, Good
<1>2. /\ ds \in Seq(Entry) /\ DOMAIN ds = DOMAIN cs
      /\ ds[p] = e /\ \A q \in DOMAIN cs \ {p} : ds[q] = cs[q]
  <2>1. DOMAIN cs = 1 .. Len(cs)
    BY <1>1
  <2>2. ds \in Seq(Entry)
    BY <1>1, <2>1, ExceptSeq
  <2>3. QED
    BY <1>1, <2>2
<1>3. \A q \in DOMAIN cs : ds[q].name = cs[q].name
  BY <1>2
<1>4. Distinct(ds)
  BY <1>2, <1>3 DEF Distinct, Sound
<1>5. Sound(ds)
  BY <1>2, <1>4 DEF Sound
<1>6. Entries(ds, e.name) = {e}
  BY <1>2, <1>5, OneEntry
<1>7. ASSUME NEW c \in Names \ {e.name}
      PROVE  Entries(ds, c) = Entries(cs, c)
  BY <1>2 DEF Entries, ToSet
<1>8. QED
  BY <1>5, <1>6, <1>7 DEF Swapped

\* A channel is erased.
LEMMA EraseEntries ==
    ASSUME NEW cs, Sound(cs), NEW p \in DOMAIN cs
    PROVE  Swapped(cs, RemoveAt(cs, p), cs[p].name, {})
<1> DEFINE ds == RemoveAt(cs, p)
<1>1. cs \in Seq(Entry) /\ p \in 1 .. Len(cs)
  BY DEF Sound
<1>2. /\ ds \in Seq(Entry)
      /\ \A q \in DOMAIN ds : Before(p, q) \in DOMAIN cs \ {p} /\ ds[q] = cs[Before(p, q)]
      /\ \A q \in DOMAIN cs \ {p} : \E r \in DOMAIN ds : Before(p, r) = q
      /\ \A q, r \in DOMAIN ds : Before(p, q) = Before(p, r) => q = r
  BY <1>1, RemoveAtProperties, RemoveAtPositions
<1> HIDE DEF ds
<1>3. Distinct(ds)
  BY <1>2 DEF Distinct, Sound
<1>4. Sound(ds)
  BY <1>2, <1>3 DEF Sound
<1>5. Entries(ds, cs[p].name) = {}
  BY <1>2 DEF Entries, ToSet, Sound, Distinct
<1>6. ASSUME NEW c \in Names \ {cs[p].name}
      PROVE  Entries(ds, c) = Entries(cs, c)
  <2>1. Entries(ds, c) \subseteq Entries(cs, c)
    BY <1>2 DEF Entries, ToSet
  <2>2. ASSUME NEW q \in DOMAIN cs, cs[q].name = c
        PROVE  cs[q] \in Entries(ds, c)
    <3>1. PICK r \in DOMAIN ds : Before(p, r) = q
      BY <1>2, <2>2
    <3>2. ds[r] = cs[q]
      BY <1>2, <3>1
    <3>3. QED
      BY <2>2, <3>2 DEF Entries, ToSet
  <2>3. QED
    BY <2>1, <2>2 DEF Entries, ToSet
<1>7. QED
  BY <1>4, <1>5, <1>6 DEF Swapped, ds

\* A channel that no other has the name of is appended.
LEMMA AppendEntries ==
    ASSUME NEW cs, Sound(cs), NEW e, Good(e), \A p \in DOMAIN cs : cs[p].name # e.name
    PROVE  Swapped(cs, Append(cs, e), e.name, {e})
<1> DEFINE ds == Append(cs, e)
           last == Len(cs) + 1
<1>1. cs \in Seq(Entry) /\ e \in Entry
  BY DEF Sound, Good
<1>2. /\ ds \in Seq(Entry) /\ DOMAIN ds = DOMAIN cs \cup {last} /\ last \notin DOMAIN cs
      /\ ds[last] = e /\ \A q \in DOMAIN cs : ds[q] = cs[q]
  BY <1>1, AppendPositions
<1> HIDE DEF ds, last
<1>3. Distinct(ds)
  BY <1>2 DEF Distinct, Sound
<1>4. Sound(ds)
  BY <1>2, <1>3 DEF Sound
<1>5. Entries(ds, e.name) = {e}
  BY <1>2, <1>4, OneEntry
<1>6. ASSUME NEW c \in Names \ {e.name}
      PROVE  Entries(ds, c) = Entries(cs, c)
  BY <1>2 DEF Entries, ToSet
<1>7. QED
  BY <1>4, <1>5, <1>6 DEF Swapped, ds

\* A name has one channel or none.
LEMMA EntriesCases ==
    ASSUME NEW cs, Sound(cs), NEW ch
    PROVE  \/ Entries(cs, ch) = {}
           \/ \E chan : Good(chan) /\ chan.name = ch /\ Entries(cs, ch) = {chan}
<1>1. CASE \E p \in DOMAIN cs : cs[p].name = ch
  <2>1. PICK p \in DOMAIN cs : cs[p].name = ch
    BY <1>1
  <2>2. Entries(cs, ch) = {cs[p]} /\ Good(cs[p])
    BY <2>1, OneEntry DEF Sound
  <2>3. QED
    BY <2>1, <2>2
<1>2. CASE ~ \E p \in DOMAIN cs : cs[p].name = ch
  BY <1>2 DEF Entries, ToSet
<1>3. QED
  BY <1>1, <1>2
-----------------------------------------------------------------------------
(* What the clients see of them.                                           *)

LEMMA ViewOfOne ==
    ASSUME NEW cs, NEW ch, NEW chan, Entries(cs, ch) = {chan}, NEW gone
    PROVE  /\ MembersIn(cs, gone, ch) = Kept(chan, chan.memberFds, gone)
           /\ OperatorsIn(cs, gone, ch) = Kept(chan, chan.operatorFds, gone)
           /\ InvitedIn(cs, gone, ch) = Kept(chan, chan.invitedFds, gone)
BY DEF MembersIn, OperatorsIn, InvitedIn

LEMMA ViewOfNone ==
    ASSUME NEW cs, NEW ch, Entries(cs, ch) = {}, NEW gone
    PROVE  /\ MembersIn(cs, gone, ch) = {}
           /\ OperatorsIn(cs, gone, ch) = {}
           /\ InvitedIn(cs, gone, ch) = {}
BY DEF MembersIn, OperatorsIn, InvitedIn

\* With nobody leaving the lists are as they are in the vector.
LEMMA KeptAll ==
    ASSUME NEW chan, Good(chan), NEW list
    PROVE  Kept(chan, list, {}) = ToSet(list)
<1>1. ToSet(chan.memberFds) # {}
  <2>1. chan.memberFds \in Seq(Fds) /\ chan.memberFds # <<>>
    BY DEF Good, Entry, isEmpty
  <2>2. QED
    BY <2>1, EmptyList
<1>2. QED
  BY <1>1 DEF Kept
-----------------------------------------------------------------------------
(* The handlers.                                                           *)

LEMMA SoundStore == StoreInv => Sound(channels)
<1> SUFFICES ASSUME StoreInv PROVE Sound(channels)
  OBVIOUS
<1>1. channels \in Seq(Entry) /\ \A p \in DOMAIN channels : channels[p] \in Entry
  BY DEF StoreInv, TypeOK
<1>2. Distinct(channels)
  BY DEF StoreInv, NoDuplicates, IsInjective, Distinct
<1>3. \A p \in DOMAIN channels : Good(channels[p])
  BY <1>1 DEF StoreInv, NoDuplicates, NoEmptyEntry, OperatorsInside, Good
<1>4. QED
  BY <1>1, <1>2, <1>3 DEF Sound

\* And back, but for the loop.
LEMMA StoreSound ==
    ASSUME NEW cs, Sound(cs)
    PROVE  /\ cs \in Seq(Entry)
           /\ IsInjective([p \in DOMAIN cs |-> cs[p].name])
           /\ \A p \in DOMAIN cs :
                /\ IsInjective(cs[p].memberFds)
                /\ IsInjective(cs[p].operatorFds)
                /\ IsInjective(cs[p].invitedFds)
                /\ ~isEmpty(cs[p])
                /\ ToSet(cs[p].operatorFds) \subseteq ToSet(cs[p].memberFds)
BY DEF Sound, Distinct, Good, IsInjective

\* What a lookup leads to when no loop runs.
LEMMA LooksUp ==
    ASSUME StoreInv, leaving = {}, NEW ch \in Names,
           NEW p \in DOMAIN channels, channels[p].name = ch
    PROVE  /\ Good(channels[p])
           /\ memberLists[ch] = ToSet(channels[p].memberFds)
           /\ operatorLists[ch] = ToSet(channels[p].operatorFds)
           /\ inviteLists[ch] = ToSet(channels[p].invitedFds)
<1>1. Sound(channels) /\ Good(channels[p])
  BY SoundStore DEF Sound
<1>2. Entries(channels, ch) = {channels[p]}
  BY <1>1, OneEntry
<1>3. /\ MembersIn(channels, {}, ch) = Kept(channels[p], channels[p].memberFds, {})
      /\ OperatorsIn(channels, {}, ch) = Kept(channels[p], channels[p].operatorFds, {})
      /\ InvitedIn(channels, {}, ch) = Kept(channels[p], channels[p].invitedFds, {})
  BY <1>2, ViewOfOne
<1>4. QED
  BY <1>1, <1>3, KeptAll DEF memberLists, operatorLists, inviteLists

LEMMA LooksUpNothing ==
    ASSUME NEW ch \in Names, \A p \in DOMAIN channels : channels[p].name # ch
    PROVE  /\ memberLists[ch] = {}
           /\ operatorLists[ch] = {}
           /\ inviteLists[ch] = {}
<1>1. Entries(channels, ch) = {}
  BY DEF Entries, ToSet
<1>2. QED
  BY <1>1, ViewOfNone DEF memberLists, operatorLists, inviteLists

\* Both lookups, when an operator asks.
LEMMA Asked ==
    ASSUME StoreInv, leaving = {}, NEW ch \in Names, NEW f, NEW p, Commands(f, p),
           p = Lookup(channels, ch) \/ p = FirstLookup(channels, ch)
    PROVE  /\ p \in DOMAIN channels /\ channels[p].name = ch
           /\ f \in operatorLists[ch]
<1>1. Len(channels) \in Nat /\ DOMAIN channels = 1 .. Len(channels)
  BY DEF StoreInv, TypeOK
<1>2. p \in DOMAIN channels /\ channels[p].name = ch
  BY <1>1, LookupProperties, FirstLookupProperties DEF Commands
<1>3. f \in ToSet(channels[p].operatorFds)
  BY DEF Commands, Contains, ToSet
<1>4. QED
  BY <1>2, <1>3, LooksUp

\* ch is now the channel e, and nothing else changed.
BecomesOf(ch, e) ==
    /\ Good(e) /\ e.name = ch
    /\ Swapped(channels, channels', ch, {e})

\* JOIN: the first to enter founds the channel and leads it.
LEMMA JoinBecomes ==
    ASSUME StoreInv, leaving = {}, NEW f \in Fds, NEW ch \in Names, joinHandler(f, ch)
    PROVE  /\ f \in conns \ memberLists[ch]
           /\ \E e :
                /\ BecomesOf(ch, e)
                /\ ToSet(e.memberFds) = memberLists[ch] \cup {f}
                /\ ToSet(e.operatorFds) = IF memberLists[ch] = {} THEN {f}
                                          ELSE operatorLists[ch]
                /\ ToSet(e.invitedFds) = inviteLists[ch]
<1> DEFINE cs == Found(ch)
           p == Lookup(cs, ch)
           chan == [cs[p] EXCEPT !.memberFds = Add(@, f)]
           e == IF isEmpty(cs[p]) THEN [chan EXCEPT !.operatorFds = Add(@, f)] ELSE chan
<1>1. /\ f \in conns /\ ~Contains(cs[p].memberFds, f)
      /\ channels' = [cs EXCEPT ![p] = e]
  BY DEF joinHandler
<1>2. Sound(channels) /\ channels \in Seq(Entry)
  BY SoundStore DEF Sound
<1>3. Len(channels) \in Nat /\ DOMAIN channels = 1 .. Len(channels)
  BY <1>2
<1>4. CASE Lookup(channels, ch) # 0
  <2>1. cs = channels
    BY <1>4 DEF Found
  <2>2. p \in DOMAIN channels /\ channels[p].name = ch
    BY <1>3, <1>4, <2>1, LookupProperties
  <2>3. /\ Good(channels[p])
        /\ memberLists[ch] = ToSet(channels[p].memberFds)
        /\ operatorLists[ch] = ToSet(channels[p].operatorFds)
        /\ inviteLists[ch] = ToSet(channels[p].invitedFds)
    BY <2>2, LooksUp
  <2>4. e = [channels[p] EXCEPT !.memberFds = Add(channels[p].memberFds, f)]
    BY <2>1, <2>3 DEF Good
  <2> HIDE DEF e, p
  <2>5. /\ channels[p].memberFds \in Seq(Fds) /\ channels[p].operatorFds \in Seq(Fds)
        /\ channels[p].invitedFds \in Seq(Fds) /\ IsInjective(channels[p].memberFds)
    BY <2>3 DEF Good, Entry
  <2> DEFINE ms == Add(channels[p].memberFds, f)
  <2>6. ms \in Seq(Fds) /\ IsInjective(ms) /\ ToSet(ms) = memberLists[ch] \cup {f}
    BY <2>3, <2>5, AddProperties
  <2>7. ms # <<>>
    BY <2>6, EmptyList
  <2> HIDE DEF ms
  <2>8. /\ e \in Entry /\ e.name = ch /\ e.memberFds = ms
        /\ e.operatorFds = channels[p].operatorFds
        /\ e.invitedFds = channels[p].invitedFds
    BY <2>2, <2>3, <2>4, <2>6 DEF ms, Good, Entry
  <2>9. Good(e)
    BY <2>3, <2>6, <2>7, <2>8 DEF Good, isEmpty
  <2>10. Swapped(channels, channels', ch, {e})
    BY <1>1, <1>2, <2>1, <2>2, <2>8, <2>9, ReplaceEntries
  <2>11. f \notin memberLists[ch]
    BY <1>1, <2>1, <2>3 DEF p, Contains, ToSet
  <2>12. memberLists[ch] # {}
    BY <2>3, <2>5, EmptyList DEF Good, isEmpty
  <2>13. QED
    BY <1>1, <2>3, <2>6, <2>8, <2>9, <2>10, <2>11, <2>12 DEF BecomesOf
<1>5. CASE Lookup(channels, ch) = 0
  <2>1. \A q \in DOMAIN channels : channels[q].name # ch
    BY <1>3, <1>5, LookupProperties
  <2>2. cs = Append(channels, Channel(ch))
    BY <1>5 DEF Found
  <2>3. Channel(ch) \in Entry
    BY DEF Channel, Entry
  <2>4. /\ cs \in Seq(Entry) /\ DOMAIN cs = DOMAIN channels \cup {Len(channels) + 1}
        /\ Len(channels) + 1 \notin DOMAIN channels
        /\ \A q \in DOMAIN channels : cs[q] = channels[q]
        /\ cs[Len(channels) + 1] = Channel(ch)
    BY <1>2, <2>2, <2>3, AppendPositions
  <2>5. p = Len(channels) + 1
    <3>1. Len(cs) \in Nat /\ DOMAIN cs = 1 .. Len(cs)
      BY <2>4
    <3>2. p \in DOMAIN cs /\ cs[p].name = ch
      <4>1. Len(channels) + 1 \in 1 .. Len(cs) /\ cs[Len(channels) + 1].name = ch
        BY <2>4, <3>1 DEF Channel
      <4>2. QED
        BY <3>1, <4>1, LookupProperties
    <3>3. QED
      BY <2>1, <2>4, <3>2
  <2>6. cs[p] = Channel(ch)
    BY <2>4, <2>5
  <2> HIDE DEF cs, p
  <2> DEFINE one == Add(<<>>, f)
  <2>7. one \in Seq(Fds) /\ IsInjective(one) /\ ToSet(one) = {f} /\ one # <<>>
    <3> DEFINE nil == <<>>
    <3>1. nil \in Seq(Fds) /\ ToSet(nil) = {} /\ IsInjective(nil)
      BY DEF ToSet, IsInjective
    <3> HIDE DEF nil
    <3>2. Add(nil, f) \in Seq(Fds) /\ IsInjective(Add(nil, f)) /\ ToSet(Add(nil, f)) = {f}
      BY <3>1, AddProperties
    <3>3. QED
      BY <3>2, EmptyList DEF nil
  <2>8. e = [name |-> ch, memberFds |-> one, operatorFds |-> one, invitedFds |-> <<>>]
    <3>1. isEmpty(cs[p])
      BY <2>6 DEF Channel, isEmpty
    <3>2. chan = [name |-> ch, memberFds |-> one, operatorFds |-> <<>>, invitedFds |-> <<>>]
      BY <2>6 DEF Channel
    <3>3. e = [chan EXCEPT !.operatorFds = Add(@, f)]
      BY <3>1
    <3> HIDE DEF chan, e
    <3>4. e = [name |-> ch, memberFds |-> one, operatorFds |-> Add(<<>>, f),
               invitedFds |-> <<>>]
      BY <3>2, <3>3
    <3>5. QED
      BY <3>4
  <2> HIDE DEF one, e
  <2>9. Good(e) /\ e.name = ch
    BY <2>7, <2>8 DEF Good, Entry, isEmpty, IsInjective
  <2>10. channels' = Append(channels, e)
    <3>1. cs \in Seq(Entry) /\ DOMAIN cs = DOMAIN channels \cup {p} /\ p = Len(channels) + 1
      BY <2>4, <2>5
    <3>2. /\ Append(channels, e) \in Seq(Entry)
          /\ DOMAIN Append(channels, e) = DOMAIN channels \cup {p}
          /\ \A q \in DOMAIN channels : Append(channels, e)[q] = channels[q]
          /\ Append(channels, e)[p] = e
      BY <1>2, <2>5, <2>9, AppendPositions DEF Good
    <3>3. \A q \in DOMAIN channels : cs[q] = channels[q]
      BY <2>4
    <3> DEFINE ds == [cs EXCEPT ![p] = e]
    <3>4. /\ ds \in Seq(Entry) /\ DOMAIN ds = DOMAIN cs
          /\ ds[p] = e /\ \A q \in DOMAIN channels : ds[q] = channels[q]
      <4>1. DOMAIN cs = 1 .. Len(cs) /\ e \in Entry
        BY <2>9, <3>1 DEF Good
      <4>2. ds \in Seq(Entry)
        BY <3>1, <4>1, ExceptSeq
      <4>3. QED
        BY <2>4, <2>5, <3>1, <3>3, <4>2
    <3> HIDE DEF ds
    <3>5. ds = Append(channels, e)
      <4>1. Len(ds) = Len(Append(channels, e))
        BY <3>1, <3>2, <3>4, <1>2
      <4>2. \A q \in 1 .. Len(ds) : ds[q] = Append(channels, e)[q]
        BY <3>1, <3>2, <3>4
      <4>3. QED
        BY <3>2, <3>4, <4>1, <4>2, SeqEqual
    <3>6. QED
      BY <1>1, <3>5 DEF ds
  <2>11. Swapped(channels, channels', ch, {e})
    BY <1>2, <2>1, <2>9, <2>10, AppendEntries
  <2>12. memberLists[ch] = {} /\ inviteLists[ch] = {}
    BY <2>1, LooksUpNothing
  <2>13. ToSet(e.invitedFds) = {}
    BY <2>8 DEF ToSet
  <2>14. QED
    BY <1>1, <2>7, <2>8, <2>9, <2>11, <2>12, <2>13 DEF BecomesOf
<1>6. QED
  BY <1>4, <1>5

\* Only one is in a list without duplicates that has one position.
LEMMA OnePosition ==
    ASSUME NEW S, NEW s \in Seq(S), IsInjective(s), NEW t, ToSet(s) = {t}
    PROVE  Len(s) = 1
<1>1. DOMAIN s = 1 .. Len(s) /\ Len(s) \in Nat /\ \A i \in DOMAIN s : s[i] = t
  BY DEF ToSet
<1>2. Len(s) # 0
  BY <1>1 DEF ToSet
<1>3. ~(Len(s) > 1)
  <2>1. Len(s) > 1 => 1 \in DOMAIN s /\ 2 \in DOMAIN s
    BY <1>1
  <2>2. QED
    BY <1>1, <2>1 DEF IsInjective
<1>4. QED
  BY <1>1, <1>2, <1>3

LEMMA Alone ==
    ASSUME NEW S, NEW s \in Seq(S), IsInjective(s), NEW t \in ToSet(s)
    PROVE  Len(s) > 1 <=> ToSet(s) # {t}
<1>1. DOMAIN s = 1 .. Len(s) /\ Len(s) \in Nat
  OBVIOUS
<1>2. ASSUME ToSet(s) # {t} PROVE Len(s) > 1
  <2>1. PICK i, j \in DOMAIN s : s[i] = t /\ s[j] # t
    BY <1>2 DEF ToSet
  <2>2. QED
    BY <1>1, <2>1
<1>3. ToSet(s) = {t} => Len(s) = 1
  BY OnePosition
<1>4. QED
  BY <1>1, <1>2, <1>3

\* KICK: the channel without the expelled one, or no channel.
LEMMA KickBecomes ==
    ASSUME StoreInv, leaving = {}, NEW f \in Fds, NEW ch \in Names, NEW t \in Fds,
           kickHandler(f, ch, t)
    PROVE  /\ f \in operatorLists[ch] /\ t \in memberLists[ch]
           /\ operatorLists[ch] = {t} => memberLists[ch] = {t}
           /\ operatorLists[ch] \subseteq memberLists[ch]
           /\ \/ /\ memberLists[ch] = {t}
                 /\ Swapped(channels, channels', ch, {})
              \/ /\ memberLists[ch] # {t}
                 /\ \E e :
                      /\ BecomesOf(ch, e)
                      /\ ToSet(e.memberFds) = memberLists[ch] \ {t}
                      /\ ToSet(e.operatorFds) = operatorLists[ch] \ {t}
                      /\ ToSet(e.invitedFds) = inviteLists[ch]
<1> DEFINE p == Lookup(channels, ch)
           old == channels[p]
           e == removeMember(old, t)
<1>1. /\ Commands(f, p) /\ Contains(old.memberFds, t)
      /\ ~ /\ Contains(old.operatorFds, t)
           /\ Len(old.operatorFds) = 1
           /\ Len(old.memberFds) > 1
      /\ channels' = Expelled(p, e)
  BY DEF kickHandler
<1>2. p \in DOMAIN channels /\ old.name = ch /\ f \in operatorLists[ch]
  BY <1>1, Asked
<1>3. /\ Good(old)
      /\ memberLists[ch] = ToSet(old.memberFds)
      /\ operatorLists[ch] = ToSet(old.operatorFds)
      /\ inviteLists[ch] = ToSet(old.invitedFds)
  BY <1>2, LooksUp
<1>4. /\ e.name = ch
      /\ ToSet(e.memberFds) = memberLists[ch] \ {t}
      /\ ToSet(e.operatorFds) = operatorLists[ch] \ {t}
      /\ ToSet(e.invitedFds) = inviteLists[ch]
      /\ isEmpty(e) <=> memberLists[ch] \subseteq {t}
      /\ ~isEmpty(e) => Good(e)
  BY <1>2, <1>3, RemoveMemberProperties
<1>5. Sound(channels)
  BY SoundStore
<1> HIDE DEF p, e
<1>6. t \in memberLists[ch]
  BY <1>1, <1>3 DEF Contains, ToSet
<1>7. operatorLists[ch] = {t} => memberLists[ch] = {t}
  <2>1. /\ old.memberFds \in Seq(Fds) /\ old.operatorFds \in Seq(Fds)
        /\ IsInjective(old.memberFds) /\ IsInjective(old.operatorFds)
    BY <1>3 DEF Good, Entry
  <2>2. operatorLists[ch] = {t} => Len(old.operatorFds) = 1 /\ Contains(old.operatorFds, t)
    <3>1. operatorLists[ch] = {t} => Len(old.operatorFds) = 1
      BY <1>3, <2>1, OnePosition
    <3>2. t \in ToSet(old.operatorFds) => Contains(old.operatorFds, t)
      BY DEF Contains, ToSet
    <3>3. QED
      BY <1>3, <3>1, <3>2
  <2>3. memberLists[ch] # {t} => Len(old.memberFds) > 1
    BY <1>3, <1>6, <2>1, Alone
  <2>4. QED
    BY <1>1, <2>2, <2>3
<1>8. operatorLists[ch] \subseteq memberLists[ch]
  BY <1>3 DEF Good
<1>9. CASE isEmpty(e)
  <2>1. channels' = RemoveAt(channels, p)
    BY <1>1, <1>9 DEF Expelled
  <2>2. Swapped(channels, channels', ch, {})
    BY <1>2, <1>5, <2>1, EraseEntries
  <2>3. QED
    BY <1>2, <1>4, <1>6, <1>7, <1>8, <1>9, <2>2
<1>10. CASE ~isEmpty(e)
  <2>1. channels' = [channels EXCEPT ![p] = e]
    BY <1>1, <1>10 DEF Expelled, ReplaceAt
  <2>2. Good(e) /\ e.name = channels[p].name
    BY <1>2, <1>4, <1>10
  <2>3. Swapped(channels, channels', ch, {e})
    <3>1. Swapped(channels, channels', e.name, {e})
      BY <1>2, <1>5, <2>1, <2>2, ReplaceEntries
    <3>2. QED
      BY <1>4, <3>1
  <2>4. QED
    BY <1>2, <1>4, <1>6, <1>7, <1>8, <1>10, <2>3 DEF BecomesOf
<1>11. QED
  BY <1>9, <1>10

\* INVITE.
LEMMA InviteBecomes ==
    ASSUME StoreInv, leaving = {}, NEW f \in Fds, NEW ch \in Names, NEW t \in Fds,
           inviteHandler(f, ch, t)
    PROVE  /\ f \in operatorLists[ch] /\ t \in conns \ memberLists[ch]
           /\ \E e :
                /\ BecomesOf(ch, e)
                /\ ToSet(e.memberFds) = memberLists[ch]
                /\ ToSet(e.operatorFds) = operatorLists[ch]
                /\ ToSet(e.invitedFds) = inviteLists[ch] \cup {t}
<1> DEFINE p == Lookup(channels, ch)
           old == channels[p]
           is == Add(old.invitedFds, t)
           e == [old EXCEPT !.invitedFds = is]
<1>1. /\ Commands(f, p) /\ t \in conns /\ ~Contains(old.memberFds, t)
      /\ channels' = [channels EXCEPT ![p] = e]
  BY DEF inviteHandler, addInvite
<1>2. p \in DOMAIN channels /\ old.name = ch /\ f \in operatorLists[ch]
  BY <1>1, Asked
<1>3. /\ Good(old)
      /\ memberLists[ch] = ToSet(old.memberFds)
      /\ operatorLists[ch] = ToSet(old.operatorFds)
      /\ inviteLists[ch] = ToSet(old.invitedFds)
  BY <1>2, LooksUp
<1>4. old.invitedFds \in Seq(Fds) /\ IsInjective(old.invitedFds)
  BY <1>3 DEF Good, Entry
<1> HIDE DEF p, old
<1>5. is \in Seq(Fds) /\ IsInjective(is) /\ ToSet(is) = inviteLists[ch] \cup {t}
  <2> DEFINE list == old.invitedFds
  <2>1. list \in Seq(Fds) /\ IsInjective(list) /\ inviteLists[ch] = ToSet(list)
    BY <1>3, <1>4
  <2> HIDE DEF list
  <2>2. Add(list, t) \in Seq(Fds) /\ IsInjective(Add(list, t))
        /\ ToSet(Add(list, t)) = ToSet(list) \cup {t}
    BY <2>1, AddProperties
  <2>3. QED
    BY <2>1, <2>2 DEF list
<1> HIDE DEF is
<1>6. /\ e \in Entry /\ e.name = ch /\ e.memberFds = old.memberFds
      /\ e.operatorFds = old.operatorFds /\ e.invitedFds = is
  BY <1>2, <1>3, <1>5 DEF Good, Entry
<1>7. Good(e)
  BY <1>3, <1>5, <1>6 DEF Good, isEmpty
<1> HIDE DEF e
<1>8. Swapped(channels, channels', ch, {e})
  BY <1>1, <1>2, <1>6, <1>7, SoundStore, ReplaceEntries DEF old
<1>9. t \notin memberLists[ch]
  BY <1>1, <1>3 DEF Contains, ToSet
<1>10. QED
  BY <1>1, <1>2, <1>3, <1>5, <1>6, <1>7, <1>8, <1>9 DEF BecomesOf

\* MODE changes nothing of a channel but its operators.
LEMMA OperatorsBecome ==
    ASSUME StoreInv, leaving = {}, NEW ch \in Names,
           NEW p \in DOMAIN channels, channels[p].name = ch,
           NEW e \in Entry, e.name = ch,
           e.memberFds = channels[p].memberFds, e.invitedFds = channels[p].invitedFds,
           IsInjective(e.operatorFds), ToSet(e.operatorFds) \subseteq memberLists[ch],
           channels' = [channels EXCEPT ![p] = e]
    PROVE  /\ BecomesOf(ch, e)
           /\ ToSet(e.memberFds) = memberLists[ch]
           /\ ToSet(e.invitedFds) = inviteLists[ch]
<1>1. /\ Good(channels[p])
      /\ memberLists[ch] = ToSet(channels[p].memberFds)
      /\ inviteLists[ch] = ToSet(channels[p].invitedFds)
  BY LooksUp
<1>2. Good(e)
  BY <1>1 DEF Good, isEmpty
<1>3. Swapped(channels, channels', ch, {e})
  BY <1>2, SoundStore, ReplaceEntries
<1>4. QED
  BY <1>1, <1>2, <1>3 DEF BecomesOf

LEMMA PromoteBecomes ==
    ASSUME StoreInv, leaving = {}, NEW f \in Fds, NEW ch \in Names, NEW t \in Fds,
           promote(f, ch, t)
    PROVE  /\ f \in operatorLists[ch] /\ t \in memberLists[ch]
           /\ \E e :
                /\ BecomesOf(ch, e)
                /\ ToSet(e.memberFds) = memberLists[ch]
                /\ ToSet(e.operatorFds) = operatorLists[ch] \cup {t}
                /\ ToSet(e.invitedFds) = inviteLists[ch]
<1> DEFINE p == FirstLookup(channels, ch)
           os == Add(channels[p].operatorFds, t)
           e == [channels[p] EXCEPT !.operatorFds = os]
<1>1. /\ Commands(f, p) /\ Contains(channels[p].memberFds, t)
      /\ channels' = [channels EXCEPT ![p] = e]
  BY DEF promote
<1>2. p \in DOMAIN channels /\ channels[p].name = ch /\ f \in operatorLists[ch]
  BY <1>1, Asked
<1> HIDE DEF p
<1>3. /\ Good(channels[p])
      /\ memberLists[ch] = ToSet(channels[p].memberFds)
      /\ operatorLists[ch] = ToSet(channels[p].operatorFds)
  BY <1>2, LooksUp
<1>4. t \in memberLists[ch]
  BY <1>1, <1>3 DEF Contains, ToSet
<1>5. /\ channels[p].operatorFds \in Seq(Fds) /\ IsInjective(channels[p].operatorFds)
      /\ operatorLists[ch] \subseteq memberLists[ch]
  BY <1>3 DEF Good, Entry
<1>6. os \in Seq(Fds) /\ IsInjective(os) /\ ToSet(os) = operatorLists[ch] \cup {t}
  <2> DEFINE list == channels[p].operatorFds
  <2>1. list \in Seq(Fds) /\ IsInjective(list) /\ operatorLists[ch] = ToSet(list)
    BY <1>3, <1>5
  <2> HIDE DEF list
  <2>2. Add(list, t) \in Seq(Fds) /\ IsInjective(Add(list, t))
        /\ ToSet(Add(list, t)) = ToSet(list) \cup {t}
    BY <2>1, AddProperties
  <2>3. QED
    BY <2>1, <2>2 DEF list
<1> HIDE DEF os, e
<1>7. /\ BecomesOf(ch, e)
      /\ ToSet(e.memberFds) = memberLists[ch]
      /\ ToSet(e.operatorFds) = ToSet(os)
      /\ ToSet(e.invitedFds) = inviteLists[ch]
  <2>1. ToSet(os) \subseteq memberLists[ch]
    BY <1>4, <1>5, <1>6
  <2>2. /\ e \in Entry /\ e.name = ch /\ e.memberFds = channels[p].memberFds
        /\ e.operatorFds = os /\ e.invitedFds = channels[p].invitedFds
    BY <1>2, <1>3, <1>6 DEF e, Good, Entry
  <2>3. IsInjective(e.operatorFds) /\ ToSet(e.operatorFds) \subseteq memberLists[ch]
    BY <1>6, <2>1, <2>2
  <2>4. QED
    BY <1>1, <1>2, <2>2, <2>3, OperatorsBecome
<1>8. QED
  BY <1>1, <1>2, <1>4, <1>5, <1>6, <1>7

LEMMA DemoteBecomes ==
    ASSUME StoreInv, leaving = {}, NEW f \in Fds, NEW ch \in Names, NEW t \in Fds,
           demote(f, ch, t)
    PROVE  /\ f \in operatorLists[ch] /\ t \in operatorLists[ch]
           /\ operatorLists[ch] # {t}
           /\ \E e :
                /\ BecomesOf(ch, e)
                /\ ToSet(e.memberFds) = memberLists[ch]
                /\ ToSet(e.operatorFds) = operatorLists[ch] \ {t}
                /\ ToSet(e.invitedFds) = inviteLists[ch]
<1> DEFINE p == FirstLookup(channels, ch)
           os == RemoveFd(channels[p].operatorFds, t)
           e == [channels[p] EXCEPT !.operatorFds = os]
<1>1. /\ Commands(f, p)
      /\ Contains(channels[p].operatorFds, t) /\ Len(channels[p].operatorFds) # 1
      /\ channels' = [channels EXCEPT ![p] = e]
  BY DEF demote
<1>2. p \in DOMAIN channels /\ channels[p].name = ch /\ f \in operatorLists[ch]
  BY <1>1, Asked
<1> HIDE DEF p
<1>3. /\ Good(channels[p])
      /\ memberLists[ch] = ToSet(channels[p].memberFds)
      /\ operatorLists[ch] = ToSet(channels[p].operatorFds)
  BY <1>2, LooksUp
<1>4. t \in operatorLists[ch]
  BY <1>1, <1>3 DEF Contains, ToSet
<1>5. /\ channels[p].operatorFds \in Seq(Fds) /\ IsInjective(channels[p].operatorFds)
      /\ operatorLists[ch] \subseteq memberLists[ch]
  BY <1>3 DEF Good, Entry
<1>6. os \in Seq(Fds) /\ IsInjective(os) /\ ToSet(os) = operatorLists[ch] \ {t}
  <2> DEFINE list == channels[p].operatorFds
  <2>1. list \in Seq(Fds) /\ IsInjective(list) /\ operatorLists[ch] = ToSet(list)
    BY <1>3, <1>5
  <2> HIDE DEF list
  <2>2. RemoveFd(list, t) \in Seq(Fds) /\ IsInjective(RemoveFd(list, t))
        /\ ToSet(RemoveFd(list, t)) = ToSet(list) \ {t}
    BY <2>1, RemoveFdProperties
  <2>3. QED
    BY <2>1, <2>2 DEF list
<1>7. operatorLists[ch] # {t}
  BY <1>1, <1>3, <1>5, OnePosition
<1> HIDE DEF os, e
<1>8. /\ BecomesOf(ch, e)
      /\ ToSet(e.memberFds) = memberLists[ch]
      /\ ToSet(e.operatorFds) = ToSet(os)
      /\ ToSet(e.invitedFds) = inviteLists[ch]
  <2>1. ToSet(os) \subseteq memberLists[ch]
    BY <1>4, <1>5, <1>6
  <2>2. /\ e \in Entry /\ e.name = ch /\ e.memberFds = channels[p].memberFds
        /\ e.operatorFds = os /\ e.invitedFds = channels[p].invitedFds
    BY <1>2, <1>3, <1>6 DEF e, Good, Entry
  <2>3. IsInjective(e.operatorFds) /\ ToSet(e.operatorFds) \subseteq memberLists[ch]
    BY <1>6, <2>1, <2>2
  <2>4. QED
    BY <1>1, <1>2, <2>2, <2>3, OperatorsBecome
<1>9. QED
  BY <1>1, <1>2, <1>4, <1>5, <1>6, <1>7, <1>8
-----------------------------------------------------------------------------
(* The invariant.                                                          *)

\* The vector is only one part of it.
LEMMA StoreInvNext ==
    ASSUME Sound(channels'),
           conns' \subseteq Fds,
           leaving' = {} \/ \E f \in conns' : leaving' = {f},
           at' \in Nat \ {0},
           leaving' = {} => at' = 1,
           \A f \in leaving' : \A p \in DOMAIN channels' :
              p < at' => f \notin ToSet(channels'[p].memberFds)
                                  \cup ToSet(channels'[p].operatorFds)
                                  \cup ToSet(channels'[p].invitedFds)
    PROVE  StoreInv'
<1>1. /\ channels' \in Seq(Entry)
      /\ IsInjective([p \in DOMAIN channels' |-> channels'[p].name])
      /\ \A p \in DOMAIN channels' :
           /\ IsInjective(channels'[p].memberFds)
           /\ IsInjective(channels'[p].operatorFds)
           /\ IsInjective(channels'[p].invitedFds)
           /\ ~isEmpty(channels'[p])
           /\ ToSet(channels'[p].operatorFds) \subseteq ToSet(channels'[p].memberFds)
  BY StoreSound
<1>2. TypeOK'
  BY <1>1 DEF TypeOK
<1>3. NoDuplicates' /\ NoEmptyEntry' /\ OperatorsInside'
  BY <1>1 DEF NoDuplicates, NoEmptyEntry, OperatorsInside
<1>4. Swept'
  BY DEF Swept
<1>5. QED
  BY <1>2, <1>3, <1>4 DEF StoreInv

\* A handler that changes channels and nothing else, while no loop runs.
LEMMA HandlerKeepsInv ==
    ASSUME StoreInv, leaving = {}, NEW ch, NEW E, Swapped(channels, channels', ch, E),
           UNCHANGED <<conns, leaving, at>>
    PROVE  StoreInv'
<1>1. Sound(channels') /\ conns' \subseteq Fds /\ leaving' = {} /\ at' = 1
  BY DEF Swapped, StoreInv, TypeOK
<1>2. QED
  BY <1>1, StoreInvNext

\* One iteration: the client is taken from the lists of the channel at the index, or the
\* channel is erased and the next one comes to the index.
LEMMA LoopChanges ==
    ASSUME StoreInv, NEW f \in leaving, leave_chanels(f)
    PROVE  /\ leaving = {f}
           /\ at \in DOMAIN channels /\ Good(channels[at])
           /\ \/ /\ ToSet(channels[at].memberFds) \subseteq {f}
                 /\ channels' = RemoveAt(channels, at)
                 /\ Swapped(channels, channels', channels[at].name, {})
                 /\ at' = at
              \/ \E e :
                 /\ ~ (ToSet(channels[at].memberFds) \subseteq {f})
                 /\ Good(e) /\ e.name = channels[at].name
                 /\ ToSet(e.memberFds) = ToSet(channels[at].memberFds) \ {f}
                 /\ ToSet(e.operatorFds) = ToSet(channels[at].operatorFds) \ {f}
                 /\ ToSet(e.invitedFds) = ToSet(channels[at].invitedFds) \ {f}
                 /\ channels' = [channels EXCEPT ![at] = e]
                 /\ Swapped(channels, channels', e.name, {e})
                 /\ at' = at + 1
<1> DEFINE e == LeaveAt(at, f)
<1>1. /\ at \in DOMAIN channels
      /\ channels' = IF isEmpty(e) THEN RemoveAt(channels, at)
                                   ELSE ReplaceAt(channels, at, e)
      /\ at' = IF isEmpty(e) THEN at ELSE at + 1
  BY DEF leave_chanels, Following
<1>2. leaving = {f}
  BY DEF StoreInv, TypeOK
<1>3. Sound(channels) /\ Good(channels[at])
  BY <1>1, SoundStore DEF Sound
<1>4. e = Left(channels[at], f)
  BY DEF LeaveAt, Left
<1> HIDE DEF e
<1>5. /\ e.name = channels[at].name
      /\ ToSet(e.memberFds) = ToSet(channels[at].memberFds) \ {f}
      /\ ToSet(e.operatorFds) = ToSet(channels[at].operatorFds) \ {f}
      /\ ToSet(e.invitedFds) = ToSet(channels[at].invitedFds) \ {f}
      /\ isEmpty(e) <=> ToSet(channels[at].memberFds) \subseteq {f}
      /\ ~isEmpty(e) => Good(e)
  <2> DEFINE old == channels[at]
             rest == Left(old, f)
  <2>1. Good(old)
    BY <1>3
  <2> HIDE DEF old
  <2>2. /\ rest.name = old.name
        /\ ToSet(rest.memberFds) = ToSet(old.memberFds) \ {f}
        /\ ToSet(rest.operatorFds) = ToSet(old.operatorFds) \ {f}
        /\ ToSet(rest.invitedFds) = ToSet(old.invitedFds) \ {f}
        /\ isEmpty(rest) <=> ToSet(old.memberFds) \subseteq {f}
        /\ ~isEmpty(rest) => Good(rest)
    BY <2>1, LeftProperties
  <2>3. e = rest
    BY <1>4 DEF old
  <2> HIDE DEF rest
  <2>4. QED
    BY <2>2, <2>3 DEF old
<1>6. CASE isEmpty(e)
  <2>1. channels' = RemoveAt(channels, at)
    BY <1>1, <1>6
  <2>2. Swapped(channels, channels', channels[at].name, {})
    BY <1>1, <1>3, <2>1, EraseEntries
  <2>3. QED
    BY <1>1, <1>2, <1>3, <1>5, <1>6, <2>1, <2>2
<1>7. CASE ~isEmpty(e)
  <2>1. channels' = [channels EXCEPT ![at] = e]
    BY <1>1, <1>7 DEF ReplaceAt
  <2>2. Good(e) /\ e.name = channels[at].name
    BY <1>5, <1>7
  <2>3. Swapped(channels, channels', e.name, {e})
    BY <1>1, <1>3, <2>1, <2>2, ReplaceEntries
  <2>4. QED
    BY <1>1, <1>2, <1>3, <1>5, <1>7, <2>1, <2>2, <2>3
<1>8. QED
  BY <1>6, <1>7

LEMMA LoopKeepsInv ==
    ASSUME StoreInv, NEW f \in leaving, leave_chanels(f)
    PROVE  StoreInv'
<1> DEFINE Without(chan) == f \notin ToSet(chan.memberFds) \cup ToSet(chan.operatorFds)
                                     \cup ToSet(chan.invitedFds)
<1>1. /\ conns \subseteq Fds /\ channels \in Seq(Entry) /\ at \in Nat \ {0}
      /\ f \in conns /\ leaving = {f}
  BY DEF StoreInv, TypeOK
<1>2. \A p \in DOMAIN channels : p < at => Without(channels[p])
  BY DEF StoreInv, Swept
<1>3. at \in DOMAIN channels
  BY LoopChanges
<1>4. UNCHANGED <<conns, leaving>>
  BY DEF leave_chanels
<1>5. DOMAIN channels = 1 .. Len(channels) /\ Len(channels) \in Nat
  BY <1>1
<1> HIDE DEF Without
<1>6. /\ Sound(channels') /\ at' \in Nat \ {0}
      /\ \A p \in DOMAIN channels' : p < at' => Without(channels'[p])
  <2>1. CASE /\ channels' = RemoveAt(channels, at) /\ at' = at
             /\ Swapped(channels, channels', channels[at].name, {})
    <3>1. \A p \in DOMAIN channels' :
            /\ Before(at, p) \in DOMAIN channels \ {at}
            /\ channels'[p] = channels[Before(at, p)]
      BY <1>1, <1>3, <1>5, <2>1, RemoveAtPositions
    <3>2. \A p \in DOMAIN channels' : p < at' => Before(at, p) = p
      BY <2>1 DEF Before
    <3>3. QED
      BY <1>1, <1>2, <2>1, <3>1, <3>2 DEF Swapped
  <2>2. ASSUME NEW e,
               channels' = [channels EXCEPT ![at] = e], at' = at + 1,
               Swapped(channels, channels', e.name, {e}), Without(e)
        PROVE  /\ Sound(channels') /\ at' \in Nat \ {0}
               /\ \A p \in DOMAIN channels' : p < at' => Without(channels'[p])
    <3>1. DOMAIN channels' = DOMAIN channels /\ channels'[at] = e
      BY <1>1, <1>3, <2>2
    <3>2. \A p \in DOMAIN channels' : p < at' => p = at \/ (p < at /\ channels'[p] = channels[p])
      BY <1>1, <1>5, <2>2, <3>1
    <3>3. QED
      BY <1>1, <1>2, <2>2, <3>1, <3>2 DEF Swapped
  <2>3. ASSUME NEW e,
               ToSet(e.memberFds) = ToSet(channels[at].memberFds) \ {f},
               ToSet(e.operatorFds) = ToSet(channels[at].operatorFds) \ {f},
               ToSet(e.invitedFds) = ToSet(channels[at].invitedFds) \ {f}
        PROVE  Without(e)
    BY <2>3 DEF Without
  <2>4. QED
    BY LoopChanges, <2>1, <2>2, <2>3
<1>7. \A g \in leaving' : g = f
  BY <1>1, <1>4
<1>8. QED
  BY <1>1, <1>4, <1>6, <1>7, StoreInvNext DEF Without

LEMMA StoreInvInit == Init => StoreInv
<1> SUFFICES ASSUME Init PROVE StoreInv
  OBVIOUS
<1>1. /\ channels = <<>> /\ channels \in Seq(Entry) /\ DOMAIN channels = {}
      /\ conns = {} /\ leaving = {} /\ at = 1
  BY DEF Init
<1>2. TypeOK
  BY <1>1 DEF TypeOK
<1>3. NoDuplicates /\ NoEmptyEntry /\ OperatorsInside /\ Swept
  BY <1>1 DEF NoDuplicates, NoEmptyEntry, OperatorsInside, Swept, IsInjective
<1>4. QED
  BY <1>1, <1>2, <1>3 DEF StoreInv

LEMMA StoreInvStep == StoreInv /\ [Next]_storeVars => StoreInv'
<1> SUFFICES ASSUME StoreInv, [Next]_storeVars PROVE StoreInv'
  OBVIOUS
<1>1. /\ Sound(channels) /\ conns \subseteq Fds /\ at \in Nat \ {0}
      /\ leaving = {} => at = 1
  BY SoundStore DEF StoreInv, TypeOK
<1>2. CASE leaving = {} /\ \E f \in Fds : connect(f)
  BY <1>1, <1>2, StoreInvNext DEF connect
<1>3. ASSUME leaving = {}, NEW f \in Fds, disconnect(f) PROVE StoreInv'
  <2>1. channels' = channels /\ conns' = conns /\ leaving' = {f} /\ f \in conns' /\ at' = 1
    BY <1>1, <1>3 DEF disconnect
  <2>2. \A p \in DOMAIN channels' : ~(p < 1)
    BY <1>1, <2>1 DEF Sound
  <2>3. QED
    BY <1>1, <2>1, <2>2, StoreInvNext
<1>4. ASSUME leaving = {}, NEW f \in Fds, NEW ch \in Names, joinHandler(f, ch) PROVE StoreInv'
  <2>1. UNCHANGED <<conns, leaving, at>>
    BY <1>4 DEF joinHandler
  <2>2. QED
    BY <1>4, <2>1, JoinBecomes, HandlerKeepsInv DEF BecomesOf
<1>5. ASSUME leaving = {}, NEW f \in Fds, NEW t \in Fds, NEW ch \in Names,
             kickHandler(f, ch, t)
      PROVE  StoreInv'
  <2>1. UNCHANGED <<conns, leaving, at>>
    BY <1>5 DEF kickHandler
  <2>2. QED
    BY <1>5, <2>1, KickBecomes, HandlerKeepsInv DEF BecomesOf
<1>6. ASSUME leaving = {}, NEW f \in Fds, NEW t \in Fds, NEW ch \in Names,
             inviteHandler(f, ch, t)
      PROVE  StoreInv'
  <2>1. UNCHANGED <<conns, leaving, at>>
    BY <1>6 DEF inviteHandler
  <2>2. QED
    BY <1>6, <2>1, InviteBecomes, HandlerKeepsInv DEF BecomesOf
<1>7. ASSUME leaving = {}, NEW f \in Fds, NEW t \in Fds, NEW ch \in Names, promote(f, ch, t)
      PROVE  StoreInv'
  <2>1. UNCHANGED <<conns, leaving, at>>
    BY <1>7 DEF promote
  <2>2. QED
    BY <1>7, <2>1, PromoteBecomes, HandlerKeepsInv DEF BecomesOf
<1>8. ASSUME leaving = {}, NEW f \in Fds, NEW t \in Fds, NEW ch \in Names, demote(f, ch, t)
      PROVE  StoreInv'
  <2>1. UNCHANGED <<conns, leaving, at>>
    BY <1>8 DEF demote
  <2>2. QED
    BY <1>8, <2>1, DemoteBecomes, HandlerKeepsInv DEF BecomesOf
<1>9. CASE \E f \in leaving : leave_chanels(f)
  BY <1>9, LoopKeepsInv
<1>10. CASE \E f \in leaving : close(f)
  BY <1>1, <1>10, StoreInvNext DEF close
<1>11. CASE UNCHANGED storeVars
  BY <1>11 DEF storeVars, StoreInv, TypeOK, NoDuplicates, NoEmptyEntry, OperatorsInside, Swept
<1>12. QED
  BY <1>2, <1>3, <1>4, <1>5, <1>6, <1>7, <1>8, <1>9, <1>10, <1>11 DEF Next

\* In every reachable state, between any two iterations of the loop too.
THEOREM StoreInvariance == StoreSpec => []StoreInv
BY StoreInvInit, StoreInvStep, PTL DEF StoreSpec

\* No name is twice in the vector of channels and no descriptor twice in a list, so
\* that erasing the first match erases the only one and both lookups agree.
THEOREM NeverTwice == StoreSpec => []NoDuplicates
<1>1. StoreInv => NoDuplicates
  BY DEF StoreInv
<1>2. QED
  BY <1>1, StoreInvariance, PTL

\* KICK and the end of a connection erase what they empty: no channel without a member
\* stays in the vector.
THEOREM NoGhostChannel == StoreSpec => []NoEmptyEntry
<1>1. StoreInv => NoEmptyEntry
  BY DEF StoreInv
<1>2. QED
  BY <1>1, StoreInvariance, PTL
-----------------------------------------------------------------------------
(* The refinement.                                                         *)

LEMMA ListsBecome ==
    ASSUME leaving = {}, leaving' = {}, NEW ch \in Names, NEW e, BecomesOf(ch, e)
    PROVE  /\ memberLists' = [memberLists EXCEPT ![ch] = ToSet(e.memberFds)]
           /\ operatorLists' = [operatorLists EXCEPT ![ch] = ToSet(e.operatorFds)]
           /\ inviteLists' = [inviteLists EXCEPT ![ch] = ToSet(e.invitedFds)]
<1>1. Good(e) /\ Swapped(channels, channels', ch, {e})
  BY DEF BecomesOf
<1>2. /\ MembersIn(channels', leaving', ch) = ToSet(e.memberFds)
      /\ OperatorsIn(channels', leaving', ch) = ToSet(e.operatorFds)
      /\ InvitedIn(channels', leaving', ch) = ToSet(e.invitedFds)
  <2>1. Entries(channels', ch) = {e}
    BY <1>1 DEF Swapped
  <2>2. /\ MembersIn(channels', {}, ch) = Kept(e, e.memberFds, {})
        /\ OperatorsIn(channels', {}, ch) = Kept(e, e.operatorFds, {})
        /\ InvitedIn(channels', {}, ch) = Kept(e, e.invitedFds, {})
    BY <2>1, ViewOfOne
  <2>3. QED
    BY <1>1, <2>2, KeptAll
<1>3. ASSUME NEW c \in Names \ {ch}
      PROVE  /\ MembersIn(channels', leaving', c) = MembersIn(channels, leaving, c)
             /\ OperatorsIn(channels', leaving', c) = OperatorsIn(channels, leaving, c)
             /\ InvitedIn(channels', leaving', c) = InvitedIn(channels, leaving, c)
  BY <1>1 DEF Swapped, MembersIn, OperatorsIn, InvitedIn
<1>4. QED
  BY <1>2, <1>3 DEF memberLists, operatorLists, inviteLists

LEMMA ListsVanish ==
    ASSUME leaving = {}, leaving' = {}, NEW ch \in Names,
           Swapped(channels, channels', ch, {})
    PROVE  /\ memberLists' = [memberLists EXCEPT ![ch] = {}]
           /\ operatorLists' = [operatorLists EXCEPT ![ch] = {}]
           /\ inviteLists' = [inviteLists EXCEPT ![ch] = {}]
<1>1. /\ MembersIn(channels', leaving', ch) = {}
      /\ OperatorsIn(channels', leaving', ch) = {}
      /\ InvitedIn(channels', leaving', ch) = {}
  BY ViewOfNone DEF Swapped
<1>2. ASSUME NEW c \in Names \ {ch}
      PROVE  /\ MembersIn(channels', leaving', c) = MembersIn(channels, leaving, c)
             /\ OperatorsIn(channels', leaving', c) = OperatorsIn(channels, leaving, c)
             /\ InvitedIn(channels', leaving', c) = InvitedIn(channels, leaving, c)
  BY DEF Swapped, MembersIn, OperatorsIn, InvitedIn
<1>3. QED
  BY <1>1, <1>2 DEF memberLists, operatorLists, inviteLists

\* Giving a channel the list it has changes nothing.
LEMMA SameList ==
    ASSUME NEW ch \in Names
    PROVE  /\ [memberLists EXCEPT ![ch] = memberLists[ch]] = memberLists
           /\ [operatorLists EXCEPT ![ch] = operatorLists[ch]] = operatorLists
           /\ [inviteLists EXCEPT ![ch] = inviteLists[ch]] = inviteLists
BY DEF memberLists, operatorLists, inviteLists

LEMMA JoinEnters ==
    ASSUME StoreInv, leaving = {}, NEW f \in Fds, NEW ch \in Names, joinHandler(f, ch)
    PROVE  Roll!Enter(f, ch)
<1>1. UNCHANGED <<conns, leaving>> /\ f \in conns \ memberLists[ch]
  BY JoinBecomes DEF joinHandler
<1>2. PICK e : /\ BecomesOf(ch, e)
               /\ ToSet(e.memberFds) = memberLists[ch] \cup {f}
               /\ ToSet(e.operatorFds) = IF memberLists[ch] = {} THEN {f}
                                         ELSE operatorLists[ch]
               /\ ToSet(e.invitedFds) = inviteLists[ch]
  BY JoinBecomes
<1>3. /\ memberLists' = [memberLists EXCEPT ![ch] = memberLists[ch] \cup {f}]
      /\ operatorLists' = [operatorLists EXCEPT ![ch] =
                              IF memberLists[ch] = {} THEN {f} ELSE operatorLists[ch]]
      /\ inviteLists' = [inviteLists EXCEPT ![ch] = inviteLists[ch]]
  BY <1>1, <1>2, ListsBecome
<1>4. QED
  BY <1>1, <1>3, SameList DEF Roll!Enter

LEMMA KickExpels ==
    ASSUME StoreInv, leaving = {}, NEW f \in Fds, NEW ch \in Names, NEW t \in Fds,
           kickHandler(f, ch, t)
    PROVE  Roll!Expel(f, t, ch)
<1>1. UNCHANGED <<conns, leaving>>
  BY DEF kickHandler
<1>2. /\ f \in operatorLists[ch] /\ t \in memberLists[ch]
      /\ operatorLists[ch] = {t} => memberLists[ch] = {t}
      /\ operatorLists[ch] \subseteq memberLists[ch]
  BY KickBecomes
<1>3. CASE memberLists[ch] = {t}
  <2>1. Swapped(channels, channels', ch, {})
    BY <1>3, KickBecomes
  <2>2. /\ memberLists' = [memberLists EXCEPT ![ch] = {}]
        /\ operatorLists' = [operatorLists EXCEPT ![ch] = {}]
        /\ inviteLists' = [inviteLists EXCEPT ![ch] = {}]
    BY <1>1, <2>1, ListsVanish
  <2>3. memberLists[ch] \ {t} = {} /\ operatorLists[ch] \ {t} = {}
    BY <1>2, <1>3
  <2>4. QED
    BY <1>1, <1>2, <1>3, <2>2, <2>3 DEF Roll!Expel
<1>4. CASE memberLists[ch] # {t}
  <2>1. PICK e : /\ BecomesOf(ch, e)
                 /\ ToSet(e.memberFds) = memberLists[ch] \ {t}
                 /\ ToSet(e.operatorFds) = operatorLists[ch] \ {t}
                 /\ ToSet(e.invitedFds) = inviteLists[ch]
    BY <1>4, KickBecomes
  <2>2. /\ memberLists' = [memberLists EXCEPT ![ch] = memberLists[ch] \ {t}]
        /\ operatorLists' = [operatorLists EXCEPT ![ch] = operatorLists[ch] \ {t}]
        /\ inviteLists' = [inviteLists EXCEPT ![ch] = inviteLists[ch]]
    BY <1>1, <2>1, ListsBecome
  <2>3. QED
    BY <1>1, <1>2, <1>4, <2>2 DEF Roll!Expel
<1>5. QED
  BY <1>3, <1>4

LEMMA InviteInvites ==
    ASSUME StoreInv, leaving = {}, NEW f \in Fds, NEW ch \in Names, NEW t \in Fds,
           inviteHandler(f, ch, t)
    PROVE  Roll!Invite(f, t, ch)
<1>1. /\ UNCHANGED <<conns, leaving>>
      /\ f \in operatorLists[ch] /\ t \in conns \ memberLists[ch]
  BY InviteBecomes DEF inviteHandler
<1>2. PICK e : /\ BecomesOf(ch, e)
               /\ ToSet(e.memberFds) = memberLists[ch]
               /\ ToSet(e.operatorFds) = operatorLists[ch]
               /\ ToSet(e.invitedFds) = inviteLists[ch] \cup {t}
  BY InviteBecomes
<1>3. /\ memberLists' = [memberLists EXCEPT ![ch] = memberLists[ch]]
      /\ operatorLists' = [operatorLists EXCEPT ![ch] = operatorLists[ch]]
      /\ inviteLists' = [inviteLists EXCEPT ![ch] = inviteLists[ch] \cup {t}]
  BY <1>1, <1>2, ListsBecome
<1>4. QED
  BY <1>1, <1>3, SameList DEF Roll!Invite

LEMMA PromotePromotes ==
    ASSUME StoreInv, leaving = {}, NEW f \in Fds, NEW ch \in Names, NEW t \in Fds,
           promote(f, ch, t)
    PROVE  Roll!Promote(f, t, ch)
<1>1. /\ UNCHANGED <<conns, leaving>>
      /\ f \in operatorLists[ch] /\ t \in memberLists[ch]
  BY PromoteBecomes DEF promote
<1>2. PICK e : /\ BecomesOf(ch, e)
               /\ ToSet(e.memberFds) = memberLists[ch]
               /\ ToSet(e.operatorFds) = operatorLists[ch] \cup {t}
               /\ ToSet(e.invitedFds) = inviteLists[ch]
  BY PromoteBecomes
<1>3. /\ memberLists' = [memberLists EXCEPT ![ch] = memberLists[ch]]
      /\ operatorLists' = [operatorLists EXCEPT ![ch] = operatorLists[ch] \cup {t}]
      /\ inviteLists' = [inviteLists EXCEPT ![ch] = inviteLists[ch]]
  BY <1>1, <1>2, ListsBecome
<1>4. QED
  BY <1>1, <1>3, SameList DEF Roll!Promote

LEMMA DemoteDemotes ==
    ASSUME StoreInv, leaving = {}, NEW f \in Fds, NEW ch \in Names, NEW t \in Fds,
           demote(f, ch, t)
    PROVE  Roll!Demote(f, t, ch)
<1>1. /\ UNCHANGED <<conns, leaving>>
      /\ f \in operatorLists[ch] /\ t \in operatorLists[ch] /\ operatorLists[ch] # {t}
  BY DemoteBecomes DEF demote
<1>2. PICK e : /\ BecomesOf(ch, e)
               /\ ToSet(e.memberFds) = memberLists[ch]
               /\ ToSet(e.operatorFds) = operatorLists[ch] \ {t}
               /\ ToSet(e.invitedFds) = inviteLists[ch]
  BY DemoteBecomes
<1>3. /\ memberLists' = [memberLists EXCEPT ![ch] = memberLists[ch]]
      /\ operatorLists' = [operatorLists EXCEPT ![ch] = operatorLists[ch] \ {t}]
      /\ inviteLists' = [inviteLists EXCEPT ![ch] = inviteLists[ch]]
  BY <1>1, <1>2, ListsBecome
<1>4. QED
  BY <1>1, <1>3, SameList DEF Roll!Demote

\* disconnect: for the clients the departing one is gone from every list at once.
LEMMA DisconnectDeparts ==
    ASSUME StoreInv, leaving = {}, NEW f \in Fds, disconnect(f)
    PROVE  Roll!Depart(f)
<1>1. /\ f \in conns /\ leaving' = {f} /\ UNCHANGED <<conns, channels>>
      /\ Sound(channels)
  BY SoundStore DEF disconnect
<1>2. ASSUME NEW c \in Names
      PROVE  /\ MembersIn(channels, {f}, c) = Roll!Without(memberLists, c, f)
             /\ OperatorsIn(channels, {f}, c) = Roll!Without(operatorLists, c, f)
             /\ InvitedIn(channels, {f}, c) = Roll!Without(inviteLists, c, f)
  <2>1. CASE Entries(channels, c) = {}
    <3>1. /\ MembersIn(channels, {f}, c) = {} /\ MembersIn(channels, {}, c) = {}
          /\ OperatorsIn(channels, {f}, c) = {} /\ OperatorsIn(channels, {}, c) = {}
          /\ InvitedIn(channels, {f}, c) = {} /\ InvitedIn(channels, {}, c) = {}
      BY <2>1, ViewOfNone
    <3>2. memberLists[c] = {} /\ operatorLists[c] = {} /\ inviteLists[c] = {}
      BY <3>1 DEF memberLists, operatorLists, inviteLists
    <3>3. QED
      BY <3>1, <3>2 DEF Roll!Without
  <2>2. ASSUME NEW chan, Good(chan), Entries(channels, c) = {chan}
        PROVE  /\ MembersIn(channels, {f}, c) = Roll!Without(memberLists, c, f)
               /\ OperatorsIn(channels, {f}, c) = Roll!Without(operatorLists, c, f)
               /\ InvitedIn(channels, {f}, c) = Roll!Without(inviteLists, c, f)
    <3>1. /\ MembersIn(channels, {f}, c) = Kept(chan, chan.memberFds, {f})
          /\ OperatorsIn(channels, {f}, c) = Kept(chan, chan.operatorFds, {f})
          /\ InvitedIn(channels, {f}, c) = Kept(chan, chan.invitedFds, {f})
      BY <2>2, ViewOfOne
    <3>2. /\ MembersIn(channels, {}, c) = Kept(chan, chan.memberFds, {})
          /\ OperatorsIn(channels, {}, c) = Kept(chan, chan.operatorFds, {})
          /\ InvitedIn(channels, {}, c) = Kept(chan, chan.invitedFds, {})
      BY <2>2, ViewOfOne
    <3>3. /\ memberLists[c] = ToSet(chan.memberFds)
          /\ operatorLists[c] = ToSet(chan.operatorFds)
          /\ inviteLists[c] = ToSet(chan.invitedFds)
      BY <2>2, <3>2, KeptAll DEF memberLists, operatorLists, inviteLists
    <3>4. QED
      BY <3>1, <3>3 DEF Roll!Without, Kept
  <2>3. QED
    BY <1>1, <2>1, <2>2, EntriesCases
<1>3. /\ memberLists' = [c \in Names |-> Roll!Without(memberLists, c, f)]
      /\ operatorLists' = [c \in Names |-> Roll!Without(operatorLists, c, f)]
      /\ inviteLists' = [c \in Names |-> Roll!Without(inviteLists, c, f)]
  BY <1>1, <1>2 DEF memberLists, operatorLists, inviteLists
<1>4. f \in conns \ leaving /\ (conns \ leaving)' = (conns \ leaving) \ {f}
  BY <1>1
<1>5. QED
  BY <1>3, <1>4 DEF Roll!Depart

\* One iteration shows the clients nothing.
LEMMA LoopStutters ==
    ASSUME StoreInv, NEW f \in leaving, leave_chanels(f)
    PROVE  UNCHANGED <<conns \ leaving, memberLists, operatorLists, inviteLists>>
<1>1. leaving = {f} /\ UNCHANGED <<conns, leaving>>
  BY LoopChanges DEF leave_chanels
<1> DEFINE old == channels[at]
<1>2. at \in DOMAIN channels /\ Good(old) /\ Sound(channels) /\ old.name \in Names
  BY LoopChanges, SoundStore DEF Good, Entry
<1>3. Entries(channels, old.name) = {old}
  BY <1>2, OneEntry
<1>4. /\ MembersIn(channels, {f}, old.name) = Kept(old, old.memberFds, {f})
      /\ OperatorsIn(channels, {f}, old.name) = Kept(old, old.operatorFds, {f})
      /\ InvitedIn(channels, {f}, old.name) = Kept(old, old.invitedFds, {f})
  BY <1>3, ViewOfOne
<1> HIDE DEF old
<1>5. ASSUME NEW E, Swapped(channels, channels', old.name, E),
             MembersIn(channels', {f}, old.name) = MembersIn(channels, {f}, old.name),
             OperatorsIn(channels', {f}, old.name) = OperatorsIn(channels, {f}, old.name),
             InvitedIn(channels', {f}, old.name) = InvitedIn(channels, {f}, old.name)
      PROVE  UNCHANGED <<conns \ leaving, memberLists, operatorLists, inviteLists>>
  <2>1. ASSUME NEW c \in Names
        PROVE  /\ MembersIn(channels', {f}, c) = MembersIn(channels, {f}, c)
               /\ OperatorsIn(channels', {f}, c) = OperatorsIn(channels, {f}, c)
               /\ InvitedIn(channels', {f}, c) = InvitedIn(channels, {f}, c)
    <3>1. CASE c = old.name
      BY <1>5, <3>1
    <3>2. CASE c # old.name
      BY <1>5, <3>2 DEF Swapped, MembersIn, OperatorsIn, InvitedIn
    <3>3. QED
      BY <3>1, <3>2
  <2>2. QED
    BY <1>1, <2>1 DEF memberLists, operatorLists, inviteLists
<1>6. CASE /\ ToSet(old.memberFds) \subseteq {f}
           /\ Swapped(channels, channels', old.name, {})
  <2>1. /\ MembersIn(channels', {f}, old.name) = {}
        /\ OperatorsIn(channels', {f}, old.name) = {}
        /\ InvitedIn(channels', {f}, old.name) = {}
    BY <1>6, ViewOfNone DEF Swapped
  <2>2. /\ Kept(old, old.memberFds, {f}) = {}
        /\ Kept(old, old.operatorFds, {f}) = {}
        /\ Kept(old, old.invitedFds, {f}) = {}
    BY <1>6 DEF Kept
  <2>3. QED
    BY <1>4, <1>5, <1>6, <2>1, <2>2
<1>7. ASSUME NEW e, Good(e), e.name = old.name, ~ (ToSet(old.memberFds) \subseteq {f}),
             ToSet(e.memberFds) = ToSet(old.memberFds) \ {f},
             ToSet(e.operatorFds) = ToSet(old.operatorFds) \ {f},
             ToSet(e.invitedFds) = ToSet(old.invitedFds) \ {f},
             Swapped(channels, channels', e.name, {e})
      PROVE  UNCHANGED <<conns \ leaving, memberLists, operatorLists, inviteLists>>
  <2>1. Entries(channels', old.name) = {e}
    BY <1>7 DEF Swapped
  <2>2. /\ MembersIn(channels', {f}, old.name) = Kept(e, e.memberFds, {f})
        /\ OperatorsIn(channels', {f}, old.name) = Kept(e, e.operatorFds, {f})
        /\ InvitedIn(channels', {f}, old.name) = Kept(e, e.invitedFds, {f})
    BY <2>1, ViewOfOne
  <2>3. /\ Kept(e, e.memberFds, {f}) = Kept(old, old.memberFds, {f})
        /\ Kept(e, e.operatorFds, {f}) = Kept(old, old.operatorFds, {f})
        /\ Kept(e, e.invitedFds, {f}) = Kept(old, old.invitedFds, {f})
    BY <1>7 DEF Kept
  <2>4. QED
    BY <1>4, <1>5, <1>7, <2>2, <2>3
<1>8. QED
  BY <1>6, <1>7, LoopChanges DEF old

\* When the loop is through it has found the departing client wherever it was.
LEMMA CloseStutters ==
    ASSUME StoreInv, NEW f \in leaving, close(f)
    PROVE  UNCHANGED <<conns \ leaving, memberLists, operatorLists, inviteLists>>
<1>1. /\ leaving = {f} /\ leaving' = {} /\ conns' = conns \ {f} /\ channels' = channels
      /\ at \notin DOMAIN channels
  BY DEF StoreInv, TypeOK, close
<1>2. \A p \in DOMAIN channels : f \notin ToSet(channels[p].memberFds)
                                          \cup ToSet(channels[p].operatorFds)
                                          \cup ToSet(channels[p].invitedFds)
  <2>1. channels \in Seq(Entry) /\ at \in Nat \ {0}
    BY DEF StoreInv, TypeOK
  <2>2. \A p \in DOMAIN channels : p < at
    BY <1>1, <2>1
  <2>3. QED
    BY <2>2 DEF StoreInv, Swept
<1>3. ASSUME NEW c \in Names
      PROVE  /\ MembersIn(channels, {f}, c) = MembersIn(channels, {}, c)
             /\ OperatorsIn(channels, {f}, c) = OperatorsIn(channels, {}, c)
             /\ InvitedIn(channels, {f}, c) = InvitedIn(channels, {}, c)
  <2>1. CASE Entries(channels, c) = {}
    BY <2>1, ViewOfNone
  <2>2. ASSUME NEW chan, Good(chan), Entries(channels, c) = {chan}
        PROVE  /\ MembersIn(channels, {f}, c) = MembersIn(channels, {}, c)
               /\ OperatorsIn(channels, {f}, c) = OperatorsIn(channels, {}, c)
               /\ InvitedIn(channels, {f}, c) = InvitedIn(channels, {}, c)
    <3>1. PICK p \in DOMAIN channels : chan = channels[p]
      BY <2>2 DEF Entries, ToSet
    <3>2. f \notin ToSet(chan.memberFds) \cup ToSet(chan.operatorFds) \cup ToSet(chan.invitedFds)
      BY <1>2, <3>1
    <3>3. ToSet(chan.memberFds) # {}
      BY <2>2, EmptyList DEF Good, Entry, isEmpty
    <3>4. /\ Kept(chan, chan.memberFds, {f}) = Kept(chan, chan.memberFds, {})
          /\ Kept(chan, chan.operatorFds, {f}) = Kept(chan, chan.operatorFds, {})
          /\ Kept(chan, chan.invitedFds, {f}) = Kept(chan, chan.invitedFds, {})
      BY <3>2, <3>3 DEF Kept
    <3>5. QED
      BY <2>2, <3>4, ViewOfOne
  <2>3. QED
    BY <2>1, <2>2, SoundStore, EntriesCases
<1>4. (conns \ leaving)' = conns \ leaving
  BY <1>1
<1>5. QED
  BY <1>1, <1>3, <1>4 DEF memberLists, operatorLists, inviteLists

\* The initial vectors are the initial lists.
LEMMA StartsEmpty == Init => Roll!Init
<1> SUFFICES ASSUME Init PROVE Roll!Init
  OBVIOUS
<1>1. conns \ leaving = {} /\ leaving = {} /\ DOMAIN channels = {}
  BY DEF Init
<1>2. \A c \in Names : memberLists[c] = {} /\ operatorLists[c] = {} /\ inviteLists[c] = {}
  BY <1>1, LooksUpNothing
<1>3. QED
  BY <1>1, <1>2 DEF Roll!Init, Roll!Nobody, memberLists, operatorLists, inviteLists

\* Each step is one that Membership allows, or none.
LEMMA StepsAllowed ==
    StoreInv /\ [Next]_storeVars => [Roll!Next]_Roll!memberVars
<1> SUFFICES ASSUME StoreInv, [Next]_storeVars PROVE [Roll!Next]_Roll!memberVars
  OBVIOUS
<1>1. ASSUME leaving = {}, NEW f \in Fds, connect(f) PROVE Roll!Arrive(f)
  <2>1. f \notin conns \ leaving /\ (conns \ leaving)' = (conns \ leaving) \cup {f}
    BY <1>1 DEF connect
  <2>2. UNCHANGED <<memberLists, operatorLists, inviteLists>>
    BY <1>1 DEF connect, memberLists, operatorLists, inviteLists
  <2>3. QED
    BY <2>1, <2>2 DEF Roll!Arrive
<1>2. CASE leaving = {} /\ \E f \in Fds : connect(f) \/ disconnect(f)
  BY <1>1, <1>2, DisconnectDeparts DEF Roll!Next
<1>3. CASE leaving = {} /\ \E f \in Fds, ch \in Names : joinHandler(f, ch)
  BY <1>3, JoinEnters DEF Roll!Next
<1>4. CASE leaving = {} /\ \E f, t \in Fds, ch \in Names :
              \/ kickHandler(f, ch, t) \/ inviteHandler(f, ch, t)
              \/ promote(f, ch, t) \/ demote(f, ch, t)
  BY <1>4, KickExpels, InviteInvites, PromotePromotes, DemoteDemotes DEF Roll!Next
<1>5. CASE \E f \in leaving : leave_chanels(f) \/ close(f)
  BY <1>5, LoopStutters, CloseStutters DEF Roll!memberVars
<1>6. CASE UNCHANGED storeVars
  BY <1>6 DEF storeVars, memberLists, operatorLists, inviteLists, Roll!memberVars
<1>7. QED
  BY <1>2, <1>3, <1>4, <1>5, <1>6 DEF Next

\* The vectors implement Membership, for any number of descriptors and channels: the
\* loop of leave_chanels, which erases while it scans, has the effect of one departure.
THEOREM StoreRefinesMembership == StoreSpec => StoreImplementsMembership
<1>1. StoreSpec => Roll!Init /\ [][Roll!Next]_Roll!memberVars
  BY StoreInvariance, StartsEmpty, StepsAllowed, PTL DEF StoreSpec
<1>2. QED
  BY <1>1 DEF StoreImplementsMembership, Roll!Spec
=============================================================================
