---------------------------- MODULE TablesProofs ----------------------------
(***************************************************************************)
(* The lifetime of a token for every period and every pace of requests.    *)
(*                                                                         *)
(* The invariant says in which stretch of time a token can have been       *)
(* handed out, by its key: the epoch stays on the grid of the periods, so  *)
(* the current key serves the period that begins at the epoch, the         *)
(* previous one served the period right before it, and every other token   *)
(* is older than that.                                                     *)
(*                                                                         *)
(* Then the peer store, whose map and indexes agree for all limits, the    *)
(* identity of the node, for every pause and every wall clock, the traffic *)
(* budget, and the history of events with the monitor that serves it.      *)
(***************************************************************************)
EXTENDS Tokens, PeerStore, Identity, Traffic, Monitor,
        FiniteSetTheorems, WellFoundedInduction, TLAPS

Token == [ip : Sources, key : Nat \ {0}, at : Nat]

KeysInOrder(c, p, e, time) ==
    /\ c \in Nat \ {0} /\ p \in Nat /\ p < c
    /\ e \in Nat /\ e <= time
TokenOfPeriod(t, c, p, e, time) ==
    /\ t.at <= time /\ t.key <= c
    /\ t.key = c => e <= t.at /\ t.at < e + Period
    /\ t.key = p => e <= t.at + Period /\ t.at < e
    /\ t.key # c /\ t.key # p => t.at + Period < e
TokensByPeriod(c, p, e) == \A t \in issued : TokenOfPeriod(t, c, p, e, now)

TokensInv ==
    /\ now \in Nat /\ issued \in SUBSET Token
    /\ KeysInOrder(current, previous, epoch, now)
    /\ TokensByPeriod(current, previous, epoch)

-----------------------------------------------------------------------------
(* The epoch after a rotation: whole periods later, and less than one      *)
(* period ago.                                                             *)
LEMMA Grid ==
    ASSUME NEW elapsed \in Nat, elapsed >= Period
    PROVE  /\ elapsed % Period \in 0 .. Period - 1
           /\ elapsed - (elapsed % Period) >= Period
           /\ elapsed < 2 * Period => elapsed - (elapsed % Period) = Period
           /\ elapsed >= 2 * Period => elapsed - (elapsed % Period) >= 2 * Period
<1> DEFINE q == elapsed \div Period
<1> DEFINE r == elapsed % Period
<1>1. q \in Int /\ r \in 0 .. Period - 1 /\ elapsed = Period * q + r
  BY PeriodAssumption, Z3
<1> HIDE DEF q, r
<1>2. q >= 1
  <2> SUFFICES ASSUME q <= 0 PROVE FALSE
    BY <1>1
  <2>1. Period * q <= 0
    BY <1>1, PeriodAssumption
  <2> QED
    BY <1>1, <2>1, PeriodAssumption
<1>3. Period * q >= Period
  BY <1>1, <1>2, PeriodAssumption
<1>4. ASSUME elapsed < 2 * Period PROVE q = 1
  <2> SUFFICES ASSUME q >= 2 PROVE FALSE
    BY <1>1, <1>2
  <2>1. Period * q >= 2 * Period
    BY <1>1, PeriodAssumption
  <2> QED
    BY <1>1, <1>4, <2>1, PeriodAssumption
<1>5. ASSUME elapsed >= 2 * Period PROVE Period * q >= 2 * Period
  <2> SUFFICES ASSUME q < 2 PROVE FALSE
    <3>1. q >= 2 => Period * q >= 2 * Period
      BY <1>1, PeriodAssumption
    <3> QED
      BY <3>1, <1>1
  <2>1. q = 1
    BY <1>1, <1>2
  <2> QED
    BY <1>1, <1>5, <2>1, PeriodAssumption
<1>6. elapsed - r = Period * q
  BY <1>1, PeriodAssumption
<1>7. elapsed < 2 * Period => Period * q = Period
  BY <1>4, PeriodAssumption
<1> QED
  BY <1>1, <1>3, <1>5, <1>6, <1>7 DEF r

(* The keys after rotate fit the tokens as those before it did, and the    *)
(* epoch is of the present period.                                         *)
LEMMA Rotated ==
    ASSUME TokensInv
    PROVE  /\ KeysInOrder(rotate.current, rotate.previous, rotate.epoch, now)
           /\ TokensByPeriod(rotate.current, rotate.previous, rotate.epoch)
           /\ now < rotate.epoch + Period
<1> USE PeriodAssumption
<1> DEFINE elapsed == now - epoch
<1>1. elapsed \in Nat /\ now \in Nat /\ epoch \in Nat
  BY DEF TokensInv, KeysInOrder
<1>2. CASE elapsed < Period
  <2>1. rotate = [current |-> current, previous |-> previous, epoch |-> epoch]
    BY <1>2 DEF rotate
  <2> QED
    BY <1>1, <1>2, <2>1 DEF TokensInv
<1>3. CASE elapsed >= Period
  <2> DEFINE e == now - (elapsed % Period)
  <2> DEFINE p == IF elapsed < 2 * Period THEN current ELSE 0
  <2>1. rotate.current = current + 1 /\ rotate.previous = p /\ rotate.epoch = e
    BY <1>1, <1>3 DEF rotate
  <2>2. /\ e \in Nat /\ e <= now /\ now < e + Period
        /\ e >= epoch + Period
        /\ elapsed < 2 * Period => e = epoch + Period
        /\ elapsed >= 2 * Period => e >= epoch + 2 * Period
    <3> DEFINE r == elapsed % Period
    <3>1. /\ r \in 0 .. Period - 1
          /\ elapsed - r >= Period
          /\ elapsed < 2 * Period => elapsed - r = Period
          /\ elapsed >= 2 * Period => elapsed - r >= 2 * Period
      BY <1>1, <1>3, Grid
    <3> HIDE DEF r
    <3>2. e = now - r
      BY DEF r
    <3> HIDE DEF e
    <3> QED
      BY <1>1, <3>1, <3>2
  <2> HIDE DEF e
  <2>3. KeysInOrder(current + 1, p, e, now)
    BY <2>2 DEF TokensInv, KeysInOrder
  <2>4. ASSUME NEW t \in issued PROVE TokenOfPeriod(t, current + 1, p, e, now)
    <3>1. /\ TokenOfPeriod(t, current, previous, epoch, now)
          /\ t.key \in Nat \ {0} /\ t.at \in Nat
          /\ current \in Nat \ {0} /\ previous \in Nat /\ previous < current
      BY DEF TokensInv, TokensByPeriod, Token, KeysInOrder
    <3> HIDE DEF elapsed
    <3> QED
      BY <1>1, <2>2, <3>1 DEF TokenOfPeriod
  <2> QED
    BY <2>1, <2>2, <2>3, <2>4 DEF TokensByPeriod
<1> QED
  BY <1>1, <1>2, <1>3

LEMMA TokensInitially == TokensInit => TokensInv
  BY DEF TokensInit, TokensInv, KeysInOrder, TokensByPeriod, Token

LEMMA TokensStep == TokensInv /\ [TokensNext]_tokenVars => TokensInv'
<1> SUFFICES ASSUME TokensInv, [TokensNext]_tokenVars PROVE TokensInv'
  OBVIOUS
<1> USE PeriodAssumption
<1>1. now \in Nat /\ issued \in SUBSET Token
  BY DEF TokensInv
<1>2. ASSUME NewKeys, now' = now
      PROVE  /\ KeysInOrder(current', previous', epoch', now')
             /\ \A t \in issued : TokenOfPeriod(t, current', previous', epoch', now')
  BY <1>2, Rotated DEF NewKeys, TokensByPeriod
<1>3. ASSUME NEW ip \in Sources, issue(ip) PROVE TokensInv'
  <2> DEFINE new == [ip |-> ip, key |-> rotate.current, at |-> now]
  <2>1. now' = now /\ NewKeys /\ issued' = issued \cup {new}
    BY <1>3 DEF issue
  <2>2. new \in Token
    BY <1>1, Rotated DEF Token, KeysInOrder
  <2>3. TokenOfPeriod(new, current', previous', epoch', now')
    BY <1>1, <2>1, Rotated DEF NewKeys, KeysInOrder, TokenOfPeriod
  <2> QED
    BY <1>1, <1>2, <2>1, <2>2, <2>3 DEF TokensInv, TokensByPeriod
<1>4. CASE validate
  BY <1>1, <1>2, <1>4 DEF validate, TokensInv, TokensByPeriod
<1>5. CASE ClockTicks
  BY <1>5 DEF ClockTicks, TokensInv, KeysInOrder, TokensByPeriod, TokenOfPeriod, Token
<1>6. CASE UNCHANGED tokenVars
  BY <1>6 DEF tokenVars, TokensInv, KeysInOrder, TokensByPeriod, TokenOfPeriod
<1>7. CASE ClockStops
  BY <1>6, <1>7 DEF ClockStops
<1> QED
  BY <1>3, <1>4, <1>5, <1>6, <1>7 DEF TokensNext

(* A token is good for at least one period and less than two, whenever     *)
(* requests change the keys (token/mod.rs, rotate and validate).           *)
THEOREM TokensLive == TokensSpec => []TokenLifetime
<1>1. TokensInv => TokenLifetime
  <2> SUFFICES ASSUME TokensInv, NEW t \in issued, NEW ip \in Sources
               PROVE  /\ verifies(t, ip) => t.ip = ip /\ now - t.at < 2 * Period
                      /\ t.ip = ip /\ now - t.at < Period => verifies(t, ip)
    BY DEF TokenLifetime
  <2>1. /\ now \in Nat /\ t.at \in Nat /\ t.key \in Nat \ {0}
        /\ KeysInOrder(rotate.current, rotate.previous, rotate.epoch, now)
        /\ TokenOfPeriod(t, rotate.current, rotate.previous, rotate.epoch, now)
        /\ now < rotate.epoch + Period
    BY Rotated DEF TokensInv, TokensByPeriod, Token
  <2> QED
    BY <2>1, PeriodAssumption DEF KeysInOrder, TokenOfPeriod, verifies
<1> QED
  BY <1>1, TokensInitially, TokensStep, PTL DEF TokensSpec

-----------------------------------------------------------------------------
(* The peer store.  Its map and its indexes are compared as sets: what one *)
(* step of announce or of expire takes out of the map is what it takes out *)
(* of both indexes.                                                        *)

Deadlines == 0..(MaxClock + ttl)
IsGroup(g) == DOMAIN g \subseteq Endpoints /\ DOMAIN g # {} /\ g \in [DOMAIN g -> Deadlines]
Entries(p) == UNION {{<<p[h][a], h, a>> : a \in DOMAIN p[h]} : h \in DOMAIN p}
LatestOf(p) == {<<Latest(p[h]), h>> : h \in DOMAIN p}
Agree(s) ==
    /\ DOMAIN s.peers \subseteq Hashes
    /\ \A h \in DOMAIN s.peers : IsGroup(s.peers[h])
    /\ s.expiry = Entries(s.peers) /\ IsFiniteSet(s.expiry)
    /\ s.hashes = LatestOf(s.peers)
(* What is left after something was removed.                               *)
Shrinks(r, s) ==
    /\ DOMAIN r.peers \subseteq DOMAIN s.peers /\ r.expiry \subseteq s.expiry
    /\ \A h \in DOMAIN r.peers : DOMAIN r.peers[h] \subseteq DOMAIN s.peers[h]

LEMMA Entry ==
    \A p, e : e \in Entries(p) <=> \E h \in DOMAIN p : \E a \in DOMAIN p[h] : e = <<p[h][a], h, a>>
  BY DEF Entries

LEMMA LeastOf ==
    ASSUME NEW S \in SUBSET Nat, S # {}
    PROVE  \E n \in S : \A m \in S : n <= m
<1>1. PICK n \in S : \A m \in S : ~(<<m, n>> \in OpToRel(<, Nat))
  BY NatLessThanWellFounded, WFMin
<1>2. \A m \in S : m \in Nat /\ n \in Nat /\ ~(m < n)
  BY <1>1 DEF OpToRel
<1>3. \A m \in S : n <= m
  BY <1>2
<1> QED
  BY <1>3

(* A group has a latest deadline.                                          *)
LEMMA LatestIs ==
    ASSUME NEW g, IsGroup(g)
    PROVE  /\ \E a \in DOMAIN g : Latest(g) = g[a]
           /\ Latest(g) \in Deadlines /\ Latest(g) \in Nat
           /\ \A a \in DOMAIN g : g[a] <= Latest(g)
<1> DEFINE B == MaxClock + ttl
           V == {g[a] : a \in DOMAIN g}
           R == {B - v : v \in V}
<1>1. B \in Nat /\ \A a \in DOMAIN g : g[a] \in 0..B
  BY StoreAssumption DEF IsGroup, Deadlines
<1>2. V # {} /\ \A v \in V : v \in 0..B
  BY <1>1 DEF IsGroup
<1> HIDE DEF V, B
<1>3. R \in SUBSET Nat /\ R # {}
  BY <1>1, <1>2
<1>4. PICK r \in R : \A q \in R : r <= q
  BY <1>3, LeastOf
<1>5. PICK v \in V : r = B - v
  BY <1>4
<1>6. \A w \in V : w <= v
  <2> SUFFICES ASSUME NEW w \in V PROVE w <= v
    OBVIOUS
  <2>1. B - v <= B - w
    BY <1>4, <1>5
  <2> QED
    BY <1>1, <1>2, <2>1
<1>7. MaxOf(V) \in V /\ \A w \in V : w <= MaxOf(V)
  BY <1>6 DEF MaxOf
<1>8. Latest(g) = MaxOf(V)
  BY DEF Latest, V
<1>9. \E a \in DOMAIN g : Latest(g) = g[a]
  BY <1>7, <1>8 DEF V
<1>10. Latest(g) \in 0..B /\ Latest(g) \in Nat
  BY <1>1, <1>2, <1>7, <1>8
<1>11. \A a \in DOMAIN g : g[a] <= Latest(g)
  BY <1>7, <1>8 DEF V
<1> QED
  BY <1>9, <1>10, <1>11 DEF B, Deadlines

(* The first of the pairs and of the triples of an index is one of them.   *)
LEMMA FirstPair ==
    ASSUME NEW S, S # {}, \A s \in S : \E x, y \in Nat : s = <<x, y>>
    PROVE  FirstOf(S) \in S
<1> DEFINE X == {s[1] : s \in S}
<1>1. \A s \in S : s = <<s[1], s[2]>> /\ s[1] \in Nat /\ s[2] \in Nat /\ DOMAIN s = 1..2
  <2> SUFFICES ASSUME NEW s \in S
               PROVE  s = <<s[1], s[2]>> /\ s[1] \in Nat /\ s[2] \in Nat /\ DOMAIN s = 1..2
    OBVIOUS
  <2>1. PICK x, y \in Nat : s = <<x, y>>
    OBVIOUS
  <2> QED
    BY <2>1
<1>2. PICK x \in X : \A w \in X : x <= w
  <2>1. X \in SUBSET Nat /\ X # {}
    BY <1>1
  <2> QED
    BY <2>1, LeastOf
<1> DEFINE Y == {s[2] : s \in {t \in S : t[1] = x}}
<1>3. PICK y \in Y : \A w \in Y : y <= w
  <2>1. Y \in SUBSET Nat /\ Y # {}
    BY <1>1, <1>2
  <2> QED
    BY <2>1, LeastOf
<1>4. PICK s \in S : s[1] = x /\ s[2] = y
  BY <1>3
<1>5. \A t \in S \ {s} : Before(s, t)
  <2> SUFFICES ASSUME NEW t \in S, t # s PROVE Before(s, t)
    OBVIOUS
  <2>1. s[1] <= t[1] /\ s[1] \in Nat /\ t[1] \in Nat /\ s[2] \in Nat /\ t[2] \in Nat
    BY <1>1, <1>2, <1>4
  <2>2. CASE s[1] < t[1]
    <3>1. 1 \in DOMAIN s /\ \A j \in 1..(1 - 1) : s[j] = t[j]
      BY <1>1
    <3> QED
      BY <2>2, <3>1 DEF Before
  <2>3. CASE s[1] = t[1]
    <3>1. s[2] <= t[2] /\ s[2] # t[2]
      BY <1>1, <1>3, <1>4, <2>3
    <3>2. 2 \in DOMAIN s /\ s[2] < t[2] /\ \A j \in 1..(2 - 1) : s[j] = t[j]
      BY <1>1, <2>1, <2>3, <3>1
    <3> QED
      BY <3>2 DEF Before
  <2> QED
    BY <2>1, <2>2, <2>3
<1> QED
  BY <1>5 DEF FirstOf

LEMMA FirstTriple ==
    ASSUME NEW S, S # {}, \A s \in S : \E x, y, z \in Nat : s = <<x, y, z>>
    PROVE  FirstOf(S) \in S
<1> DEFINE X == {s[1] : s \in S}
<1>1. \A s \in S : /\ s = <<s[1], s[2], s[3]>> /\ DOMAIN s = 1..3
                   /\ s[1] \in Nat /\ s[2] \in Nat /\ s[3] \in Nat
  <2> SUFFICES ASSUME NEW s \in S
               PROVE  /\ s = <<s[1], s[2], s[3]>> /\ DOMAIN s = 1..3
                      /\ s[1] \in Nat /\ s[2] \in Nat /\ s[3] \in Nat
    OBVIOUS
  <2>1. PICK x, y, z \in Nat : s = <<x, y, z>>
    OBVIOUS
  <2> QED
    BY <2>1
<1>2. PICK x \in X : \A w \in X : x <= w
  <2>1. X \in SUBSET Nat /\ X # {}
    BY <1>1
  <2> QED
    BY <2>1, LeastOf
<1> DEFINE Y == {s[2] : s \in {t \in S : t[1] = x}}
<1>3. PICK y \in Y : \A w \in Y : y <= w
  <2>1. Y \in SUBSET Nat /\ Y # {}
    BY <1>1, <1>2
  <2> QED
    BY <2>1, LeastOf
<1> DEFINE Z == {s[3] : s \in {t \in S : t[1] = x /\ t[2] = y}}
<1>4. PICK z \in Z : \A w \in Z : z <= w
  <2>1. Z \in SUBSET Nat /\ Z # {}
    BY <1>1, <1>3
  <2> QED
    BY <2>1, LeastOf
<1>5. PICK s \in S : s[1] = x /\ s[2] = y /\ s[3] = z
  BY <1>4
<1>6. \A t \in S \ {s} : Before(s, t)
  <2> SUFFICES ASSUME NEW t \in S, t # s PROVE Before(s, t)
    OBVIOUS
  <2>1. /\ s[1] <= t[1] /\ s[1] \in Nat /\ t[1] \in Nat /\ s[2] \in Nat /\ t[2] \in Nat
        /\ s[3] \in Nat /\ t[3] \in Nat
    BY <1>1, <1>2, <1>5
  <2>2. CASE s[1] < t[1]
    <3>1. 1 \in DOMAIN s /\ \A j \in 1..(1 - 1) : s[j] = t[j]
      BY <1>1
    <3> QED
      BY <2>2, <3>1 DEF Before
  <2>3. CASE s[1] = t[1] /\ s[2] # t[2]
    <3>1. s[2] <= t[2]
      BY <1>3, <1>5, <2>3
    <3>2. 2 \in DOMAIN s /\ s[2] < t[2] /\ \A j \in 1..(2 - 1) : s[j] = t[j]
      BY <1>1, <2>1, <2>3, <3>1
    <3> QED
      BY <3>2 DEF Before
  <2>4. CASE s[1] = t[1] /\ s[2] = t[2]
    <3>1. s[3] <= t[3] /\ s[3] # t[3]
      BY <1>1, <1>4, <1>5, <2>4
    <3>2. 3 \in DOMAIN s /\ s[3] < t[3] /\ \A j \in 1..(3 - 1) : s[j] = t[j]
      <4>1. 1..(3 - 1) = {1, 2}
        OBVIOUS
      <4> QED
        BY <1>1, <2>1, <2>4, <3>1, <4>1
    <3> QED
      BY <3>2 DEF Before
  <2> QED
    BY <2>1, <2>2, <2>3, <2>4
<1> QED
  BY <1>6 DEF FirstOf

-----------------------------------------------------------------------------
(* The steps of announce.                                                  *)

(* One peer leaves the store.                                              *)
OnlyTaken(r, s, h, a) ==
    \A b : h \in DOMAIN r.peers /\ b \in DOMAIN r.peers[h] => b \in DOMAIN s.peers[h] /\ b # a
LEMMA Removed ==
    ASSUME NEW s, Agree(s), NEW h \in DOMAIN s.peers, NEW a \in DOMAIN s.peers[h],
           NEW r, r = remove(s, h, a)
    PROVE  /\ Agree(r) /\ Shrinks(r, s)
           /\ <<s.peers[h][a], h, a>> \in s.expiry
           /\ r.expiry = s.expiry \ {<<s.peers[h][a], h, a>>}
           /\ OnlyTaken(r, s, h, a)
<1> DEFINE group == s.peers[h]
           rest == Without(group, a)
           p == s.peers
           q == r.peers
           e0 == <<group[a], h, a>>
<1>1. /\ q = IF DOMAIN rest = {} THEN Without(p, h) ELSE With(p, h, rest)
      /\ r.expiry = s.expiry \ {e0}
      /\ r.hashes = (s.hashes \ {<<Latest(group), h>>})
                       \cup (IF DOMAIN rest = {} THEN {} ELSE {<<Latest(rest), h>>})
  BY DEF remove
<1>2. DOMAIN rest = DOMAIN group \ {a} /\ \A b \in DOMAIN rest : rest[b] = group[b]
  BY DEF Without
<1>3. /\ DOMAIN q = IF DOMAIN rest = {} THEN DOMAIN p \ {h} ELSE DOMAIN p
      /\ \A k \in DOMAIN q : k # h => q[k] = p[k]
      /\ h \in DOMAIN q => q[h] = rest /\ DOMAIN rest # {}
  <2>1. CASE DOMAIN rest = {}
    BY <1>1, <2>1 DEF Without
  <2>2. CASE DOMAIN rest # {}
    BY <1>1, <2>2 DEF With
  <2> QED
    BY <2>1, <2>2
<1>4. \A k \in DOMAIN p : IsGroup(p[k])
  BY DEF Agree
<1>5. DOMAIN rest # {} => IsGroup(rest)
  <2>1. IsGroup(group)
    BY <1>4
  <2>2. rest = [b \in DOMAIN group \ {a} |-> group[b]]
    BY DEF Without
  <2> QED
    BY <1>2, <2>1, <2>2 DEF IsGroup
<1> HIDE DEF rest
<1>6. DOMAIN q \subseteq Hashes /\ \A k \in DOMAIN q : IsGroup(q[k])
  BY <1>3, <1>4, <1>5 DEF Agree
<1>7. r.expiry = Entries(q)
  <2>1. s.expiry = Entries(p)
    BY DEF Agree
  <2>2. ASSUME NEW e \in Entries(q) PROVE e \in s.expiry /\ e # e0
    <3>1. PICK k \in DOMAIN q : \E b \in DOMAIN q[k] : e = <<q[k][b], k, b>>
      BY <2>2, Entry
    <3>2. PICK b \in DOMAIN q[k] : e = <<q[k][b], k, b>>
      BY <3>1
    <3>3. k \in DOMAIN p /\ b \in DOMAIN p[k] /\ q[k][b] = p[k][b] /\ (k # h \/ b # a)
      BY <1>2, <1>3
    <3> QED
      BY <2>1, <3>2, <3>3, Entry
  <2>3. ASSUME NEW e \in s.expiry, e # e0 PROVE e \in Entries(q)
    <3>1. PICK k \in DOMAIN p : \E b \in DOMAIN p[k] : e = <<p[k][b], k, b>>
      BY <2>1, <2>3, Entry
    <3>2. PICK b \in DOMAIN p[k] : e = <<p[k][b], k, b>>
      BY <3>1
    <3>3. k = h => b # a
      BY <2>3, <3>2
    <3>4. k \in DOMAIN q /\ b \in DOMAIN q[k] /\ q[k][b] = p[k][b]
      BY <1>2, <1>3, <3>3
    <3> QED
      BY <3>2, <3>4, Entry
  <2> QED
    BY <1>1, <2>2, <2>3
<1>8. r.hashes = LatestOf(q)
  <2>1. s.hashes = LatestOf(p)
    BY DEF Agree
  <2>2. CASE DOMAIN rest = {}
    BY <1>1, <1>3, <2>1, <2>2 DEF LatestOf
  <2>3. CASE DOMAIN rest # {}
    <3>1. LatestOf(q) \subseteq (s.hashes \ {<<Latest(group), h>>}) \cup {<<Latest(rest), h>>}
      BY <1>3, <2>1, <2>3 DEF LatestOf
    <3>2. (s.hashes \ {<<Latest(group), h>>}) \cup {<<Latest(rest), h>>} \subseteq LatestOf(q)
      BY <1>3, <2>1, <2>3 DEF LatestOf
    <3> QED
      BY <1>1, <2>3, <3>1, <3>2
  <2> QED
    BY <2>2, <2>3
<1>9. IsFiniteSet(r.expiry)
  <2>1. IsFiniteSet(s.expiry)
    BY DEF Agree
  <2> QED
    BY <1>1, <2>1, FS_Subset
<1>10. e0 \in s.expiry
  <2>1. s.expiry = Entries(p)
    BY DEF Agree
  <2> QED
    BY <2>1, Entry
<1>11. Shrinks(r, s)
  BY <1>1, <1>2, <1>3 DEF Shrinks
<1>12. Agree(r)
  BY <1>6, <1>7, <1>8, <1>9 DEF Agree
<1>13. OnlyTaken(r, s, h, a)
  BY <1>2, <1>3 DEF OnlyTaken
<1> QED
  BY <1>1, <1>10, <1>11, <1>12, <1>13

(* A hash leaves it with all its peers.                                    *)
LEMMA HashRemoved ==
    ASSUME NEW s, Agree(s), NEW h \in DOMAIN s.peers, NEW r, r = RemoveHash(s, h)
    PROVE  Agree(r) /\ Shrinks(r, s) /\ DOMAIN r.peers = DOMAIN s.peers \ {h}
<1> DEFINE p == s.peers
           q == r.peers
<1>1. /\ q = Without(p, h) /\ r.expiry = {e \in s.expiry : e[2] # h}
      /\ r.hashes = s.hashes \ {<<Latest(p[h]), h>>}
  BY DEF RemoveHash
<1>2. DOMAIN q = DOMAIN p \ {h} /\ \A k \in DOMAIN q : q[k] = p[k]
  BY <1>1 DEF Without
<1>3. DOMAIN q \subseteq Hashes /\ \A k \in DOMAIN q : IsGroup(q[k])
  BY <1>2 DEF Agree
<1>4. r.expiry = Entries(q)
  <2>1. s.expiry = Entries(p)
    BY DEF Agree
  <2>2. ASSUME NEW e \in Entries(q) PROVE e \in s.expiry /\ e[2] # h
    <3>1. PICK k \in DOMAIN q : \E b \in DOMAIN q[k] : e = <<q[k][b], k, b>>
      BY <2>2, Entry
    <3>2. PICK b \in DOMAIN q[k] : e = <<q[k][b], k, b>>
      BY <3>1
    <3> QED
      BY <1>2, <2>1, <3>2, Entry
  <2>3. ASSUME NEW e \in s.expiry, e[2] # h PROVE e \in Entries(q)
    <3>1. PICK k \in DOMAIN p : \E b \in DOMAIN p[k] : e = <<p[k][b], k, b>>
      BY <2>1, <2>3, Entry
    <3>2. PICK b \in DOMAIN p[k] : e = <<p[k][b], k, b>>
      BY <3>1
    <3>3. k # h
      BY <2>3, <3>2
    <3> QED
      BY <1>2, <3>2, <3>3, Entry
  <2> QED
    BY <1>1, <2>2, <2>3
<1>5. r.hashes = LatestOf(q)
  <2>1. s.hashes = LatestOf(p)
    BY DEF Agree
  <2> QED
    BY <1>1, <1>2, <2>1 DEF LatestOf
<1>6. IsFiniteSet(r.expiry)
  <2>1. IsFiniteSet(s.expiry) /\ r.expiry \subseteq s.expiry
    BY <1>1 DEF Agree
  <2> QED
    BY <2>1, FS_Subset
<1>7. Shrinks(r, s)
  BY <1>1, <1>2 DEF Shrinks
<1> QED
  BY <1>2, <1>3, <1>4, <1>5, <1>6, <1>7 DEF Agree

(* expire takes out only what is due.                                      *)
LEMMA Expired ==
    ASSUME NEW s, Agree(s), clock \in Nat, NEW r, r = expire(s)
    PROVE  /\ Agree(r) /\ Shrinks(r, s)
           /\ \A h \in Hashes : contains_active_infohash(s, h) => contains_active_infohash(r, h)
<1> DEFINE p == s.peers
           q == r.peers
           gone == DueFirst(s)
           rest == [h \in DOMAIN p |->
                      [a \in {a \in DOMAIN p[h] : <<p[h][a], h, a>> \notin gone} |-> p[h][a]]]
           left == {h \in DOMAIN p : DOMAIN rest[h] # {}}
           touched == {e[2] : e \in gone}
<1>1. /\ q = [h \in left |-> rest[h]] /\ r.expiry = s.expiry \ gone
      /\ r.hashes = (s.hashes \ {<<Latest(p[h]), h>> : h \in touched})
                       \cup {<<Latest(rest[h]), h>> : h \in touched \cap left}
  BY DEF expire
<1>2. gone \subseteq s.expiry /\ \A e \in gone : e[1] <= clock
  BY DEF DueFirst
<1>3. s.expiry = Entries(p) /\ s.hashes = LatestOf(p) /\ \A h \in DOMAIN p : IsGroup(p[h])
  BY DEF Agree
<1>4. /\ \A h \in DOMAIN p : /\ DOMAIN rest[h] = {a \in DOMAIN p[h] : <<p[h][a], h, a>> \notin gone}
                             /\ \A a \in DOMAIN rest[h] : rest[h][a] = p[h][a]
      /\ DOMAIN q = left /\ \A h \in left : q[h] = rest[h]
  BY <1>1
<1>5. \A h \in left : IsGroup(rest[h])
  <2> SUFFICES ASSUME NEW h \in left PROVE IsGroup(rest[h])
    OBVIOUS
  <2>1. IsGroup(p[h]) /\ DOMAIN rest[h] # {} /\ DOMAIN rest[h] \subseteq DOMAIN p[h]
    BY <1>3, <1>4
  <2>2. rest[h] = [a \in DOMAIN rest[h] |-> p[h][a]]
    BY <1>4
  <2> HIDE DEF rest
  <2> QED
    BY <2>1, <2>2 DEF IsGroup
<1>6. ASSUME NEW h \in DOMAIN p \ touched PROVE h \in left /\ rest[h] = p[h]
  <2>1. \A a \in DOMAIN p[h] : <<p[h][a], h, a>> \notin gone
    <3> SUFFICES ASSUME NEW a \in DOMAIN p[h], <<p[h][a], h, a>> \in gone PROVE FALSE
      OBVIOUS
    <3>1. <<p[h][a], h, a>>[2] = h
      OBVIOUS
    <3> QED
      BY <1>6, <3>1
  <2>2. DOMAIN rest[h] = DOMAIN p[h]
    BY <1>4, <2>1
  <2>3. IsGroup(p[h])
    BY <1>3
  <2>4. p[h] = [a \in DOMAIN p[h] |-> p[h][a]] /\ DOMAIN p[h] # {}
    BY <2>3 DEF IsGroup
  <2>5. rest[h] = [a \in DOMAIN p[h] |-> p[h][a]]
    BY <2>2
  <2> QED
    BY <2>2, <2>4, <2>5
<1> HIDE DEF gone, rest, touched
<1>7. r.expiry = Entries(q)
  <2>1. ASSUME NEW e \in Entries(q) PROVE e \in s.expiry \ gone
    <3>1. PICK k \in DOMAIN q : \E b \in DOMAIN q[k] : e = <<q[k][b], k, b>>
      BY <2>1, Entry
    <3>2. PICK b \in DOMAIN q[k] : e = <<q[k][b], k, b>>
      BY <3>1
    <3>3. k \in DOMAIN p /\ b \in DOMAIN p[k] /\ q[k][b] = p[k][b] /\ <<p[k][b], k, b>> \notin gone
      BY <1>4
    <3> QED
      BY <1>3, <3>2, <3>3, Entry
  <2>2. ASSUME NEW e \in s.expiry, e \notin gone PROVE e \in Entries(q)
    <3>1. PICK k \in DOMAIN p : \E b \in DOMAIN p[k] : e = <<p[k][b], k, b>>
      BY <1>3, <2>2, Entry
    <3>2. PICK b \in DOMAIN p[k] : e = <<p[k][b], k, b>>
      BY <3>1
    <3>3. b \in DOMAIN rest[k] /\ rest[k][b] = p[k][b]
      BY <1>4, <2>2, <3>2
    <3>4. k \in DOMAIN q /\ q[k] = rest[k]
      BY <1>4, <3>3
    <3> QED
      BY <3>2, <3>3, <3>4, Entry
  <2> QED
    BY <1>1, <2>1, <2>2
<1>8. r.hashes = LatestOf(q)
  <2>1. ASSUME NEW x \in LatestOf(q) PROVE x \in r.hashes
    <3>1. PICK k \in DOMAIN q : x = <<Latest(q[k]), k>>
      BY <2>1 DEF LatestOf
    <3>2. k \in left /\ q[k] = rest[k] /\ k \in DOMAIN p
      BY <1>4
    <3>3. CASE k \in touched
      BY <1>1, <3>1, <3>2, <3>3
    <3>4. CASE k \notin touched
      <4>1. x = <<Latest(p[k]), k>> /\ x \in s.hashes
        BY <1>3, <1>6, <3>1, <3>2, <3>4 DEF LatestOf
      <4>2. x \notin {<<Latest(p[h]), h>> : h \in touched}
        BY <3>4, <4>1
      <4> QED
        BY <1>1, <4>1, <4>2
    <3> QED
      BY <3>3, <3>4
  <2>2. ASSUME NEW x \in r.hashes PROVE x \in LatestOf(q)
    <3>1. CASE x \in s.hashes /\ x \notin {<<Latest(p[h]), h>> : h \in touched}
      <4>1. PICK k \in DOMAIN p : x = <<Latest(p[k]), k>>
        BY <1>3, <3>1 DEF LatestOf
      <4>2. k \notin touched
        BY <3>1, <4>1
      <4>3. k \in left /\ rest[k] = p[k]
        BY <1>6, <4>2
      <4>4. k \in DOMAIN q /\ q[k] = p[k]
        BY <1>4, <4>3
      <4> QED
        BY <4>1, <4>4 DEF LatestOf
    <3>2. CASE x \in {<<Latest(rest[h]), h>> : h \in touched \cap left}
      BY <1>4, <3>2 DEF LatestOf
    <3> QED
      BY <1>1, <2>2, <3>1, <3>2
  <2> QED
    BY <2>1, <2>2
<1>9. IsFiniteSet(r.expiry)
  <2>1. IsFiniteSet(s.expiry) /\ r.expiry \subseteq s.expiry
    BY <1>1 DEF Agree
  <2> QED
    BY <2>1, FS_Subset
<1>10. DOMAIN q \subseteq Hashes /\ \A k \in DOMAIN q : IsGroup(q[k])
  BY <1>4, <1>5 DEF Agree
<1>11. Shrinks(r, s)
  BY <1>1, <1>4 DEF Shrinks
<1>12. ASSUME NEW h \in Hashes, contains_active_infohash(s, h)
       PROVE  contains_active_infohash(r, h)
  <2>1. PICK a \in DOMAIN p[h] : h \in DOMAIN p /\ p[h][a] > clock
    BY <1>12 DEF contains_active_infohash
  <2>2. p[h][a] \in Nat
    <3>1. IsGroup(p[h])
      BY <1>3, <2>1
    <3>2. p[h][a] \in Deadlines
      BY <2>1, <3>1 DEF IsGroup
    <3> QED
      BY <3>2 DEF Deadlines
  <2>3. ASSUME <<p[h][a], h, a>> \in gone PROVE FALSE
    <3>1. <<p[h][a], h, a>>[1] <= clock
      BY <1>2, <2>3
    <3>2. p[h][a] <= clock
      BY <3>1
    <3> QED
      BY <2>1, <2>2, <3>2
  <2>4. a \in DOMAIN rest[h] /\ rest[h][a] = p[h][a]
    BY <1>4, <2>1, <2>3
  <2>5. h \in DOMAIN q /\ q[h] = rest[h]
    BY <1>4, <2>1, <2>4
  <2> QED
    BY <2>1, <2>4, <2>5 DEF contains_active_infohash
<1>13. Agree(r)
  BY <1>7, <1>8, <1>9, <1>10 DEF Agree
<1> QED
  BY <1>11, <1>12, <1>13

(* A peer comes in that was not there.                                     *)
LEMMA Inserted ==
    ASSUME NEW s, Agree(s), clock \in 0..MaxClock, NEW h \in Hashes, NEW a \in Endpoints,
           h \in DOMAIN s.peers => a \notin DOMAIN s.peers[h],
           NEW r, r = Insert(s, h, a)
    PROVE  /\ Agree(r)
           /\ DOMAIN r.peers = DOMAIN s.peers \cup {h}
           /\ \A k \in DOMAIN s.peers : k # h => r.peers[k] = s.peers[k]
           /\ DOMAIN r.peers[h] = (IF h \in DOMAIN s.peers THEN DOMAIN s.peers[h] ELSE {}) \cup {a}
           /\ \E e : r.expiry = s.expiry \cup {e}
<1> DEFINE p == s.peers
           q == r.peers
           group == IF h \in DOMAIN p THEN p[h] ELSE [x \in {} |-> 0]
           grown == With(group, a, clock + ttl)
           old == IF DOMAIN group = {} THEN {} ELSE {<<Latest(group), h>>}
           e0 == <<clock + ttl, h, a>>
<1>1. /\ q = With(p, h, grown) /\ r.expiry = s.expiry \cup {e0}
      /\ r.hashes = (s.hashes \ old) \cup {<<Latest(grown), h>>}
  BY DEF Insert
<1>2. s.expiry = Entries(p) /\ s.hashes = LatestOf(p) /\ \A k \in DOMAIN p : IsGroup(p[k])
  BY DEF Agree
<1>3. /\ h \in DOMAIN p => group = p[h] /\ DOMAIN group # {}
      /\ h \notin DOMAIN p => DOMAIN group = {}
      /\ DOMAIN group \subseteq Endpoints /\ a \notin DOMAIN group
      /\ \A b \in DOMAIN group : group[b] \in Deadlines
  <2>1. CASE h \in DOMAIN p
    <3>1. group = p[h] /\ IsGroup(p[h])
      BY <1>2, <2>1
    <3> QED
      BY <2>1, <3>1 DEF IsGroup
  <2>2. CASE h \notin DOMAIN p
    BY <2>2
  <2> QED
    BY <2>1, <2>2
<1> HIDE DEF group
<1>4. /\ DOMAIN grown = DOMAIN group \cup {a} /\ grown[a] = clock + ttl
      /\ \A b \in DOMAIN group : grown[b] = group[b]
      /\ grown = [b \in DOMAIN group \cup {a} |-> grown[b]]
  BY <1>3 DEF With
<1>5. IsGroup(grown)
  <2>1. clock + ttl \in Deadlines
    BY StoreAssumption DEF Deadlines
  <2>2. \A b \in DOMAIN grown : grown[b] \in Deadlines
    BY <1>3, <1>4, <2>1
  <2> HIDE DEF grown
  <2> QED
    BY <1>3, <1>4, <2>2 DEF IsGroup
<1> HIDE DEF grown
<1>6. /\ DOMAIN q = DOMAIN p \cup {h} /\ q[h] = grown
      /\ \A k \in DOMAIN p : k # h => q[k] = p[k]
  BY <1>1 DEF With
<1>7. r.expiry = Entries(q)
  <2>1. ASSUME NEW e \in Entries(q) PROVE e \in s.expiry \cup {e0}
    <3>1. PICK k \in DOMAIN q : \E b \in DOMAIN q[k] : e = <<q[k][b], k, b>>
      BY <2>1, Entry
    <3>2. PICK b \in DOMAIN q[k] : e = <<q[k][b], k, b>>
      BY <3>1
    <3>3. CASE k = h /\ b = a
      BY <1>4, <1>6, <3>2, <3>3
    <3>4. CASE ~(k = h /\ b = a)
      <4>1. k \in DOMAIN p /\ b \in DOMAIN p[k] /\ q[k][b] = p[k][b]
        BY <1>3, <1>4, <1>6, <3>4
      <4> QED
        BY <1>2, <3>2, <4>1, Entry
    <3> QED
      BY <3>3, <3>4
  <2>2. ASSUME NEW e \in s.expiry PROVE e \in Entries(q)
    <3>1. PICK k \in DOMAIN p : \E b \in DOMAIN p[k] : e = <<p[k][b], k, b>>
      BY <1>2, <2>2, Entry
    <3>2. PICK b \in DOMAIN p[k] : e = <<p[k][b], k, b>>
      BY <3>1
    <3>3. k \in DOMAIN q /\ b \in DOMAIN q[k] /\ q[k][b] = p[k][b]
      BY <1>3, <1>4, <1>6
    <3> QED
      BY <3>2, <3>3, Entry
  <2>3. e0 \in Entries(q)
    <3>1. h \in DOMAIN q /\ a \in DOMAIN q[h] /\ q[h][a] = clock + ttl
      BY <1>4, <1>6
    <3> QED
      BY <3>1, Entry
  <2> QED
    BY <1>1, <2>1, <2>2, <2>3
<1>8. r.hashes = LatestOf(q)
  <2>1. CASE h \in DOMAIN p
    <3>1. old = {<<Latest(p[h]), h>>}
      BY <1>3, <2>1
    <3>2. LatestOf(q) \subseteq (s.hashes \ old) \cup {<<Latest(grown), h>>}
      BY <1>2, <1>6, <2>1, <3>1 DEF LatestOf
    <3>3. (s.hashes \ old) \cup {<<Latest(grown), h>>} \subseteq LatestOf(q)
      BY <1>2, <1>6, <2>1, <3>1 DEF LatestOf
    <3> QED
      BY <1>1, <3>2, <3>3
  <2>2. CASE h \notin DOMAIN p
    <3>1. old = {}
      BY <1>3, <2>2
    <3>2. LatestOf(q) = s.hashes \cup {<<Latest(grown), h>>}
      BY <1>2, <1>6, <2>2 DEF LatestOf
    <3> QED
      BY <1>1, <3>1, <3>2
  <2> QED
    BY <2>1, <2>2
<1>9. IsFiniteSet(r.expiry)
  <2>1. IsFiniteSet(s.expiry)
    BY DEF Agree
  <2> HIDE DEF e0
  <2>2. IsFiniteSet(s.expiry \cup {e0})
    BY <2>1, FS_AddElement
  <2> QED
    BY <1>1, <2>2
<1>10. DOMAIN q \subseteq Hashes /\ \A k \in DOMAIN q : IsGroup(q[k])
  BY <1>2, <1>5, <1>6 DEF Agree
<1>11. Agree(r)
  BY <1>7, <1>8, <1>9, <1>10 DEF Agree
<1>12. DOMAIN q[h] = (IF h \in DOMAIN p THEN DOMAIN p[h] ELSE {}) \cup {a}
  BY <1>3, <1>4, <1>6
<1> QED
  BY <1>1, <1>6, <1>11, <1>12

-----------------------------------------------------------------------------
(* What is evicted is in the store, and each eviction makes room.          *)

LEMMA FirstHash ==
    ASSUME NEW s, Agree(s), DOMAIN s.peers # {}
    PROVE  FirstOf(s.hashes)[2] \in DOMAIN s.peers
<1>1. s.hashes = LatestOf(s.peers) /\ s.hashes # {}
  BY DEF Agree, LatestOf
<1>2. \A x \in s.hashes : \E h \in DOMAIN s.peers : x = <<Latest(s.peers[h]), h>>
  BY <1>1 DEF LatestOf
<1>3. \A h \in DOMAIN s.peers : Latest(s.peers[h]) \in Nat /\ h \in Nat
  BY LatestIs, StoreAssumption DEF Agree
<1>4. \A x \in s.hashes : \E y, z \in Nat : x = <<y, z>>
  BY <1>2, <1>3
<1>5. FirstOf(s.hashes) \in s.hashes
  BY <1>1, <1>4, FirstPair
<1> QED
  BY <1>2, <1>5

LEMMA GroupNumbers ==
    ASSUME NEW g, IsGroup(g), NEW a \in DOMAIN g
    PROVE  a \in Nat /\ g[a] \in Nat
<1>1. a \in Endpoints /\ g[a] \in Deadlines
  BY DEF IsGroup
<1> QED
  BY <1>1, StoreAssumption DEF Deadlines

LEMMA FirstEntry ==
    ASSUME NEW s, Agree(s), s.expiry # {}
    PROVE  /\ FirstOf(s.expiry)[2] \in DOMAIN s.peers
           /\ FirstOf(s.expiry)[3] \in DOMAIN s.peers[FirstOf(s.expiry)[2]]
<1>1. s.expiry = Entries(s.peers)
  BY DEF Agree
<1>2. \A h \in DOMAIN s.peers : h \in Nat /\ \A a \in DOMAIN s.peers[h] : a \in Nat /\ s.peers[h][a] \in Nat
  BY StoreAssumption, GroupNumbers DEF Agree
<1>3. \A x \in s.expiry : \E u, v, w \in Nat : x = <<u, v, w>>
  BY <1>1, <1>2, Entry
<1>4. FirstOf(s.expiry) \in s.expiry
  BY <1>3, FirstTriple
<1>5. PICK h \in DOMAIN s.peers : \E a \in DOMAIN s.peers[h] : FirstOf(s.expiry) = <<s.peers[h][a], h, a>>
  BY <1>1, <1>4, Entry
<1>6. PICK a \in DOMAIN s.peers[h] : FirstOf(s.expiry) = <<s.peers[h][a], h, a>>
  BY <1>5
<1>7. FirstOf(s.expiry)[2] = h /\ FirstOf(s.expiry)[3] = a
  BY <1>6
<1> QED
  BY <1>7

LEMMA FirstPeer ==
    ASSUME NEW s, Agree(s), NEW h \in DOMAIN s.peers
    PROVE  FirstOf({<<s.peers[h][a], a>> : a \in DOMAIN s.peers[h]})[2] \in DOMAIN s.peers[h]
<1> DEFINE g == s.peers[h]
           S == {<<g[a], a>> : a \in DOMAIN g}
<1>1. IsGroup(g)
  BY DEF Agree
<1>2. S # {} /\ \A a \in DOMAIN g : a \in Nat /\ g[a] \in Nat
  BY <1>1, GroupNumbers DEF IsGroup
<1>3. \A x \in S : \E y, z \in Nat : x = <<y, z>>
  BY <1>2
<1>4. FirstOf(S) \in S
  BY <1>2, <1>3, FirstPair
<1>5. PICK a \in DOMAIN g : FirstOf(S) = <<g[a], a>>
  BY <1>4
<1> HIDE DEF S
<1>6. FirstOf(S)[2] = a
  BY <1>5
<1> QED
  BY <1>6 DEF S

Limits(s) ==
    /\ Cardinality(DOMAIN s.peers) <= max_hashes /\ Cardinality(s.expiry) <= max_peers
    /\ \A h \in DOMAIN s.peers : Cardinality(DOMAIN s.peers[h]) <= max_peers_per_hash
PeersOf(s, h) == IF h \in DOMAIN s.peers THEN DOMAIN s.peers[h] ELSE {}

LEMMA FiniteParts ==
    ASSUME NEW s, Agree(s), NEW h
    PROVE  /\ IsFiniteSet(DOMAIN s.peers) /\ IsFiniteSet(PeersOf(s, h)) /\ IsFiniteSet(s.expiry)
           /\ Cardinality(DOMAIN s.peers) \in Nat /\ Cardinality(PeersOf(s, h)) \in Nat
           /\ Cardinality(s.expiry) \in Nat
<1>1. IsFiniteSet(DOMAIN s.peers)
  <2>1. DOMAIN s.peers \subseteq Hashes /\ IsFiniteSet(Hashes)
    BY StoreAssumption DEF Agree
  <2> QED
    BY <2>1, FS_Subset
<1>2. IsFiniteSet(PeersOf(s, h))
  <2>1. PeersOf(s, h) \subseteq Endpoints /\ IsFiniteSet(Endpoints)
    BY StoreAssumption DEF Agree, IsGroup, PeersOf
  <2> QED
    BY <2>1, FS_Subset
<1>3. IsFiniteSet(s.expiry)
  BY DEF Agree
<1> QED
  BY <1>1, <1>2, <1>3, FS_CardinalityType

(* Removing never breaks a limit, nor takes back room that was made.       *)
LEMMA StillFits ==
    ASSUME NEW s, NEW r, Agree(s), Agree(r), Shrinks(r, s), NEW h, NEW a
    PROVE  /\ Limits(s) => Limits(r)
           /\ PeersOf(r, h) \subseteq PeersOf(s, h)
           /\ Cardinality(r.expiry) <= Cardinality(s.expiry)
           /\ \A n \in Nat : Cardinality(DOMAIN s.peers \cup {h}) <= n
                                => Cardinality(DOMAIN r.peers \cup {h}) <= n
           /\ \A n \in Nat : Cardinality(PeersOf(s, h) \cup {a}) <= n
                                => Cardinality(PeersOf(r, h) \cup {a}) <= n
<1>1. \A k : PeersOf(r, k) \subseteq PeersOf(s, k)
  BY DEF Shrinks, PeersOf
<1>2. DOMAIN r.peers \subseteq DOMAIN s.peers /\ r.expiry \subseteq s.expiry
  BY DEF Shrinks
<1>3. /\ Cardinality(DOMAIN r.peers) <= Cardinality(DOMAIN s.peers)
      /\ Cardinality(DOMAIN r.peers) \in Nat /\ Cardinality(DOMAIN s.peers) \in Nat
  <2>1. IsFiniteSet(DOMAIN s.peers)
    BY FiniteParts
  <2>2. Cardinality(DOMAIN r.peers) <= Cardinality(DOMAIN s.peers)
    BY <1>2, <2>1, FS_Subset
  <2> QED
    BY <2>2, FiniteParts
<1>4. /\ Cardinality(r.expiry) <= Cardinality(s.expiry)
      /\ Cardinality(r.expiry) \in Nat /\ Cardinality(s.expiry) \in Nat
  <2>1. IsFiniteSet(s.expiry)
    BY FiniteParts
  <2>2. Cardinality(r.expiry) <= Cardinality(s.expiry)
    BY <1>2, <2>1, FS_Subset
  <2> QED
    BY <2>2, FiniteParts
<1>5. \A k : /\ Cardinality(PeersOf(r, k)) <= Cardinality(PeersOf(s, k))
             /\ Cardinality(PeersOf(r, k)) \in Nat /\ Cardinality(PeersOf(s, k)) \in Nat
  <2> SUFFICES ASSUME NEW k
               PROVE  /\ Cardinality(PeersOf(r, k)) <= Cardinality(PeersOf(s, k))
                      /\ Cardinality(PeersOf(r, k)) \in Nat /\ Cardinality(PeersOf(s, k)) \in Nat
    OBVIOUS
  <2>1. IsFiniteSet(PeersOf(s, k)) /\ PeersOf(r, k) \subseteq PeersOf(s, k)
    BY <1>1, FiniteParts
  <2>2. Cardinality(PeersOf(r, k)) <= Cardinality(PeersOf(s, k))
    BY <2>1, FS_Subset
  <2> QED
    BY <2>2, FiniteParts
<1>6. Limits(s) => Limits(r)
  <2> SUFFICES ASSUME Limits(s) PROVE Limits(r)
    OBVIOUS
  <2>1. Cardinality(DOMAIN r.peers) <= max_hashes /\ Cardinality(r.expiry) <= max_peers
    BY <1>3, <1>4, StoreAssumption DEF Limits
  <2>2. ASSUME NEW k \in DOMAIN r.peers PROVE Cardinality(DOMAIN r.peers[k]) <= max_peers_per_hash
    <3>1. k \in DOMAIN s.peers /\ PeersOf(r, k) = DOMAIN r.peers[k] /\ PeersOf(s, k) = DOMAIN s.peers[k]
      BY <1>2 DEF PeersOf
    <3>2. Cardinality(PeersOf(s, k)) <= max_peers_per_hash
      BY <3>1 DEF Limits
    <3> QED
      BY <1>5, <3>1, <3>2, StoreAssumption
  <2> QED
    BY <2>1, <2>2 DEF Limits
<1>7. ASSUME NEW A, NEW B, A \subseteq B, IsFiniteSet(B), NEW x, NEW n \in Nat,
             Cardinality(B \cup {x}) <= n
      PROVE  Cardinality(A \cup {x}) <= n
  <2>1. IsFiniteSet(B \cup {x})
    BY <1>7, FS_AddElement
  <2>2. A \cup {x} \subseteq B \cup {x}
    BY <1>7
  <2>3. IsFiniteSet(A \cup {x}) /\ Cardinality(A \cup {x}) <= Cardinality(B \cup {x})
    BY <2>1, <2>2, FS_Subset
  <2>4. Cardinality(A \cup {x}) \in Nat
    BY <2>3, FS_CardinalityType
  <2>5. Cardinality(B \cup {x}) \in Nat
    BY <2>1, FS_CardinalityType
  <2> QED
    BY <1>7, <2>3, <2>4, <2>5
<1>8. IsFiniteSet(DOMAIN s.peers) /\ IsFiniteSet(PeersOf(s, h))
  BY FiniteParts
<1>9. \A n \in Nat : Cardinality(DOMAIN s.peers \cup {h}) <= n
                        => Cardinality(DOMAIN r.peers \cup {h}) <= n
  BY <1>2, <1>7, <1>8
<1>10. \A n \in Nat : Cardinality(PeersOf(s, h) \cup {a}) <= n
                        => Cardinality(PeersOf(r, h) \cup {a}) <= n
  BY <1>1, <1>7, <1>8
<1> QED
  BY <1>1, <1>4, <1>6, <1>9, <1>10

LEMMA ShrinksItself == \A s : Shrinks(s, s)
  BY DEF Shrinks

(* Renewal takes out the peer that comes in again.                         *)
LEMMA RenewedStep ==
    ASSUME NEW s, Agree(s), Limits(s), NEW h, NEW a, NEW r, r = Renewed(s, h, a)
    PROVE  Agree(r) /\ Limits(r) /\ a \notin PeersOf(r, h)
<1>1. CASE h \in DOMAIN s.peers /\ a \in DOMAIN s.peers[h]
  <2>1. r = remove(s, h, a)
    BY <1>1 DEF Renewed
  <2>2. Agree(r) /\ Shrinks(r, s) /\ OnlyTaken(r, s, h, a)
    BY <1>1, <2>1, Removed
  <2>3. a \notin PeersOf(r, h)
    BY <2>2 DEF PeersOf, OnlyTaken
  <2> QED
    BY <2>2, <2>3, StillFits
<1>2. CASE ~(h \in DOMAIN s.peers /\ a \in DOMAIN s.peers[h])
  BY <1>2 DEF Renewed, PeersOf
<1> QED
  BY <1>1, <1>2

(* A new hash finds a place.                                               *)
LEMMA HashEvictedStep ==
    ASSUME NEW s, Agree(s), Limits(s), NEW h, NEW a, a \notin PeersOf(s, h), NEW r, r = HashEvicted(s, h)
    PROVE  /\ Agree(r) /\ Limits(r) /\ a \notin PeersOf(r, h)
           /\ Cardinality(DOMAIN r.peers \cup {h}) <= max_hashes
<1> DEFINE D == DOMAIN s.peers
           N == Cardinality(D)
<1>1. IsFiniteSet(D) /\ N \in Nat /\ N <= max_hashes /\ max_hashes \in Nat \ {0}
  BY FiniteParts, StoreAssumption DEF Limits
<1>2. Cardinality(D \cup {h}) = IF h \in D THEN N ELSE N + 1
  BY <1>1, FS_AddElement
<1>3. CASE h \in D \/ ~(N >= max_hashes)
  <2>1. r = s
    BY <1>3 DEF HashEvicted
  <2>2. Cardinality(D \cup {h}) <= max_hashes
    BY <1>1, <1>2, <1>3
  <2> QED
    BY <2>1, <2>2
<1>4. CASE h \notin D /\ N >= max_hashes
  <2> DEFINE k == FirstOf(s.hashes)[2]
  <2>1. r = RemoveHash(s, k)
    BY <1>4 DEF HashEvicted
  <2>2. D # {}
    BY <1>1, <1>4, FS_EmptySet
  <2>3. k \in D
    BY <2>2, FirstHash
  <2> HIDE DEF k
  <2>4. Agree(r) /\ Shrinks(r, s) /\ DOMAIN r.peers = D \ {k}
    BY <2>1, <2>3, HashRemoved
  <2>5. IsFiniteSet(D \ {k}) /\ Cardinality(D \ {k}) = N - 1
    BY <1>1, <2>3, FS_RemoveElement
  <2>6. Cardinality((D \ {k}) \cup {h}) = IF h \in D \ {k} THEN N - 1 ELSE (N - 1) + 1
    BY <2>5, FS_AddElement
  <2>7. Cardinality(DOMAIN r.peers \cup {h}) <= max_hashes
    BY <1>1, <2>4, <2>6
  <2>8. Limits(r) /\ PeersOf(r, h) \subseteq PeersOf(s, h)
    BY <2>4, StillFits
  <2> QED
    BY <2>4, <2>7, <2>8
<1> QED
  BY <1>3, <1>4

(* A new peer finds a place in its group.                                  *)
LEMMA PeerEvictedStep ==
    ASSUME NEW s, Agree(s), Limits(s), NEW h, NEW a, a \notin PeersOf(s, h),
           Cardinality(DOMAIN s.peers \cup {h}) <= max_hashes, NEW r, r = PeerEvicted(s, h)
    PROVE  /\ Agree(r) /\ Limits(r) /\ a \notin PeersOf(r, h)
           /\ Cardinality(DOMAIN r.peers \cup {h}) <= max_hashes
           /\ Cardinality(PeersOf(r, h) \cup {a}) <= max_peers_per_hash
<1> DEFINE D == PeersOf(s, h)
           N == Cardinality(D)
<1>1. IsFiniteSet(D) /\ N \in Nat /\ max_peers_per_hash \in Nat \ {0} /\ max_hashes \in Nat
  BY FiniteParts, StoreAssumption
<1>2. Cardinality(D \cup {a}) = N + 1
  BY <1>1, FS_AddElement
<1>3. CASE ~(h \in DOMAIN s.peers /\ Cardinality(DOMAIN s.peers[h]) >= max_peers_per_hash)
  <2>1. r = s
    BY <1>3 DEF PeerEvicted
  <2>2. ~(N >= max_peers_per_hash)
    <3>1. CASE h \in DOMAIN s.peers
      BY <1>3, <3>1 DEF PeersOf
    <3>2. CASE h \notin DOMAIN s.peers
      <4>1. N = 0
        BY <3>2, FS_EmptySet DEF PeersOf
      <4> QED
        BY <1>1, <4>1
    <3> QED
      BY <3>1, <3>2
  <2>3. Cardinality(D \cup {a}) <= max_peers_per_hash
    BY <1>1, <1>2, <2>2
  <2> QED
    BY <2>1, <2>3
<1>4. CASE h \in DOMAIN s.peers /\ Cardinality(DOMAIN s.peers[h]) >= max_peers_per_hash
  <2> DEFINE b == FirstOf({<<s.peers[h][x], x>> : x \in DOMAIN s.peers[h]})[2]
  <2>1. r = remove(s, h, b)
    BY <1>4 DEF PeerEvicted
  <2>2. b \in DOMAIN s.peers[h] /\ D = DOMAIN s.peers[h] /\ h \in DOMAIN s.peers
    BY <1>4, FirstPeer DEF PeersOf
  <2> HIDE DEF b
  <2>3. Agree(r) /\ Shrinks(r, s) /\ OnlyTaken(r, s, h, b)
    BY <2>1, <2>2, Removed
  <2>4. PeersOf(r, h) \subseteq D \ {b}
    BY <2>2, <2>3 DEF PeersOf, OnlyTaken
  <2>5. IsFiniteSet(D \ {b}) /\ Cardinality(D \ {b}) = N - 1
    BY <1>1, <2>2, FS_RemoveElement
  <2>6. N <= max_peers_per_hash
    BY <2>2 DEF Limits
  <2>7. Cardinality((D \ {b}) \cup {a}) = N /\ IsFiniteSet((D \ {b}) \cup {a})
    <3>1. /\ IsFiniteSet((D \ {b}) \cup {a})
          /\ Cardinality((D \ {b}) \cup {a}) = IF a \in D \ {b} THEN N - 1 ELSE (N - 1) + 1
      BY <2>5, FS_AddElement
    <3> QED
      BY <1>1, <3>1
  <2>8. PeersOf(r, h) \cup {a} \subseteq (D \ {b}) \cup {a}
    BY <2>4
  <2>9. Cardinality(PeersOf(r, h) \cup {a}) <= N /\ IsFiniteSet(PeersOf(r, h) \cup {a})
    BY <2>7, <2>8, FS_Subset
  <2>10. Cardinality(PeersOf(r, h) \cup {a}) \in Nat
    BY <2>9, FS_CardinalityType
  <2>11. Cardinality(PeersOf(r, h) \cup {a}) <= max_peers_per_hash
    BY <1>1, <2>6, <2>9, <2>10
  <2>12. Limits(r) /\ Cardinality(DOMAIN r.peers \cup {h}) <= max_hashes
    BY <1>1, <2>3, StillFits
  <2> QED
    BY <2>3, <2>4, <2>11, <2>12
<1> QED
  BY <1>3, <1>4

(* And a place in the whole.                                               *)
LEMMA OldestEvictedStep ==
    ASSUME NEW s, Agree(s), Limits(s), NEW h, NEW a, a \notin PeersOf(s, h),
           Cardinality(DOMAIN s.peers \cup {h}) <= max_hashes,
           Cardinality(PeersOf(s, h) \cup {a}) <= max_peers_per_hash,
           NEW r, r = OldestEvicted(s)
    PROVE  /\ Agree(r) /\ Limits(r) /\ a \notin PeersOf(r, h)
           /\ Cardinality(DOMAIN r.peers \cup {h}) <= max_hashes
           /\ Cardinality(PeersOf(r, h) \cup {a}) <= max_peers_per_hash
           /\ Cardinality(r.expiry) < max_peers
<1> DEFINE E == s.expiry
           N == Cardinality(E)
<1>1. /\ IsFiniteSet(E) /\ N \in Nat /\ N <= max_peers /\ max_peers \in Nat \ {0}
      /\ max_hashes \in Nat /\ max_peers_per_hash \in Nat
  BY FiniteParts, StoreAssumption DEF Limits
<1>2. CASE ~(N >= max_peers)
  <2>1. r = s
    BY <1>2 DEF OldestEvicted
  <2>2. N < max_peers
    BY <1>1, <1>2
  <2> QED
    BY <2>1, <2>2
<1>3. CASE N >= max_peers
  <2> DEFINE k == FirstOf(s.expiry)[2]
             b == FirstOf(s.expiry)[3]
  <2>1. r = remove(s, k, b)
    BY <1>3 DEF OldestEvicted
  <2>2. E # {}
    BY <1>1, <1>3, FS_EmptySet
  <2>3. k \in DOMAIN s.peers /\ b \in DOMAIN s.peers[k]
    BY <2>2, FirstEntry
  <2> HIDE DEF k, b
  <2> DEFINE e == <<s.peers[k][b], k, b>>
  <2>4. Agree(r) /\ Shrinks(r, s) /\ e \in E /\ r.expiry = E \ {e}
    BY <2>1, <2>3, Removed
  <2> HIDE DEF e
  <2>5. Cardinality(E \ {e}) = N - 1
    BY <1>1, <2>4, FS_RemoveElement
  <2>6. Cardinality(r.expiry) < max_peers
    BY <1>1, <2>4, <2>5
  <2>7. /\ Limits(r) /\ PeersOf(r, h) \subseteq PeersOf(s, h)
        /\ Cardinality(DOMAIN r.peers \cup {h}) <= max_hashes
        /\ Cardinality(PeersOf(r, h) \cup {a}) <= max_peers_per_hash
    BY <1>1, <2>4, StillFits
  <2> QED
    BY <2>4, <2>6, <2>7
<1> QED
  BY <1>2, <1>3

LEMMA AnnounceStep ==
    ASSUME Agree(store), Limits(store), clock \in 0..MaxClock,
           NEW h \in Hashes, NEW a \in Endpoints, announce(h, a)
    PROVE  Agree(store') /\ Limits(store')
<1> DEFINE s0 == expire(store)
           s1 == Renewed(s0, h, a)
           s2 == HashEvicted(s1, h)
           s3 == PeerEvicted(s2, h)
           s4 == OldestEvicted(s3)
<1>1. store' = Insert(s4, h, a)
  BY DEF announce
<1>2. Agree(s0) /\ Limits(s0)
  <2>1. clock \in Nat
    BY StoreAssumption
  <2>2. Agree(s0) /\ Shrinks(s0, store)
    BY <2>1, Expired
  <2> QED
    BY <2>2, StillFits
<1> HIDE DEF s0
<1>3. Agree(s1) /\ Limits(s1) /\ a \notin PeersOf(s1, h)
  BY <1>2, RenewedStep
<1> HIDE DEF s1
<1>4. /\ Agree(s2) /\ Limits(s2) /\ a \notin PeersOf(s2, h)
      /\ Cardinality(DOMAIN s2.peers \cup {h}) <= max_hashes
  BY <1>3, HashEvictedStep
<1> HIDE DEF s2
<1>5. /\ Agree(s3) /\ Limits(s3) /\ a \notin PeersOf(s3, h)
      /\ Cardinality(DOMAIN s3.peers \cup {h}) <= max_hashes
      /\ Cardinality(PeersOf(s3, h) \cup {a}) <= max_peers_per_hash
  BY <1>4, PeerEvictedStep
<1> HIDE DEF s3
<1>6. /\ Agree(s4) /\ Limits(s4) /\ a \notin PeersOf(s4, h)
      /\ Cardinality(DOMAIN s4.peers \cup {h}) <= max_hashes
      /\ Cardinality(PeersOf(s4, h) \cup {a}) <= max_peers_per_hash
      /\ Cardinality(s4.expiry) < max_peers
  BY <1>5, OldestEvictedStep
<1> HIDE DEF s4
<1>7. /\ Agree(store')
      /\ DOMAIN store'.peers = DOMAIN s4.peers \cup {h}
      /\ \A k \in DOMAIN s4.peers : k # h => store'.peers[k] = s4.peers[k]
      /\ DOMAIN store'.peers[h] = PeersOf(s4, h) \cup {a}
      /\ \E e : store'.expiry = s4.expiry \cup {e}
  BY <1>1, <1>6, Inserted DEF PeersOf
<1>8. PICK e : store'.expiry = s4.expiry \cup {e}
  BY <1>7
<1>9. IsFiniteSet(s4.expiry) /\ Cardinality(s4.expiry) \in Nat
  BY <1>6, FiniteParts
<1>10. Cardinality(store'.expiry) = IF e \in s4.expiry THEN Cardinality(s4.expiry) ELSE Cardinality(s4.expiry) + 1
  BY <1>8, <1>9, FS_AddElement
<1>11. Cardinality(store'.expiry) <= max_peers
  BY <1>6, <1>9, <1>10, StoreAssumption
<1>12. \A k \in DOMAIN store'.peers : Cardinality(DOMAIN store'.peers[k]) <= max_peers_per_hash
  BY <1>6, <1>7 DEF Limits
<1> QED
  BY <1>6, <1>7, <1>11, <1>12 DEF Limits

-----------------------------------------------------------------------------
(* The node that answers queries from the store.                           *)

Answered == \A h \in cached : contains_active_infohash(store, h)
StoreInv ==
    /\ clock \in 0..MaxClock /\ Agree(store) /\ Limits(store)
    /\ cached \subseteq Hashes /\ (reply = "samples" => Answered)

(* A hash that the index of hashes takes for active has an active peer.    *)
LEMMA ActiveHas ==
    ASSUME Agree(store), NEW h \in Active(store)
    PROVE  contains_active_infohash(store, h)
<1>1. PICK e \in store.hashes : e[1] > clock /\ h = e[2]
  BY DEF Active
<1>2. PICK k \in DOMAIN store.peers : e = <<Latest(store.peers[k]), k>>
  BY <1>1 DEF Agree, LatestOf
<1>3. k = h /\ Latest(store.peers[h]) > clock
  BY <1>1, <1>2
<1>4. IsGroup(store.peers[h])
  BY <1>2, <1>3 DEF Agree
<1>5. PICK a \in DOMAIN store.peers[h] : Latest(store.peers[h]) = store.peers[h][a]
  BY <1>4, LatestIs
<1> QED
  BY <1>2, <1>3, <1>5 DEF contains_active_infohash

LEMMA SampleStep ==
    ASSUME StoreInv, sample_infohashes
    PROVE  /\ \A h \in cached' : contains_active_infohash(store, h)
           /\ cached' \subseteq Hashes
<1>1. CASE Retained
  BY <1>1 DEF Retained, StoreInv
<1>2. CASE \E sample \in SUBSET Hashes : Resampled(sample)
  <2>1. PICK sample \in SUBSET Hashes : Resampled(sample)
    BY <1>2
  <2>2. cached' = sample /\ sample \subseteq Active(store)
    BY <2>1 DEF Resampled
  <2> QED
    BY <2>2, ActiveHas DEF StoreInv
<1> QED
  BY <1>1, <1>2 DEF sample_infohashes

LEMMA StoreInvInit == StoreInit => StoreInv
<1> SUFFICES ASSUME StoreInit PROVE StoreInv
  OBVIOUS
<1>1. DOMAIN store.peers = {} /\ store.expiry = {} /\ store.hashes = {}
  BY DEF StoreInit
<1>2. Entries(store.peers) = {} /\ LatestOf(store.peers) = {}
  BY <1>1 DEF Entries, LatestOf
<1>3. IsFiniteSet(store.expiry) /\ Cardinality(store.expiry) = 0 /\ Cardinality(DOMAIN store.peers) = 0
  BY <1>1, FS_EmptySet
<1>4. Agree(store)
  BY <1>1, <1>2, <1>3 DEF Agree
<1>5. Limits(store)
  BY <1>1, <1>3, StoreAssumption DEF Limits
<1>6. clock \in 0..MaxClock /\ cached \subseteq Hashes /\ reply # "samples"
  BY StoreAssumption DEF StoreInit
<1> QED
  BY <1>4, <1>5, <1>6 DEF StoreInv

LEMMA StoreInvNext == StoreInv /\ [StoreNext]_storeVars => StoreInv'
<1> SUFFICES ASSUME StoreInv, [StoreNext]_storeVars PROVE StoreInv'
  OBVIOUS
<1>1. CASE \E h \in Hashes, a \in Endpoints : announce(h, a)
  <2>1. PICK h \in Hashes, a \in Endpoints : announce(h, a)
    BY <1>1
  <2>2. Agree(store') /\ Limits(store')
    BY <2>1, AnnounceStep DEF StoreInv
  <2>3. clock' = clock /\ cached' = cached /\ reply' # "samples"
    BY <2>1 DEF announce
  <2> QED
    BY <2>2, <2>3 DEF StoreInv
<1>2. CASE Refuse
  BY <1>2 DEF Refuse, StoreInv
<1>3. CASE sample_infohashes
  <2>1. clock' = clock /\ store' = store
    BY <1>3 DEF sample_infohashes
  <2>2. cached' \subseteq Hashes /\ \A h \in cached' : contains_active_infohash(store, h)
    BY <1>3, SampleStep
  <2>3. Answered'
    BY <2>1, <2>2 DEF Answered, contains_active_infohash
  <2> QED
    BY <2>1, <2>2, <2>3 DEF StoreInv
<1>4. CASE Expire
  <2>1. clock' = clock /\ cached' = cached /\ reply' = reply /\ store' = expire(store) /\ clock \in Nat
    BY <1>4, StoreAssumption DEF Expire, StoreInv
  <2>2. /\ Agree(store') /\ Shrinks(store', store)
        /\ \A h \in Hashes : contains_active_infohash(store, h) => contains_active_infohash(store', h)
    BY <2>1, Expired DEF StoreInv
  <2>3. Limits(store')
    BY <2>2, StillFits DEF StoreInv
  <2>4. ASSUME reply = "samples" PROVE Answered'
    <3>1. \A h \in cached : contains_active_infohash(store', h)
      BY <2>2, <2>4 DEF StoreInv, Answered
    <3> QED
      BY <2>1, <3>1 DEF Answered, contains_active_infohash
  <2> QED
    BY <2>1, <2>2, <2>3, <2>4 DEF StoreInv
<1>5. CASE Tick
  <2>1. clock' \in 0..MaxClock /\ store' = store /\ cached' = cached /\ reply' # "samples"
    BY <1>5, StoreAssumption DEF Tick, StoreInv
  <2> QED
    BY <2>1 DEF StoreInv
<1>6. CASE UNCHANGED storeVars
  <2>1. clock' = clock /\ store' = store /\ cached' = cached /\ reply' = reply
    BY <1>6 DEF storeVars
  <2> QED
    BY <2>1 DEF StoreInv, Answered, contains_active_infohash
<1> QED
  BY <1>1, <1>2, <1>3, <1>4, <1>5, <1>6 DEF StoreNext

LEMMA StoreInvHolds == StoreSpec => []StoreInv
  BY StoreInvInit, StoreInvNext, PTL DEF StoreSpec

LEMMA AgreeGives == StoreInv => IndexesAgree
<1> SUFFICES ASSUME StoreInv PROVE IndexesAgree
  OBVIOUS
<1>1. Agree(store) /\ Limits(store)
  BY DEF StoreInv
<1>2. store.expiry = UNION {{<<store.peers[h][a], h, a>> : a \in DOMAIN store.peers[h]} :
                                h \in DOMAIN store.peers}
  BY <1>1 DEF Agree, Entries
<1>3. store.hashes = {<<Latest(store.peers[h]), h>> : h \in DOMAIN store.peers}
  BY <1>1 DEF Agree, LatestOf
<1>4. ASSUME NEW h \in DOMAIN store.peers
      PROVE  Cardinality(DOMAIN store.peers[h]) \in 1..max_peers_per_hash
  <2> DEFINE N == Cardinality(DOMAIN store.peers[h])
  <2>1. PeersOf(store, h) = DOMAIN store.peers[h] /\ DOMAIN store.peers[h] # {}
    BY <1>1 DEF Agree, IsGroup, PeersOf
  <2>2. IsFiniteSet(DOMAIN store.peers[h]) /\ N \in Nat
    BY <1>1, <2>1, FiniteParts
  <2>3. N # 0
    BY <2>1, <2>2, FS_EmptySet
  <2>4. N <= max_peers_per_hash
    BY <1>1 DEF Limits
  <2> QED
    BY <2>2, <2>3, <2>4, StoreAssumption
<1> QED
  BY <1>1, <1>2, <1>3, <1>4 DEF IndexesAgree, Limits

(* The map of announced peers and its two indexes never disagree, and none *)
(* of the store's limits is exceeded, for every limit, every number of     *)
(* hashes and addresses and every budget of expire: each of the four ways  *)
(* of making room removes the same peers everywhere.                       *)
THEOREM StoreIsConsistent == StoreSpec => []IndexesAgree
  BY StoreInvHolds, AgreeGives, PTL

LEMMA OnlyCurrentIsTold ==
    StoreInv /\ [StoreNext]_storeVars
      => [reply' = "samples" => \A h \in cached' : contains_active_infohash(store, h)]_storeVars
<1> SUFFICES ASSUME StoreInv, StoreNext, reply' = "samples"
             PROVE  \A h \in cached' : contains_active_infohash(store, h)
  OBVIOUS
<1>1. CASE sample_infohashes
  BY <1>1, SampleStep
<1>2. CASE Expire
  BY <1>2 DEF Expire, StoreInv, Answered
<1>3. ~Refuse /\ ~Tick /\ ~(\E h \in Hashes, a \in Endpoints : announce(h, a))
  BY DEF Refuse, Tick, announce
<1> QED
  BY <1>1, <1>2, <1>3 DEF StoreNext

LEMMA NothingIsAdded ==
    StoreInv /\ [StoreNext]_storeVars
      => [generated_at' = generated_at => cached' \subseteq cached]_storeVars
<1> SUFFICES ASSUME StoreInv, StoreNext, generated_at' = generated_at
             PROVE  cached' \subseteq cached
  OBVIOUS
<1>1. CASE sample_infohashes
  <2>1. ~(\E sample \in SUBSET Hashes : Resampled(sample))
    <3> SUFFICES ASSUME NEW sample, Resampled(sample) PROVE FALSE
      OBVIOUS
    <3>1. /\ generated_at = clock
          /\ generated_at = NoTime \/ clock - generated_at >= SAMPLE_INTERVAL
      BY DEF Resampled
    <3>2. clock \in 0..MaxClock /\ NoTime = MaxClock + 1
      BY DEF StoreInv, NoTime
    <3> QED
      BY <3>1, <3>2, StoreAssumption
  <2>2. Retained
    BY <1>1, <2>1 DEF sample_infohashes
  <2> QED
    BY <2>2 DEF Retained
<1>2. CASE ~sample_infohashes
  BY <1>2 DEF StoreNext, announce, Refuse, Expire, Tick
<1> QED
  BY <1>1, <1>2

(* Nobody is told of a hash without a live peer, and between two samplings *)
(* no hash is added to the cached sample, for every ttl and interval.      *)
THEOREM SamplesStayCurrent == StoreSpec => SamplesAreCurrent
  BY StoreInvHolds, OnlyCurrentIsTold, NothingIsAdded, PTL DEF StoreSpec, SamplesAreCurrent

-----------------------------------------------------------------------------
(* The identity of the node.  The pause in memory, the age of the row on   *)
(* disk and the true time since the last change was decided on are tied    *)
(* together: the row never looks older than the decision, and a running    *)
(* node waits at least for what is left of the pause.                      *)

Row == [id : [ip : Ips \cup {NoIp}, draw : Int], ip : Ips \cup {NoIp}, elapsed : Int]
IdentityTypeOK ==
    /\ pc \in {"down", "up", "binding", "bound", "paused"} /\ disk \in Row
    /\ switch_left \in Int /\ since \in 0..Cooldown /\ waited \in 0..Cooldown
    /\ target \in Ips \cup {NoIp}
PauseIsWaited ==
    /\ disk.elapsed <= since
    /\ pc = "up" => switch_left + since >= Cooldown
    /\ pc = "binding" => since = Cooldown /\ switch_left >= 0
    /\ pc = "bound" => disk.ip = target
IdentityInv == IdentityTypeOK /\ PauseIsWaited /\ IdentityIsStored

LEMMA BoundFits ==
    ASSUME disk \in Row, NEW ip \in Ips \cup {NoIp}, NEW age \in Int
    PROVE  /\ Bound(ip, age) \in Row /\ Bound(ip, age).ip = ip
           /\ valid(Bound(ip, age).id, ip) /\ Bound(ip, age).elapsed = age
  BY DEF Bound, generate, Id, Row, valid

LEMMA IdentityInvInit == IdentityInit => IdentityInv
<1> SUFFICES ASSUME IdentityInit PROVE IdentityInv
  OBVIOUS
<1>1. disk \in Row /\ disk.ip = NoIp /\ disk.elapsed = Cooldown
  BY IdentityAssumption DEF IdentityInit, Row, Id
<1>2. IdentityTypeOK
  BY <1>1, IdentityAssumption DEF IdentityInit, IdentityTypeOK
<1>3. PauseIsWaited
  BY <1>1, IdentityAssumption DEF IdentityInit, PauseIsWaited
<1>4. IdentityIsStored
  BY <1>1 DEF IdentityInit, IdentityIsStored
<1> QED
  BY <1>2, <1>3, <1>4 DEF IdentityInv

LEMMA StartStep ==
    ASSUME IdentityInv, NEW config \in Ips \cup {NoIp}, Start(config)
    PROVE  IdentityInv'
<1>1. IdentityTypeOK /\ PauseIsWaited /\ IdentityIsStored /\ Cooldown \in Nat
  BY IdentityAssumption DEF IdentityInv
<1>2. CASE config # NoIp /\ disk.ip # config
  <2>1. StartOn(Bound(config, 0), config) /\ switch_left' = Cooldown /\ since' = 0
    BY <1>2 DEF Start
  <2>2. /\ pc' = "up" /\ disk' = Bound(config, 0) /\ identity' = Bound(config, 0).id
        /\ external' = Bound(config, 0).ip /\ target' = NoIp /\ waited' = 0
    BY <2>1 DEF StartOn
  <2>3. /\ Bound(config, 0) \in Row /\ Bound(config, 0).ip = config
        /\ valid(Bound(config, 0).id, config) /\ Bound(config, 0).elapsed = 0
    BY <1>1, BoundFits DEF IdentityTypeOK
  <2>4. IdentityTypeOK' /\ PauseIsWaited'
    BY <1>1, <2>1, <2>2, <2>3 DEF IdentityTypeOK, PauseIsWaited
  <2>5. IdentityIsStored'
    BY <2>2, <2>3 DEF IdentityIsStored
  <2> QED
    BY <2>4, <2>5 DEF IdentityInv
<1>3. CASE ~(config # NoIp /\ disk.ip # config)
  <2>1. StartOn(disk, config) /\ switch_left' = cooldown_remaining /\ since' = since
    BY <1>3 DEF Start
  <2>2. /\ pc' = "up" /\ disk' = disk /\ identity' = disk.id
        /\ external' = disk.ip /\ target' = NoIp /\ waited' = 0
    BY <2>1 DEF StartOn
  <2>3. disk.elapsed \in Int /\ disk.elapsed <= since /\ since \in 0..Cooldown
    BY <1>1 DEF IdentityTypeOK, PauseIsWaited, Row
  <2>4. Most(disk.elapsed, 0) \in Int /\ Most(disk.elapsed, 0) <= since
    BY <1>1, <2>3 DEF Most
  <2>5. cooldown_remaining \in Int /\ cooldown_remaining + since >= Cooldown
    BY <1>1, <2>3, <2>4 DEF cooldown_remaining
  <2>6. IdentityTypeOK' /\ PauseIsWaited'
    BY <1>1, <2>1, <2>2, <2>3, <2>5 DEF IdentityTypeOK, PauseIsWaited
  <2>7. IdentityIsStored'
    BY <1>1, <2>2 DEF IdentityIsStored
  <2> QED
    BY <2>6, <2>7 DEF IdentityInv
<1> QED
  BY <1>2, <1>3

LEMMA TimeStep ==
    ASSUME IdentityInv, TimePasses
    PROVE  IdentityInv'
<1> DEFINE el == Least(disk.elapsed + 1, Cooldown)
           si == Least(since + 1, Cooldown)
           sl == Most(switch_left - 1, 0)
           wa == IF pc = "binding" THEN Least(waited + 1, Cooldown) ELSE waited
<1>1. /\ disk' = [disk EXCEPT !.elapsed = el] /\ since' = si
      /\ switch_left' = sl /\ waited' = wa /\ UNCHANGED <<pc, identity, external, target>>
  BY DEF TimePasses
<1>2. /\ disk \in Row /\ disk.elapsed \in Int /\ disk.elapsed <= since /\ since \in 0..Cooldown
      /\ switch_left \in Int /\ Cooldown \in Nat /\ waited \in 0..Cooldown
      /\ pc = "up" => switch_left + since >= Cooldown
      /\ pc = "binding" => since = Cooldown
      /\ pc = "bound" => disk.ip = target
  BY IdentityAssumption DEF IdentityInv, IdentityTypeOK, PauseIsWaited, Row
<1>3. /\ el \in Int /\ el <= si /\ si \in 0..Cooldown
      /\ pc = "binding" => si = Cooldown
  BY <1>2 DEF Least
<1>4. /\ sl \in Int /\ sl >= 0 /\ wa \in 0..Cooldown
      /\ pc = "up" => sl + si >= Cooldown
  BY <1>2 DEF Least, Most
<1>5. disk' \in Row /\ disk'.elapsed = el /\ disk'.ip = disk.ip /\ disk'.id = disk.id
  BY <1>1, <1>2, <1>3 DEF Row
<1> HIDE DEF el, si, sl, wa
<1>6. IdentityTypeOK'
  BY <1>1, <1>3, <1>4, <1>5 DEF IdentityInv, IdentityTypeOK
<1>7. PauseIsWaited'
  BY <1>1, <1>2, <1>3, <1>4, <1>5 DEF PauseIsWaited
<1>8. IdentityIsStored'
  BY <1>1, <1>5 DEF IdentityInv, IdentityIsStored
<1> QED
  BY <1>6, <1>7, <1>8 DEF IdentityInv

LEMMA IdentityInvNext == IdentityInv /\ [IdentityNext]_identityVars => IdentityInv'
<1> SUFFICES ASSUME IdentityInv, [IdentityNext]_identityVars PROVE IdentityInv'
  OBVIOUS
<1>0. IdentityTypeOK /\ PauseIsWaited /\ IdentityIsStored /\ Cooldown \in Nat
  BY IdentityAssumption DEF IdentityInv
<1>1. CASE \E config \in Ips \cup {NoIp} : Start(config)
  BY <1>1, StartStep
<1>2. CASE \E p \in Networks, ip \in Ips : observe(p, ip)
  <2>1. PICK ip \in Ips :
          \/ pc' = pc /\ target' = target /\ waited' = waited
          \/ pc' = "binding" /\ target' = ip /\ waited' = 0 /\ switch_left = 0
    BY <1>2 DEF observe
  <2>2. pc = "up" /\ UNCHANGED <<disk, identity, external, switch_left, since>>
    BY <1>2 DEF observe
  <2>3. pc' = "binding" => since' = Cooldown
    BY <1>0, <2>1, <2>2 DEF PauseIsWaited, IdentityTypeOK
  <2>4. IdentityTypeOK' /\ PauseIsWaited'
    BY <1>0, <2>1, <2>2, <2>3 DEF IdentityTypeOK, PauseIsWaited
  <2>5. IdentityIsStored'
    BY <1>0, <2>1, <2>2 DEF IdentityIsStored
  <2> QED
    BY <2>4, <2>5 DEF IdentityInv
<1>3. ASSUME NEW age \in 0..Cooldown, bind(age) PROVE IdentityInv'
  <2>1. /\ pc' = "bound" /\ disk' = Bound(target, age) /\ since' = waited /\ age <= waited
        /\ target' = target /\ switch_left' = switch_left /\ waited' = waited
    BY <1>3 DEF bind, memory
  <2>2. /\ Bound(target, age) \in Row /\ Bound(target, age).ip = target
        /\ valid(Bound(target, age).id, target) /\ Bound(target, age).elapsed = age
    BY <1>0, BoundFits DEF IdentityTypeOK
  <2>3. IdentityTypeOK' /\ PauseIsWaited'
    BY <1>0, <2>1, <2>2 DEF IdentityTypeOK, PauseIsWaited
  <2>4. IdentityIsStored'
    BY <2>1, <2>2 DEF IdentityIsStored
  <2> QED
    BY <2>3, <2>4 DEF IdentityInv
<1>4. CASE BindFails \/ SnapshotFails
  <2>1. /\ pc = "binding" /\ pc' \in {"paused", "up"} /\ target' \in {target, NoIp}
        /\ UNCHANGED <<disk, identity, external, switch_left, waited, since>>
    BY <1>4 DEF BindFails, SnapshotFails, memory
  <2>2. pc' = "up" => switch_left + since >= Cooldown
    BY <1>0, <2>1 DEF IdentityTypeOK, PauseIsWaited
  <2>3. IdentityTypeOK' /\ PauseIsWaited'
    BY <1>0, <2>1, <2>2 DEF IdentityTypeOK, PauseIsWaited
  <2>4. IdentityIsStored'
    BY <1>0, <2>1 DEF IdentityIsStored
  <2> QED
    BY <2>3, <2>4 DEF IdentityInv
<1>5. CASE committed
  <2>1. /\ pc = "bound" /\ pc' = "up" /\ identity' = disk.id /\ external' = target
        /\ switch_left' = Cooldown - since /\ target' = NoIp /\ disk' = disk
        /\ since' = since /\ waited' = waited
    BY <1>5 DEF committed
  <2>2. IdentityTypeOK' /\ PauseIsWaited'
    BY <1>0, <2>1 DEF IdentityTypeOK, PauseIsWaited
  <2>3. IdentityIsStored'
    BY <1>0, <2>1 DEF IdentityIsStored, PauseIsWaited
  <2> QED
    BY <2>2, <2>3 DEF IdentityInv
<1>6. CASE Crash
  <2>1. /\ pc' = "down" /\ target' = NoIp /\ waited' = 0 /\ switch_left' = 0
        /\ disk' = disk /\ since' = since
    BY <1>6 DEF Crash
  <2> QED
    BY <1>0, <2>1 DEF IdentityInv, IdentityTypeOK, PauseIsWaited, IdentityIsStored
<1>7. CASE TimePasses
  BY <1>7, TimeStep
<1>8. CASE \E n \in (0 - MaxBack)..Cooldown : ClockSetBack(n)
  <2>1. PICK n \in (0 - MaxBack)..Cooldown : ClockSetBack(n)
    BY <1>8
  <2>2. /\ n \in Int /\ n < disk.elapsed /\ disk' = [disk EXCEPT !.elapsed = n]
        /\ UNCHANGED <<pc, identity, external, switch_left, target, waited, since>>
    BY <2>1, IdentityAssumption DEF ClockSetBack, memory
  <2>3. disk \in Row /\ disk.elapsed \in Int /\ disk.elapsed <= since /\ since \in 0..Cooldown
    BY <1>0 DEF IdentityTypeOK, PauseIsWaited, Row
  <2>4. disk' \in Row /\ disk'.elapsed = n /\ disk'.ip = disk.ip /\ disk'.id = disk.id
    BY <2>2, <2>3 DEF Row
  <2>5. n <= since
    BY <1>0, <2>2, <2>3
  <2>6. IdentityTypeOK' /\ PauseIsWaited'
    BY <1>0, <2>2, <2>4, <2>5 DEF IdentityTypeOK, PauseIsWaited
  <2>7. IdentityIsStored'
    BY <1>0, <2>2, <2>4 DEF IdentityIsStored
  <2> QED
    BY <2>6, <2>7 DEF IdentityInv
<1>9. CASE UNCHANGED identityVars
  <2>1. UNCHANGED <<pc, disk, identity, external, switch_left, target, waited, since>>
    BY <1>9 DEF identityVars, memory
  <2> QED
    BY <1>0, <2>1 DEF IdentityInv, IdentityTypeOK, PauseIsWaited, IdentityIsStored
<1> QED
  BY <1>1, <1>2, <1>3, <1>4, <1>5, <1>6, <1>7, <1>8, <1>9 DEF IdentityNext

LEMMA IdentityInvHolds == IdentitySpec => []IdentityInv
  BY IdentityInvInit, IdentityInvNext, PTL DEF IdentitySpec

LEMMA OnlyBindMoves ==
    IdentityInv /\ [IdentityNext]_identityVars
      => [pc = "binding" /\ disk'.id # disk.id => since = Cooldown]_identityVars
  BY DEF IdentityInv, PauseIsWaited

(* A node that dies at any moment, between the row and the memory too,     *)
(* comes back under the same identifier, which fits its address; and what  *)
(* others say moves it at most once per pause over any number of restarts, *)
(* for every length of the pause, however far the wall clock is set back.  *)
THEOREM IdentitySurvives == IdentitySpec => IdentityIsKept
<1>1. IdentityInv => IdentityIsStored
  BY DEF IdentityInv
<1> QED
  BY <1>1, IdentityInvHolds, OnlyBindMoves, PTL DEF IdentitySpec, IdentityIsKept, ChangesAreRare

-----------------------------------------------------------------------------
(* The traffic budget.  The entry of an IP may be dropped and come back    *)
(* empty; what matters is that the pause it holds and the true time since  *)
(* the last verification make up the whole pause, and that an IP without   *)
(* an entry has waited all of it.                                          *)

IpEntry == [queries : Nat, inbound : Nat, quiet : Nat, cooldown : Nat]
IsIpTable(T) ==
    /\ T = [j \in DOMAIN T |-> T[j]] /\ DOMAIN T \subseteq Remotes
    /\ \A j \in DOMAIN T : T[j] \in IpEntry
HoldsPause(T, s) ==
    \A j \in Remotes : IF j \in DOMAIN T THEN s[j] + T[j].cooldown >= VerifyPause
                       ELSE s[j] = VerifyPause
TrafficTypeOK ==
    /\ used \in [Shared -> Nat] /\ permits \in [Remotes -> Nat] /\ verification_queued \in Nat
    /\ verified_since \in [Remotes -> 0..VerifyPause]
PermitsAreCounted ==
    IsFiniteSet(Outstanding) /\ verification_queued = Cardinality(Outstanding)
NothingIsOverdrawn ==
    /\ verification_queued <= verification_limit
    /\ \A l \in Shared : used[l] <= Burst[l]
TrafficInv ==
    /\ TrafficTypeOK /\ IsIpTable(ips) /\ HoldsPause(ips, verified_since)
    /\ PermitsAreCounted /\ NothingIsOverdrawn

(* Cleaning and tracking lose no pause.                                    *)
LEMMA Tracked ==
    ASSUME TrafficInv, NEW i \in Remotes
    PROVE  /\ IsIpTable(track(i)) /\ HoldsPause(track(i), verified_since)
           /\ ~Full(i) => i \in DOMAIN track(i)
<1>1. /\ IsIpTable(ips) /\ HoldsPause(ips, verified_since)
      /\ verified_since \in [Remotes -> 0..VerifyPause] /\ VerifyPause \in Nat
  BY TrafficAssumption DEF TrafficInv, TrafficTypeOK
<1>2. IsIpTable(clean) /\ \A j \in DOMAIN clean : j \in DOMAIN ips /\ clean[j] = ips[j]
  BY <1>1 DEF clean, IsIpTable
<1>3. \A j \in DOMAIN ips : j \notin DOMAIN clean => ips[j].cooldown = 0
  BY <1>1 DEF clean, IsIpTable, IpEntry
<1>4. HoldsPause(clean, verified_since)
  <2> SUFFICES ASSUME NEW j \in Remotes
               PROVE  IF j \in DOMAIN clean THEN verified_since[j] + clean[j].cooldown >= VerifyPause
                      ELSE verified_since[j] = VerifyPause
    BY DEF HoldsPause
  <2>1. CASE j \in DOMAIN clean
    BY <1>1, <1>2, <2>1 DEF HoldsPause
  <2>2. CASE j \notin DOMAIN clean
    BY <1>1, <1>3, <2>2 DEF HoldsPause
  <2> QED
    BY <2>1, <2>2
<1>5. CASE Full(i)
  BY <1>2, <1>4, <1>5 DEF track
<1>6. CASE ~Full(i)
  <2> DEFINE new == IF i \in DOMAIN clean THEN [clean[i] EXCEPT !.quiet = 0] ELSE NewEntry
             T == [j \in DOMAIN clean \cup {i} |-> IF j # i THEN clean[j] ELSE new]
  <2>1. track(i) = T
    BY <1>6 DEF track
  <2>2. new \in IpEntry /\ new.cooldown = (IF i \in DOMAIN clean THEN clean[i].cooldown ELSE 0)
    BY <1>2 DEF IsIpTable, IpEntry, NewEntry
  <2> HIDE DEF new
  <2>3. IsIpTable(T)
    BY <1>2, <2>2 DEF IsIpTable
  <2>4. HoldsPause(T, verified_since)
    <3> SUFFICES ASSUME NEW j \in Remotes
                 PROVE  IF j \in DOMAIN T THEN verified_since[j] + T[j].cooldown >= VerifyPause
                        ELSE verified_since[j] = VerifyPause
      BY DEF HoldsPause
    <3>1. CASE j = i /\ i \notin DOMAIN clean
      BY <1>1, <1>4, <2>2, <3>1 DEF HoldsPause
    <3>2. CASE j # i \/ i \in DOMAIN clean
      BY <1>4, <2>2, <3>2 DEF HoldsPause
    <3> QED
      BY <3>1, <3>2
  <2> QED
    BY <2>1, <2>3, <2>4
<1> QED
  BY <1>5, <1>6

(* One field of an entry that is there.                                    *)
LEMMA Charged ==
    ASSUME NEW T, IsIpTable(T), NEW s, HoldsPause(T, s), NEW i \in DOMAIN T,
           NEW U, U \in {[T EXCEPT ![i].queries = @ + 1], [T EXCEPT ![i].inbound = @ + 1]}
    PROVE  IsIpTable(U) /\ HoldsPause(U, s)
<1>1. DOMAIN U = DOMAIN T /\ U = [j \in DOMAIN U |-> U[j]]
  BY DEF IsIpTable
<1>2. \A j \in DOMAIN T : U[j] \in IpEntry /\ U[j].cooldown = T[j].cooldown
  BY DEF IsIpTable, IpEntry
<1> QED
  BY <1>1, <1>2 DEF IsIpTable, HoldsPause

LEMMA TrafficStart == TrafficInit => TrafficInv
<1> SUFFICES ASSUME TrafficInit PROVE TrafficInv
  OBVIOUS
<1>1. TrafficTypeOK
  BY TrafficAssumption DEF TrafficInit, TrafficTypeOK
<1>2. DOMAIN ips = {} /\ ips = [j \in DOMAIN ips |-> ips[j]]
  BY DEF TrafficInit
<1>3. IsIpTable(ips) /\ HoldsPause(ips, verified_since)
  BY <1>2 DEF TrafficInit, IsIpTable, HoldsPause
<1>4. Outstanding = {}
  BY DEF TrafficInit, Outstanding
<1>5. PermitsAreCounted
  BY <1>4, FS_EmptySet DEF TrafficInit, PermitsAreCounted
<1>6. NothingIsOverdrawn
  BY TrafficAssumption DEF TrafficInit, NothingIsOverdrawn
<1> QED
  BY <1>1, <1>3, <1>5, <1>6 DEF TrafficInv

(* What spends a limit and touches no permit.                              *)
LEMMA SpendingStep ==
    ASSUME TrafficInv, UnchangedPermits,
           used' \in [Shared -> Nat], \A l \in Shared : used'[l] <= Burst[l],
           IsIpTable(ips'), HoldsPause(ips', verified_since)
    PROVE  TrafficInv'
<1>1. TrafficTypeOK'
  BY DEF TrafficInv, TrafficTypeOK, UnchangedPermits
<1>2. PermitsAreCounted'
  BY DEF TrafficInv, PermitsAreCounted, Outstanding, UnchangedPermits
<1>3. NothingIsOverdrawn'
  BY DEF TrafficInv, NothingIsOverdrawn, UnchangedPermits
<1>4. HoldsPause(ips, verified_since)' /\ IsIpTable(ips)'
  BY DEF UnchangedPermits, HoldsPause, IsIpTable
<1> QED
  BY <1>1, <1>2, <1>3, <1>4 DEF TrafficInv


(* One permit more, one permit less.                                       *)
LEMMA PermitMore ==
    ASSUME TrafficInv, NEW i \in Remotes, permits' = [permits EXCEPT ![i] = @ + 1]
    PROVE  IsFiniteSet(Outstanding') /\ Cardinality(Outstanding') = Cardinality(Outstanding) + 1
<1> DEFINE e == <<i, permits[i] + 1>>
<1>1. permits \in [Remotes -> Nat] /\ IsFiniteSet(Outstanding)
  BY DEF TrafficInv, TrafficTypeOK, PermitsAreCounted
<1>2. 1..(permits[i] + 1) = 1..permits[i] \cup {permits[i] + 1}
  BY <1>1
<1>3. Outstanding' = Outstanding \cup {e}
  <2>1. \A x : x \in Outstanding' <=> \E j \in Remotes : x \in {j} \X (1..permits'[j])
    BY DEF Outstanding
  <2>2. \A x : x \in Outstanding <=> \E j \in Remotes : x \in {j} \X (1..permits[j])
    BY DEF Outstanding
  <2>3. \A j \in Remotes : permits'[j] = IF j = i THEN permits[i] + 1 ELSE permits[j]
    BY <1>1
  <2>4. {i} \X (1..permits'[i]) = ({i} \X (1..permits[i])) \cup {e}
    BY <1>2, <2>3
  <2> QED
    BY <2>1, <2>2, <2>3, <2>4
<1>4. e \notin Outstanding
  BY <1>1 DEF Outstanding
<1> HIDE DEF e
<1> QED
  BY <1>1, <1>3, <1>4, FS_AddElement
LEMMA PermitLess ==
    ASSUME TrafficInv, NEW i \in Remotes, permits[i] > 0, permits' = [permits EXCEPT ![i] = @ - 1]
    PROVE  /\ IsFiniteSet(Outstanding') /\ Cardinality(Outstanding') = Cardinality(Outstanding) - 1
           /\ Cardinality(Outstanding') \in Nat
<1> DEFINE e == <<i, permits[i]>>
<1>1. permits \in [Remotes -> Nat] /\ IsFiniteSet(Outstanding)
  BY DEF TrafficInv, TrafficTypeOK, PermitsAreCounted
<1>2. 1..(permits[i] - 1) = 1..permits[i] \ {permits[i]} /\ permits[i] \in 1..permits[i]
  BY <1>1
<1>3. Outstanding' = Outstanding \ {e}
  <2>1. \A x : x \in Outstanding' <=> \E j \in Remotes : x \in {j} \X (1..permits'[j])
    BY DEF Outstanding
  <2>2. \A x : x \in Outstanding <=> \E j \in Remotes : x \in {j} \X (1..permits[j])
    BY DEF Outstanding
  <2>3. \A j \in Remotes : permits'[j] = IF j = i THEN permits[i] - 1 ELSE permits[j]
    BY <1>1
  <2>4. {i} \X (1..permits'[i]) = ({i} \X (1..permits[i])) \ {e}
    BY <1>2, <2>3
  <2>5. \A j \in Remotes : j # i => e \notin {j} \X (1..permits[j])
    OBVIOUS
  <2> QED
    BY <2>1, <2>2, <2>3, <2>4, <2>5
<1>4. e \in Outstanding
  BY <1>2 DEF Outstanding
<1> HIDE DEF e
<1>5. IsFiniteSet(Outstanding') /\ Cardinality(Outstanding') = Cardinality(Outstanding) - 1
  BY <1>1, <1>3, <1>4, FS_RemoveElement
<1>6. Cardinality(Outstanding') \in Nat
  BY <1>5, FS_CardinalityType
<1> QED
  BY <1>5, <1>6

(* The true time since the last verification of an IP only starts again    *)
(* when the whole pause is over.                                           *)
VerifiedRarely == \A i \in Remotes : verified_since'[i] < verified_since[i] => verified_since[i] = VerifyPause

LEMMA SendingSteps ==
    ASSUME TrafficInv, NEW i \in Remotes, NEW class \in Classes, NEW bytes \in PacketBytes,
           query_observed(class, i, bytes)
    PROVE  TrafficInv'
<1>1. /\ used \in [Shared -> Nat] /\ \A l \in Shared : used[l] <= Burst[l]
      /\ class \in Shared /\ "query_bytes" \in Shared /\ class # "query_bytes" /\ bytes \in Nat
  BY TrafficAssumption DEF TrafficInv, TrafficTypeOK, NothingIsOverdrawn, Shared
<1>2. UnchangedPermits
  BY DEF query_observed
<1>3. IsIpTable(track(i)) /\ HoldsPause(track(i), verified_since) /\ (~Full(i) => i \in DOMAIN track(i))
  BY Tracked
<1>4. CASE decision'
  <2>1. /\ ~Full(i) /\ Free(class, 1) /\ Free("query_bytes", bytes)
        /\ used' = [used EXCEPT ![class] = @ + 1, !["query_bytes"] = @ + bytes]
        /\ ips' = [track(i) EXCEPT ![i].queries = @ + 1]
    BY <1>4 DEF query_observed
  <2>2. IsIpTable(ips') /\ HoldsPause(ips', verified_since)
    BY <1>3, <2>1, Charged
  <2>3. used' \in [Shared -> Nat] /\ \A l \in Shared : used'[l] <= Burst[l]
    BY <1>1, <2>1, TrafficAssumption DEF Free
  <2> QED
    BY <1>2, <2>2, <2>3, SpendingStep
<1>5. CASE ~decision'
  BY <1>1, <1>2, <1>3, <1>5, SpendingStep DEF query_observed
<1> QED
  BY <1>4, <1>5
LEMMA OrdinarySteps ==
    ASSUME TrafficInv, NEW i \in Remotes, ordinary(i)
    PROVE  TrafficInv'
<1>1. /\ used \in [Shared -> Nat] /\ (\A l \in Shared : used[l] <= Burst[l])
      /\ "inbound" \in Shared
  BY TrafficAssumption DEF TrafficInv, TrafficTypeOK, NothingIsOverdrawn, Shared
<1>2. UnchangedPermits
  BY DEF ordinary
<1>3. IsIpTable(track(i)) /\ HoldsPause(track(i), verified_since) /\ (~Full(i) => i \in DOMAIN track(i))
  BY Tracked
<1>4. CASE decision'
  <2>1. /\ ~Full(i) /\ Free("inbound", 1) /\ used' = [used EXCEPT !["inbound"] = @ + 1]
        /\ ips' = [track(i) EXCEPT ![i].inbound = @ + 1]
    BY <1>4 DEF ordinary, Spend
  <2>2. IsIpTable(ips') /\ HoldsPause(ips', verified_since)
    BY <1>3, <2>1, Charged
  <2>3. used' \in [Shared -> Nat] /\ \A l \in Shared : used'[l] <= Burst[l]
    BY <1>1, <2>1, TrafficAssumption DEF Free
  <2> QED
    BY <1>2, <2>2, <2>3, SpendingStep
<1>5. CASE ~decision'
  BY <1>1, <1>2, <1>3, <1>5, SpendingStep DEF ordinary
<1> QED
  BY <1>4, <1>5
(* What comes in as an answer, and replies.                                *)
LEMMA SharedSteps ==
    ASSUME TrafficInv, NEW l \in Shared, NEW n \in Nat,
           decision' = Free(l, n), used' = IF decision' THEN Spend(l, n) ELSE used,
           UNCHANGED ips, UnchangedPermits
    PROVE  TrafficInv'
<1>1. used \in [Shared -> Nat] /\ \A k \in Shared : used[k] <= Burst[k]
  BY DEF TrafficInv, TrafficTypeOK, NothingIsOverdrawn
<1>2. used' \in [Shared -> Nat] /\ \A k \in Shared : used'[k] <= Burst[k]
  <2>1. CASE decision'
    <3>1. used[l] + n <= Burst[l] /\ used' = [used EXCEPT ![l] = @ + n]
      BY <2>1 DEF Free, Spend
    <3> QED
      BY <1>1, <3>1, TrafficAssumption
  <2>2. CASE ~decision'
    BY <1>1, <2>2
  <2> QED
    BY <2>1, <2>2
<1>3. IsIpTable(ips') /\ HoldsPause(ips', verified_since)
  BY DEF TrafficInv
<1> QED
  BY <1>2, <1>3, SpendingStep


LEMMA VerificationSteps ==
    ASSUME TrafficInv, NEW i \in Remotes, admit_verification(i)
    PROVE  TrafficInv' /\ VerifiedRarely
<1>1. /\ TrafficTypeOK /\ PermitsAreCounted /\ NothingIsOverdrawn
      /\ verified_since \in [Remotes -> 0..VerifyPause] /\ VerifyPause \in Nat /\ verification_limit \in Nat
      /\ verification_queued \in Nat /\ permits \in [Remotes -> Nat]
  BY TrafficAssumption DEF TrafficInv, TrafficTypeOK
<1>2. IsIpTable(track(i)) /\ HoldsPause(track(i), verified_since) /\ (~Full(i) => i \in DOMAIN track(i))
  BY Tracked
<1>3. used' = used
  BY DEF admit_verification
<1>4. CASE decision'
  <2>1. /\ i \in DOMAIN track(i) /\ track(i)[i].cooldown = 0 /\ verification_queued < verification_limit
        /\ ips' = [track(i) EXCEPT ![i].cooldown = VerifyPause]
        /\ verification_queued' = verification_queued + 1
        /\ permits' = [permits EXCEPT ![i] = @ + 1]
        /\ verified_since' = [verified_since EXCEPT ![i] = 0]
    BY <1>2, <1>4 DEF admit_verification
  <2>2. verified_since[i] = VerifyPause
    BY <1>1, <1>2, <2>1 DEF HoldsPause
  <2>3. VerifiedRarely
    BY <1>1, <2>1, <2>2 DEF VerifiedRarely
  <2>4. TrafficTypeOK'
    BY <1>1, <1>3, <2>1 DEF TrafficTypeOK
  <2>5. PermitsAreCounted'
    BY <1>1, <2>1, PermitMore DEF PermitsAreCounted
  <2>6. NothingIsOverdrawn'
    BY <1>1, <1>3, <2>1 DEF NothingIsOverdrawn
  <2>7. DOMAIN ips' = DOMAIN track(i) /\ ips' = [j \in DOMAIN ips' |-> ips'[j]]
    BY <1>2, <2>1 DEF IsIpTable
  <2>8. \A j \in DOMAIN track(i) : /\ ips'[j] \in IpEntry
                                   /\ ips'[j].cooldown = IF j = i THEN VerifyPause ELSE track(i)[j].cooldown
    BY <1>1, <1>2, <2>1 DEF IsIpTable, IpEntry
  <2>9. IsIpTable(ips')
    BY <1>2, <2>7, <2>8 DEF IsIpTable
  <2>10. HoldsPause(ips', verified_since')
    <3> SUFFICES ASSUME NEW j \in Remotes
                 PROVE  IF j \in DOMAIN ips' THEN verified_since'[j] + ips'[j].cooldown >= VerifyPause
                        ELSE verified_since'[j] = VerifyPause
      BY DEF HoldsPause
    <3>1. CASE j = i
      <4>1. verified_since'[i] = 0 /\ ips'[i].cooldown = VerifyPause /\ i \in DOMAIN ips'
        BY <1>1, <2>1, <2>7, <2>8
      <4> QED
        BY <1>1, <3>1, <4>1
    <3>2. CASE j # i
      BY <1>1, <1>2, <2>1, <2>7, <2>8, <3>2 DEF HoldsPause
    <3> QED
      BY <3>1, <3>2
  <2>11. IsIpTable(ips)' /\ HoldsPause(ips, verified_since)'
    BY <2>9, <2>10 DEF IsIpTable, HoldsPause
  <2> QED
    BY <2>3, <2>4, <2>5, <2>6, <2>11 DEF TrafficInv
<1>5. CASE ~decision'
  <2>1. ips' = track(i) /\ UnchangedPermits
    BY <1>5 DEF admit_verification, UnchangedPermits
  <2>2. TrafficInv'
    BY <1>1, <1>2, <1>3, <2>1, SpendingStep DEF TrafficTypeOK, NothingIsOverdrawn
  <2>3. VerifiedRarely
    BY <1>1, <2>1 DEF UnchangedPermits, VerifiedRarely
  <2> QED
    BY <2>2, <2>3
<1> QED
  BY <1>4, <1>5
LEMMA DropPermitStep ==
    ASSUME TrafficInv, NEW i \in Remotes, DropPermit(i)
    PROVE  TrafficInv' /\ verified_since' = verified_since
<1>1. /\ TrafficTypeOK /\ PermitsAreCounted /\ NothingIsOverdrawn /\ verification_queued \in Nat
      /\ verification_limit \in Nat /\ permits \in [Remotes -> Nat]
  BY TrafficAssumption DEF TrafficInv, TrafficTypeOK
<1>2. /\ permits[i] > 0 /\ permits' = [permits EXCEPT ![i] = @ - 1]
      /\ verification_queued' = verification_queued - 1
      /\ used' = used /\ ips' = ips /\ verified_since' = verified_since
  BY DEF DropPermit
<1>3. PermitsAreCounted' /\ verification_queued' \in Nat
  BY <1>1, <1>2, PermitLess DEF PermitsAreCounted
<1>4. TrafficTypeOK'
  BY <1>1, <1>2, <1>3 DEF TrafficTypeOK
<1>5. NothingIsOverdrawn'
  BY <1>1, <1>2 DEF NothingIsOverdrawn
<1>6. IsIpTable(ips)' /\ HoldsPause(ips, verified_since)'
  BY <1>2 DEF TrafficInv, IsIpTable, HoldsPause
<1> QED
  BY <1>2, <1>3, <1>4, <1>5, <1>6 DEF TrafficInv
LEMMA RefillStep ==
    ASSUME TrafficInv, Refill
    PROVE  TrafficInv' /\ VerifiedRarely
<1>1. /\ TrafficTypeOK /\ PermitsAreCounted /\ NothingIsOverdrawn
      /\ IsIpTable(ips) /\ HoldsPause(ips, verified_since) /\ Quiet \in Nat /\ VerifyPause \in Nat
      /\ verified_since \in [Remotes -> 0..VerifyPause] /\ used \in [Shared -> Nat]
  BY TrafficAssumption DEF TrafficInv, TrafficTypeOK
<1>2. UNCHANGED <<permits, verification_queued>>
  BY DEF Refill
<1>3. \A j \in Remotes : verified_since'[j] = IF verified_since[j] < VerifyPause THEN verified_since[j] + 1 ELSE VerifyPause
  BY DEF Refill
<1>4. verified_since' \in [Remotes -> 0..VerifyPause] /\ VerifiedRarely
  BY <1>1, <1>3 DEF Refill, VerifiedRarely
<1>5. used' \in [Shared -> Nat] /\ \A l \in Shared : used'[l] <= used[l]
  BY <1>1 DEF Refill, Minus
<1>6. TrafficTypeOK'
  BY <1>1, <1>2, <1>4, <1>5 DEF TrafficTypeOK
<1>7. PermitsAreCounted'
  BY <1>1, <1>2 DEF PermitsAreCounted, Outstanding
<1>8. NothingIsOverdrawn'
  BY <1>1, <1>2, <1>5, TrafficAssumption DEF NothingIsOverdrawn
<1>9. /\ DOMAIN ips' = DOMAIN ips /\ ips' = [j \in DOMAIN ips' |-> ips'[j]]
      /\ \A j \in DOMAIN ips : /\ ips'[j] \in IpEntry
                               /\ ips'[j].cooldown = Minus(ips[j].cooldown) /\ ips[j].cooldown \in Nat
  BY <1>1 DEF Refill, IsIpTable, IpEntry, Minus
<1>10. IsIpTable(ips)'
  BY <1>1, <1>9 DEF IsIpTable
<1>11. HoldsPause(ips, verified_since)'
  <2> SUFFICES ASSUME NEW j \in Remotes
               PROVE  IF j \in DOMAIN ips' THEN verified_since'[j] + ips'[j].cooldown >= VerifyPause
                      ELSE verified_since'[j] = VerifyPause
    BY DEF HoldsPause
  <2>1. verified_since[j] \in 0..VerifyPause
    BY <1>1
  <2> QED
    BY <1>1, <1>3, <1>9, <2>1 DEF HoldsPause, Minus
<1> QED
  BY <1>4, <1>6, <1>7, <1>8, <1>10, <1>11 DEF TrafficInv

LEMMA TrafficStep ==
    ASSUME TrafficInv, [TrafficNext]_trafficVars
    PROVE  TrafficInv' /\ [VerifiedRarely]_trafficVars
<1>1. verified_since \in [Remotes -> 0..VerifyPause] /\ VerifyPause \in Nat
  BY TrafficAssumption DEF TrafficInv, TrafficTypeOK
<1>2. verified_since' = verified_since => VerifiedRarely
  BY <1>1 DEF VerifiedRarely
<1>3. UnchangedPermits => VerifiedRarely
  BY <1>2 DEF UnchangedPermits
<1>4. ASSUME NEW i \in Remotes, NEW class \in Classes, NEW bytes \in PacketBytes, query_observed(class, i, bytes)
      PROVE  TrafficInv' /\ VerifiedRarely
  BY <1>3, <1>4, SendingSteps DEF query_observed
<1>5. ASSUME NEW i \in Remotes, ordinary(i)
      PROVE  TrafficInv' /\ VerifiedRarely
  BY <1>3, <1>5, OrdinarySteps DEF ordinary
<1>6. ASSUME NEW bytes \in PacketBytes, budget_reply(bytes)
      PROVE  TrafficInv' /\ VerifiedRarely
  <2>1. "reply_bytes" \in Shared /\ bytes \in Nat
    BY TrafficAssumption DEF Shared
  <2> QED
    BY <1>3, <1>6, <2>1, SharedSteps DEF budget_reply
<1>7. CASE inbound_response
  <2>1. "responses" \in Shared /\ 1 \in Nat
    BY DEF Shared
  <2> QED
    BY <1>3, <1>7, <2>1, SharedSteps DEF inbound_response
<1>8. CASE UNCHANGED trafficVars
  <2>1. /\ UnchangedPermits /\ used' \in [Shared -> Nat] /\ \A l \in Shared : used'[l] <= Burst[l]
        /\ IsIpTable(ips') /\ HoldsPause(ips', verified_since)
    BY <1>8 DEF trafficVars, UnchangedPermits, TrafficInv, TrafficTypeOK, NothingIsOverdrawn
  <2> QED
    BY <1>8, <2>1, SpendingStep
<1> QED
  BY <1>2, <1>4, <1>5, <1>6, <1>7, <1>8, VerificationSteps, DropPermitStep, RefillStep DEF TrafficNext

(* For any limits and any table of IPs: a stranger is verified at most     *)
(* once per pause though its entry comes and goes, the permits that are    *)
(* out are counted, and no limit of the budget is overdrawn.               *)
THEOREM StrangersAreSpared == TrafficSpec => VerificationsAreRare
<1>1. TrafficSpec => []TrafficInv
  BY TrafficStart, TrafficStep, PTL DEF TrafficSpec
<1>2. TrafficInv => /\ verification_queued = Cardinality(Outstanding)
                    /\ verification_queued <= verification_limit
  BY DEF TrafficInv, PermitsAreCounted, NothingIsOverdrawn
<1>3. TrafficInv => \A l \in Shared : used[l] <= Burst[l]
  BY DEF TrafficInv, NothingIsOverdrawn
<1>4. TrafficInv /\ [TrafficNext]_trafficVars =>
        [\A i \in Remotes : verified_since'[i] < verified_since[i]
                             => verified_since[i] = VerifyPause]_trafficVars
  BY TrafficStep DEF VerifiedRarely
<1> QED
  BY <1>1, <1>2, <1>3, <1>4, PTL DEF TrafficSpec, VerificationsAreRare

-----------------------------------------------------------------------------
(* The monitor.  The history is a run of consecutive numbers up to the     *)
(* last, whatever is evicted; a stream that may go on stands at its        *)
(* client's position, or at the end of the events that are on the wire to  *)
(* it; so a page that is not refused begins right after that position.     *)

HistoryEvent == [n : Nat, old : BOOLEAN]
IsHistory(es, q) ==
    /\ es \in Seq(HistoryEvent) /\ Len(es) <= q
    /\ \A i \in 1 .. Len(es) : es[i].n = q - Len(es) + i

LEMMA Evicted ==
    ASSUME NEW q \in Nat, NEW es, IsHistory(es, q)
    PROVE  IsHistory(evict(es), q)
<1> DEFINE rest(k) == SubSeq(es, k + 1, Len(es))
           S == {k \in 0 .. Len(es) : Within(rest(k))}
<1>1. es \in Seq(HistoryEvent) /\ Len(es) \in Nat
  BY DEF IsHistory
<1>2. rest(Len(es)) = <<>>
  BY <1>1
<1>3. Within(rest(Len(es)))
  BY <1>2 DEF Within
<1>4. Len(es) \in S
  BY <1>1, <1>3
<1>5. Min(S) \in S
  <2>1. PICK k \in S : \A m \in S : k <= m
    <3>1. S \in SUBSET Nat /\ S # {}
      BY <1>1, <1>4
    <3> HIDE DEF S
    <3> QED
      BY <3>1, LeastOf
  <2> HIDE DEF S
  <2> QED
    BY <2>1 DEF Min
<1>6. Min(S) \in 0 .. Len(es)
  BY <1>5
<1>7. evict(es) = rest(Min(S))
  BY DEF evict
<1>8. ASSUME NEW k \in 0 .. Len(es) PROVE IsHistory(rest(k), q)
  <2>1. rest(k) \in Seq(HistoryEvent) /\ Len(rest(k)) = Len(es) - k
    BY <1>1
  <2>2. \A i \in 1 .. Len(rest(k)) : rest(k)[i] = es[k + i]
    BY <1>1, <2>1
  <2>3. ASSUME NEW i \in 1 .. Len(rest(k)) PROVE rest(k)[i].n = q - Len(rest(k)) + i
    <3>1. k + i \in 1 .. Len(es)
      BY <1>1, <2>1, <2>3
    <3>2. es[k + i].n = q - Len(es) + (k + i)
      BY <3>1 DEF IsHistory
    <3>3. rest(k)[i] = es[k + i]
      BY <2>2, <2>3
    <3> HIDE DEF rest
    <3>4. q - Len(rest(k)) + i = q - Len(es) + (k + i)
      <4>1. q \in Nat /\ k \in Nat /\ i \in Nat /\ Len(es) \in Nat
        BY <1>1, <2>1, <2>3
      <4> QED
        BY <2>1, <4>1
    <3> QED
      BY <3>2, <3>3, <3>4
  <2>4. Len(rest(k)) <= q
    BY <1>1, <2>1 DEF IsHistory
  <2> HIDE DEF rest
  <2> QED
    BY <2>1, <2>3, <2>4 DEF IsHistory
<1> HIDE DEF rest, S
<1> QED
  BY <1>6, <1>7, <1>8

LEMMA Recorded ==
    ASSUME NEW q \in Nat, NEW es, IsHistory(es, q)
    PROVE  /\ IsHistory(Append(es, [n |-> q + 1, old |-> FALSE]), q + 1)
           /\ IsHistory([i \in DOMAIN es |-> [es[i] EXCEPT !.old = TRUE]], q)
<1> DEFINE more == Append(es, [n |-> q + 1, old |-> FALSE])
           aged == [i \in DOMAIN es |-> [es[i] EXCEPT !.old = TRUE]]
<1>1. es \in Seq(HistoryEvent) /\ Len(es) \in Nat /\ Len(es) <= q
  BY DEF IsHistory
<1>2. IsHistory(more, q + 1)
  <2>1. more \in Seq(HistoryEvent) /\ Len(more) = Len(es) + 1
    <3>1. [n |-> q + 1, old |-> FALSE] \in HistoryEvent
      BY DEF HistoryEvent
    <3> QED
      BY <1>1, <3>1
  <2>2. ASSUME NEW i \in 1 .. Len(more) PROVE more[i].n = q + 1 - Len(more) + i
    <3>1. CASE i = Len(es) + 1
      BY <1>1, <2>1, <3>1
    <3>2. CASE i \in 1 .. Len(es)
      BY <1>1, <2>1, <3>2 DEF IsHistory
    <3> QED
      BY <1>1, <2>1, <2>2, <3>1, <3>2
  <2> HIDE DEF more
  <2> QED
    BY <1>1, <2>1, <2>2 DEF IsHistory
<1>3. IsHistory(aged, q)
  <2>1. DOMAIN es = 1 .. Len(es)
    BY <1>1
  <2>2. ASSUME NEW i \in 1 .. Len(es)
        PROVE  /\ [es[i] EXCEPT !.old = TRUE] \in HistoryEvent
               /\ [es[i] EXCEPT !.old = TRUE].n = es[i].n
    <3>1. es[i] \in HistoryEvent
      BY <1>1, <2>2
    <3> QED
      BY <3>1 DEF HistoryEvent
  <2>3. aged \in [1 .. Len(es) -> HistoryEvent]
    BY <2>1, <2>2
  <2>4. aged \in Seq(HistoryEvent) /\ Len(aged) = Len(es)
    BY <1>1, <2>3
  <2>5. \A i \in 1 .. Len(es) : aged[i].n = es[i].n
    BY <2>1, <2>2
  <2> HIDE DEF aged
  <2> QED
    BY <1>1, <2>4, <2>5 DEF IsHistory
<1> QED
  BY <1>2, <1>3

LEMMA TopOfInterval ==
    ASSUME NEW lo \in Nat, NEW hi \in Nat, lo <= hi PROVE Max(lo .. hi) = hi
  BY DEF Max

(* A page that is not refused begins at the position, without a gap.       *)
LEMMA PageIsNext ==
    ASSUME NEW c, IsHistory(evict(events), sequence), sequence \in Nat, after[c] \in Nat,
           after[c] < sequence, ~(after[c] + 1 < oldest)
    PROVE  \E b \in Nat : /\ after[c] < b /\ b <= sequence /\ Shown(c) = after[c] + 1 .. b
                          /\ Max(Shown(c) \cup {after[c]}) = b
<1> DEFINE es == evict(events)
           a == after[c]
           b == IF sequence <= a + PageLimit THEN sequence ELSE a + PageLimit
<1>1. es \in Seq(HistoryEvent) /\ Len(es) \in Nat /\ Len(es) <= sequence
  BY DEF IsHistory
<1>2. \A i \in 1 .. Len(es) : es[i].n = sequence - Len(es) + i
  BY DEF IsHistory
<1>3. es # <<>> /\ es[1].n <= a + 1
  <2>1. CASE es = <<>>
    BY <2>1 DEF oldest
  <2>2. CASE es # <<>>
    <3>1. oldest = es[1].n /\ 1 \in 1 .. Len(es)
      BY <1>1, <2>2 DEF oldest
    <3> QED
      BY <1>1, <1>2, <2>2, <3>1
  <2> QED
    BY <2>1, <2>2
<1>4. Len(es) > 0 /\ sequence - Len(es) <= a
  <2>1. 1 \in 1 .. Len(es)
    BY <1>1, <1>3
  <2> QED
    BY <1>1, <1>2, <1>3, <2>1
<1>5. Page(c) = a + 1 .. sequence
  <2>1. ASSUME NEW m \in a + 1 .. sequence
        PROVE  m \in {e.n : e \in {es[i] : i \in DOMAIN es}}
    <3>1. /\ m - (sequence - Len(es)) \in 1 .. Len(es)
          /\ es[m - (sequence - Len(es))].n = m
      BY <1>1, <1>2, <1>4
    <3>2. DOMAIN es = 1 .. Len(es)
      BY <1>1
    <3> HIDE DEF es
    <3> QED
      BY <3>1, <3>2
  <2> QED
    BY <2>1 DEF Page
<1>6. ASSUME NEW n \in a + 1 .. sequence
      PROVE  Cardinality({m \in a + 1 .. sequence : m <= n}) = n - a
  <2>1. {m \in a + 1 .. sequence : m <= n} = a + 1 .. n
    OBVIOUS
  <2>2. a + 1 \in Int /\ n \in Int
    OBVIOUS
  <2>3. Cardinality(a + 1 .. n) = IF a + 1 > n THEN 0 ELSE n - (a + 1) + 1
    BY <2>2, FS_Interval
  <2>4. (IF a + 1 > n THEN 0 ELSE n - (a + 1) + 1) = n - a
    OBVIOUS
  <2> QED
    BY <2>1, <2>3, <2>4
<1>7. PageLimit \in Nat /\ PageLimit > 0
  BY PageAssumption
<1>8. b \in Nat /\ a < b /\ b <= sequence
  BY <1>7
<1>9. Shown(c) = a + 1 .. b
  <2>1. Shown(c) = {n \in a + 1 .. sequence : n - a <= PageLimit}
    BY <1>5, <1>6 DEF Shown
  <2> QED
    BY <1>7, <2>1
<1>10. Max(Shown(c) \cup {a}) = b
  <2>1. Shown(c) \cup {a} = a .. b
    <3> HIDE DEF b
    <3> QED
      BY <1>8, <1>9
  <2> HIDE DEF b
  <2>2. a \in Nat /\ b \in Nat /\ a <= b
    BY <1>8
  <2>3. Max(a .. b) = b
    BY <2>2, TopOfInterval
  <2> QED
    BY <2>1, <2>3
<1> HIDE DEF b
<1> QED
  BY <1>8, <1>9, <1>10


ClientCursor == [run : {"none", "old", "this"}, n : Nat]
ClientFrame == [kind : {"nothing", "snapshot", "events", "reset"}, set : SUBSET Nat]
StreamPlaces == {"none", "top", "page", "wait", "done"}
Position(k, f) == IF k.run = "this" THEN k.n ELSE f

(* Cursor, beginning, events, place of the stream, its run, its position   *)
(* and the wire, of one client.                                            *)
HasItsEvents(k, f, g) ==
    /\ k.run = "none" => k = NoCursor
    /\ IF k.run = "this" THEN f <= k.n /\ g = f + 1 .. k.n ELSE g = {}
WireFitsPlace(w, s) ==
    \/ w = Nothing
    \/ w.kind \in {"snapshot", "events"} /\ s = "top"
    \/ w.kind = "reset" /\ s = "done"
StreamFollows(k, f, s, r, a, w) ==
    s \in {"top", "page", "wait"} =>
        IF k.run = "old" THEN s = "top" /\ w = Nothing /\ r = "old"
        ELSE IF w.kind = "events"
             THEN Position(k, f) < a /\ w.set = Position(k, f) + 1 .. a
             ELSE a = Position(k, f)
PageIsDue(s, a, q) == s = "page" => a < q
IsServed(k, f, g, s, r, a, w, q) ==
    /\ HasItsEvents(k, f, g) /\ WireFitsPlace(w, s)
    /\ StreamFollows(k, f, s, r, a, w) /\ PageIsDue(s, a, q)

MonitorTypeOK ==
    /\ sequence \in Nat /\ IsHistory(events, sequence)
    /\ cursor \in [Clients -> ClientCursor] /\ from \in [Clients -> Nat]
    /\ got \in [Clients -> SUBSET Nat] /\ sse \in [Clients -> StreamPlaces]
    /\ run \in [Clients -> {"none", "old", "this"}] /\ after \in [Clients -> Nat]
    /\ wire \in [Clients -> ClientFrame]
    /\ producer \in [Producers -> {"idle", "emitted", "open", "told"}]
Served(d) ==
    IsServed(cursor[d], from[d], got[d], sse[d], run[d], after[d], wire[d], sequence)
SpansAreShown == active \subseteq {p \in Producers : producer[p] \in {"open", "told"}}
MonitorInv == MonitorTypeOK /\ SpansAreShown /\ \A d \in Clients : Served(d)

LEMMA MonitorStart == MonitorInit => MonitorInv
<1> SUFFICES ASSUME MonitorInit PROVE MonitorInv
  OBVIOUS
<1>1. IsHistory(events, sequence)
  BY DEF MonitorInit, IsHistory
<1>2. NoCursor \in ClientCursor /\ [run |-> "old", n |-> 1] \in ClientCursor
  BY DEF NoCursor, ClientCursor
<1>3. Nothing \in ClientFrame
  BY DEF Nothing, ClientFrame
<1>4. MonitorTypeOK
  BY <1>1, <1>2, <1>3 DEF MonitorInit, MonitorTypeOK, StreamPlaces
<1>5. ASSUME NEW d \in Clients PROVE Served(d)
  <2>1. /\ cursor[d] \in {NoCursor, [run |-> "old", n |-> 1]} /\ got[d] = {}
        /\ sse[d] = "none" /\ wire[d] = Nothing
    BY <1>5 DEF MonitorInit
  <2>2. HasItsEvents(cursor[d], from[d], got[d])
    BY <2>1 DEF HasItsEvents, NoCursor
  <2> QED
    BY <2>1, <2>2 DEF Served, IsServed, WireFitsPlace, StreamFollows, PageIsDue
<1> QED
  BY <1>4, <1>5 DEF MonitorInit, MonitorInv, SpansAreShown

(* What a step does to one client leaves the others alone.                 *)
AtMost(c) ==
    /\ \A d \in Clients \ {c} :
         /\ cursor'[d] = cursor[d] /\ from'[d] = from[d] /\ got'[d] = got[d]
         /\ sse'[d] = sse[d] /\ run'[d] = run[d] /\ after'[d] = after[d] /\ wire'[d] = wire[d]

LEMMA ServesOne ==
    ASSUME MonitorInv, MonitorTypeOK', SpansAreShown', NEW c \in Clients, AtMost(c),
           sequence' = sequence, Served(c)'
    PROVE  MonitorInv'
<1>1. ASSUME NEW d \in Clients, d # c PROVE Served(d)'
  BY <1>1 DEF AtMost, MonitorInv, Served
<1> QED
  BY <1>1 DEF MonitorInv

(* Nothing of the clients changes, though the history may.                 *)
LEMMA ServesAsBefore ==
    ASSUME MonitorInv, UNCHANGED <<streams, wire, clients>>, sequence' \in Nat,
           sequence <= sequence', IsHistory(events', sequence'),
           producer' \in [Producers -> {"idle", "emitted", "open", "told"}], SpansAreShown'
    PROVE  MonitorInv'
<1>1. MonitorTypeOK'
  BY DEF MonitorInv, MonitorTypeOK, streams, clients
<1>2. ASSUME NEW d \in Clients PROVE Served(d)'
  <2>1. Served(d) /\ after[d] \in Nat /\ sequence \in Nat
    BY <1>2 DEF MonitorInv, MonitorTypeOK
  <2>2. PageIsDue(sse[d], after[d], sequence')
    BY <2>1 DEF Served, IsServed, PageIsDue
  <2> QED
    BY <2>1, <2>2 DEF Served, IsServed, streams, clients
<1> QED
  BY <1>1, <1>2 DEF MonitorInv


LEMMA SpanStep ==
    ASSUME MonitorInv, NEW p \in Producers, Span(p) PROVE MonitorInv'
<1>1. /\ sequence \in Nat /\ IsHistory(events, sequence)
      /\ producer \in [Producers -> {"idle", "emitted", "open", "told"}]
      /\ active \subseteq {o \in Producers : producer[o] \in {"open", "told"}}
  BY DEF MonitorInv, MonitorTypeOK, SpansAreShown
<1>2. ASSUME NEW f \in {"idle", "open"}, NEW t \in {"emitted", "told"},
             f = "open" => t = "told", emit(p, f, t)
      PROVE  MonitorInv'
  <2>1. /\ producer[p] = f /\ producer' = [producer EXCEPT ![p] = t] /\ active' = active
        /\ sequence' = sequence + 1 /\ UNCHANGED <<streams, wire, clients>>
        /\ events' = evict(Append(evict(events), [n |-> sequence + 1, old |-> FALSE]))
    BY <1>2 DEF emit
  <2>2. IsHistory(evict(events), sequence)
    BY <1>1, Evicted
  <2>3. IsHistory(Append(evict(events), [n |-> sequence + 1, old |-> FALSE]), sequence + 1)
    BY <1>1, <2>2, Recorded
  <2>4. sequence + 1 \in Nat /\ sequence <= sequence + 1
    BY <1>1
  <2>5. IsHistory(events', sequence')
    BY <2>1, <2>3, <2>4, Evicted
  <2>6. SpansAreShown' /\ producer' \in [Producers -> {"idle", "emitted", "open", "told"}]
    BY <1>1, <1>2, <2>1 DEF SpansAreShown
  <2> QED
    BY <2>1, <2>4, <2>5, <2>6, ServesAsBefore
<1>3. CASE show(p) \/ finish_active(p)
  <2>1. UNCHANGED <<events, sequence, streams, wire, clients>>
    BY <1>3 DEF show, finish_active, history
  <2>2. SpansAreShown' /\ producer' \in [Producers -> {"idle", "emitted", "open", "told"}]
    BY <1>1, <1>3 DEF SpansAreShown, show, finish_active
  <2>3. sequence' \in Nat /\ sequence <= sequence' /\ IsHistory(events', sequence')
    BY <1>1, <2>1
  <2> QED
    BY <2>1, <2>2, <2>3, ServesAsBefore
<1> QED
  BY <1>2, <1>3 DEF Span

LEMMA QuietSteps ==
    ASSUME MonitorInv,
           \/ Elapse \/ ServeEnds \/ RefreshEnds \/ changed \/ begin_shutdown \/ Finish
           \/ JoinTasks \/ Closed \/ (\E c \in Clients : Accept(c)) \/ UNCHANGED monitorVars
    PROVE  MonitorInv'
<1>1. sequence \in Nat /\ IsHistory(events, sequence)
  BY DEF MonitorInv, MonitorTypeOK
<1>2. UNCHANGED <<sequence, producer, active, streams, wire, clients>>
  BY DEF Elapse, ServeEnds, RefreshEnds, changed, begin_shutdown, Finish, JoinTasks, Closed,
         Accept, UnchangedServed, history, monitorVars
<1>3. \/ UNCHANGED events
      \/ events' = [i \in DOMAIN events |-> [events[i] EXCEPT !.old = TRUE]]
  BY DEF Elapse, ServeEnds, RefreshEnds, changed, begin_shutdown, Finish, JoinTasks, Closed,
         Accept, UnchangedServed, history, monitorVars
<1>4. IsHistory(events', sequence')
  BY <1>1, <1>2, <1>3, Recorded
<1>5. SpansAreShown' /\ producer' \in [Producers -> {"idle", "emitted", "open", "told"}]
  BY <1>2 DEF MonitorInv, MonitorTypeOK, SpansAreShown
<1>6. sequence' \in Nat /\ sequence <= sequence'
  BY <1>1, <1>2
<1> QED
  BY <1>2, <1>4, <1>5, <1>6, ServesAsBefore

LEMMA CloseStep ==
    ASSUME MonitorInv, NEW S, CloseAll(S) PROVE MonitorInv'
<1>1. /\ UNCHANGED <<events, sequence, active, producer, run, after, cursor, from, got>>
      /\ sse' = [c \in Clients |-> IF c \in S THEN "none" ELSE sse[c]]
      /\ wire' = [c \in Clients |-> IF c \in S THEN Nothing ELSE wire[c]]
  BY DEF CloseAll, history, clients
<1>2. Nothing \in ClientFrame
  BY DEF Nothing, ClientFrame
<1>3. MonitorTypeOK'
  BY <1>1, <1>2 DEF MonitorInv, MonitorTypeOK, StreamPlaces
<1>4. ASSUME NEW d \in Clients PROVE Served(d)'
  <2>1. Served(d)
    BY <1>4 DEF MonitorInv
  <2>2. CASE d \in S
    <3>1. sse'[d] = "none" /\ wire'[d] = Nothing
      BY <1>1, <1>4, <2>2
    <3>2. HasItsEvents(cursor[d], from[d], got[d])'
      BY <1>1, <2>1 DEF Served, IsServed
    <3> QED
      BY <3>1, <3>2 DEF Served, IsServed, WireFitsPlace, StreamFollows, PageIsDue
  <2>3. CASE d \notin S
    <3>1. sse'[d] = sse[d] /\ wire'[d] = wire[d]
      BY <1>1, <1>4, <2>3
    <3> QED
      BY <1>1, <2>1, <3>1 DEF Served
  <2> QED
    BY <2>2, <2>3
<1>5. SpansAreShown'
  BY <1>1 DEF MonitorInv, SpansAreShown
<1> QED
  BY <1>3, <1>4, <1>5 DEF MonitorInv


LEMMA SyncStep ==
    ASSUME MonitorInv, NEW c \in Clients, sync(c) PROVE MonitorInv'
<1>1. MonitorTypeOK /\ SpansAreShown /\ Served(c)
  BY DEF MonitorInv
<1>2. /\ sse[c] = "none" /\ wire[c] = Nothing /\ cursor[c] = NoCursor /\ events' = evict(events)
      /\ cursor' = [cursor EXCEPT ![c] = [run |-> "this", n |-> sequence]]
      /\ from' = [from EXCEPT ![c] = sequence]
      /\ UNCHANGED <<sequence, active, producer, sse, run, after, wire, got>>
  BY DEF sync, streams
<1>3. IsHistory(events', sequence')
  BY <1>1, <1>2, Evicted DEF MonitorTypeOK
<1>4. [run |-> "this", n |-> sequence] \in ClientCursor
  BY <1>1 DEF MonitorTypeOK, ClientCursor
<1>5. MonitorTypeOK' /\ SpansAreShown' /\ AtMost(c)
  BY <1>1, <1>2, <1>3, <1>4 DEF MonitorTypeOK, SpansAreShown, AtMost
<1>6. cursor'[c] = [run |-> "this", n |-> sequence] /\ from'[c] = sequence /\ got'[c] = {}
  <2>1. got[c] = {}
    BY <1>1, <1>2 DEF Served, IsServed, HasItsEvents, NoCursor
  <2> QED
    BY <1>1, <1>2, <2>1 DEF MonitorTypeOK
<1>7. sequence + 1 .. sequence = {} /\ sequence <= sequence
  BY <1>1 DEF MonitorTypeOK
<1>8. HasItsEvents(cursor[c], from[c], got[c])'
  BY <1>6, <1>7 DEF HasItsEvents
<1>9. Served(c)'
  BY <1>2, <1>8 DEF Served, IsServed, WireFitsPlace, StreamFollows, PageIsDue
<1> QED
  BY <1>2, <1>5, <1>9, ServesOne

LEMMA StreamStep ==
    ASSUME MonitorInv, NEW c \in Clients, stream(c) PROVE MonitorInv'
<1>1. MonitorTypeOK /\ SpansAreShown /\ Served(c)
  BY DEF MonitorInv
<1>2. /\ sse[c] = "none" /\ wire[c] = Nothing /\ events' = evict(events)
      /\ sse' = [sse EXCEPT ![c] = "top"]
      /\ UNCHANGED <<sequence, active, producer, wire, cursor, got>>
  BY DEF stream
<1>3. IsHistory(events', sequence')
  BY <1>1, <1>2, Evicted DEF MonitorTypeOK
<1>4. cursor[c] \in ClientCursor /\ sequence \in Nat /\ sse'[c] = "top" /\ from[c] \in Nat
  BY <1>1, <1>2 DEF MonitorTypeOK
<1>5. HasItsEvents(cursor[c], from[c], got[c])
  BY <1>1 DEF Served, IsServed
<1>6. CASE cursor[c] = NoCursor
  <2>1. /\ run' = [run EXCEPT ![c] = "this"] /\ after' = [after EXCEPT ![c] = sequence]
        /\ from' = [from EXCEPT ![c] = sequence]
    BY <1>6 DEF stream
  <2>2. MonitorTypeOK' /\ SpansAreShown' /\ AtMost(c)
    BY <1>1, <1>2, <1>3, <2>1 DEF MonitorTypeOK, SpansAreShown, AtMost, StreamPlaces
  <2>3. after'[c] = sequence /\ from'[c] = sequence
    BY <1>1, <2>1 DEF MonitorTypeOK
  <2>4. HasItsEvents(cursor[c], from[c], got[c])'
    BY <1>2, <1>5, <1>6 DEF HasItsEvents, NoCursor
  <2>5. StreamFollows(cursor[c], from[c], sse[c], run[c], after[c], wire[c])'
    BY <1>2, <1>6, <2>3 DEF StreamFollows, NoCursor, Nothing, Position
  <2>6. Served(c)'
    BY <1>2, <1>4, <2>4, <2>5 DEF Served, IsServed, WireFitsPlace, PageIsDue
  <2> QED
    BY <1>2, <2>2, <2>6, ServesOne
<1>7. CASE cursor[c] # NoCursor
  <2>1. /\ run' = [run EXCEPT ![c] = cursor[c].run]
        /\ after' = [after EXCEPT ![c] = cursor[c].n] /\ UNCHANGED from
    BY <1>7 DEF stream
  <2>2. cursor[c].run \in {"old", "this"} /\ cursor[c].n \in Nat
    BY <1>4, <1>5, <1>7 DEF HasItsEvents, ClientCursor
  <2>3. MonitorTypeOK' /\ SpansAreShown' /\ AtMost(c)
    BY <1>1, <1>2, <1>3, <2>1, <2>2 DEF MonitorTypeOK, SpansAreShown, AtMost, StreamPlaces
  <2>4. after'[c] = cursor[c].n /\ run'[c] = cursor[c].run
    BY <1>1, <2>1 DEF MonitorTypeOK
  <2>5. HasItsEvents(cursor[c], from[c], got[c])'
    BY <1>2, <1>5, <2>1
  <2>6. StreamFollows(cursor[c], from[c], sse[c], run[c], after[c], wire[c])'
    BY <1>2, <1>4, <2>1, <2>2, <2>4 DEF StreamFollows, Nothing, Position
  <2>7. Served(c)'
    BY <1>2, <1>4, <2>5, <2>6 DEF Served, IsServed, WireFitsPlace, PageIsDue
  <2> QED
    BY <1>2, <2>3, <2>7, ServesOne
<1> QED
  BY <1>6, <1>7

(* A frame is put on an empty wire, or none; a reset ends the stream.      *)
LEMMA ResetServes ==
    ASSUME MonitorInv, NEW c \in Clients, events' = evict(events), Send(c, "reset", {}, "done"),
           UNCHANGED after, UnchangedRest
    PROVE  MonitorInv'
<1>1. MonitorTypeOK /\ SpansAreShown /\ Served(c)
  BY DEF MonitorInv
<1>2. /\ wire' = [wire EXCEPT ![c] = [kind |-> "reset", set |-> {}]]
      /\ sse' = [sse EXCEPT ![c] = "done"]
      /\ UNCHANGED <<sequence, active, producer, run, after, cursor, from, got>>
  BY DEF Send, UnchangedRest, clients
<1>3. IsHistory(events', sequence')
  BY <1>1, <1>2, Evicted DEF MonitorTypeOK
<1>4. [kind |-> "reset", set |-> {}] \in ClientFrame
  BY DEF ClientFrame
<1>5. MonitorTypeOK' /\ SpansAreShown' /\ AtMost(c)
  BY <1>1, <1>2, <1>3, <1>4 DEF MonitorTypeOK, SpansAreShown, AtMost, StreamPlaces
<1>6. wire'[c].kind = "reset" /\ sse'[c] = "done"
  BY <1>1, <1>2 DEF MonitorTypeOK
<1>7. Served(c)'
  BY <1>1, <1>2, <1>6 DEF Served, IsServed, WireFitsPlace, StreamFollows, PageIsDue
<1> QED
  BY <1>2, <1>5, <1>7, ServesOne

(* The stream moves on at the position where it stands.                    *)
LEMMA MovesOn ==
    ASSUME MonitorInv, NEW c \in Clients, NEW place \in StreamPlaces, NEW w \in ClientFrame,
           sse[c] \in {"top", "wait"} => cursor[c].run # "old" \/ place = "none",
           wire[c].kind # "events", w.kind # "events", WireFitsPlace(w, place),
           place \in {"top", "page", "wait"} => sse[c] \in {"top", "page", "wait"},
           place = "page" => after[c] < sequence,
           IsHistory(events', sequence), sse' = [sse EXCEPT ![c] = place],
           wire' = [wire EXCEPT ![c] = w],
           UNCHANGED <<sequence, active, producer, run, after, cursor, from, got>>
    PROVE  MonitorInv'
<1>1. MonitorTypeOK /\ SpansAreShown /\ Served(c)
  BY DEF MonitorInv
<1>2. MonitorTypeOK' /\ SpansAreShown' /\ AtMost(c)
  BY <1>1 DEF MonitorTypeOK, SpansAreShown, AtMost
<1>3. wire'[c] = w /\ sse'[c] = place
  BY <1>1 DEF MonitorTypeOK
<1>4. StreamFollows(cursor[c], from[c], sse[c], run[c], after[c], wire[c])'
  BY <1>1, <1>3 DEF StreamFollows, Served, IsServed
<1>5. Served(c)'
  BY <1>1, <1>3, <1>4 DEF Served, IsServed, PageIsDue
<1> QED
  BY <1>2, <1>5, ServesOne


LEMMA StreamSteps ==
    ASSUME MonitorInv, NEW c \in Clients,
           Reset(c) \/ Snapshot(c) \/ Look(c) \/ Wait(c) \/ Done(c)
    PROVE  MonitorInv'
<1>1. MonitorTypeOK /\ Served(c) /\ sequence \in Nat /\ IsHistory(events, sequence)
  BY DEF MonitorInv, MonitorTypeOK
<1>2. IsHistory(evict(events), sequence)
  BY <1>1, Evicted
<1>3. Nothing \in ClientFrame /\ Nothing.kind # "events" /\ \A s : WireFitsPlace(Nothing, s)
  BY DEF Nothing, ClientFrame, WireFitsPlace
<1>4. wire \in [Clients -> ClientFrame] /\ sse \in [Clients -> StreamPlaces]
  BY <1>1 DEF MonitorTypeOK
<1>5. CASE Reset(c)
  BY <1>5, ResetServes DEF Reset, Polled
<1>6. ASSUME sse[c] = "top", ~OutOfWindow(c) PROVE cursor[c].run # "old"
  BY <1>1, <1>6 DEF OutOfWindow, Served, IsServed, StreamFollows
<1>7. CASE Snapshot(c)
  <2>1. /\ sse[c] = "top" /\ wire[c] = Nothing /\ events' = evict(events) /\ ~OutOfWindow(c)
        /\ UNCHANGED after /\ UnchangedRest
    BY <1>7 DEF Snapshot, Polled
  <2>2. CASE Send(c, "reset", {}, "done")
    BY <2>1, <2>2, ResetServes
  <2>3. CASE Send(c, "snapshot", {}, "top")
    <3> DEFINE w == [kind |-> "snapshot", set |-> {}]
    <3>1. w \in ClientFrame /\ w.kind # "events" /\ WireFitsPlace(w, "top")
      BY DEF ClientFrame, WireFitsPlace
    <3>2. sse' = [sse EXCEPT ![c] = "top"] /\ wire' = [wire EXCEPT ![c] = w]
      BY <2>3 DEF Send
    <3>3. UNCHANGED <<sequence, active, producer, run, after, cursor, from, got>>
      BY <2>1 DEF UnchangedRest, clients
    <3>4. "top" \in StreamPlaces /\ wire[c].kind # "events"
      BY <1>3, <2>1 DEF StreamPlaces
    <3> HIDE DEF w
    <3> QED
      BY <1>2, <1>6, <2>1, <3>1, <3>2, <3>3, <3>4, MovesOn
  <2> QED
    BY <1>7, <2>2, <2>3 DEF Snapshot
<1>8. CASE Look(c)
  <2> DEFINE s == IF after[c] < sequence THEN "page" ELSE IF finish THEN "none" ELSE "wait"
  <2>1. /\ sse[c] = "top" /\ wire[c] = Nothing /\ events' = evict(events) /\ ~OutOfWindow(c)
        /\ sse' = [sse EXCEPT ![c] = s]
        /\ UNCHANGED <<wire, sequence, active, producer, run, after, cursor, from, got>>
    BY <1>8 DEF Look, Polled, UnchangedRest, clients
  <2>2. s \in StreamPlaces /\ (s = "page" => after[c] < sequence)
    BY DEF StreamPlaces
  <2>3. wire' = [wire EXCEPT ![c] = Nothing]
    BY <1>4, <2>1
  <2>4. wire[c].kind # "events" /\ WireFitsPlace(Nothing, s)
    BY <1>3, <2>1
  <2> HIDE DEF s
  <2> QED
    BY <1>2, <1>3, <1>6, <2>1, <2>2, <2>3, <2>4, MovesOn
<1>9. CASE Wait(c)
  <2>1. /\ sse[c] = "wait" /\ sse' = [sse EXCEPT ![c] = "top"]
        /\ UNCHANGED <<events, wire, sequence, active, producer, run, after, cursor, from, got>>
    BY <1>9 DEF Wait, UnchangedRest, clients
  <2>2. wire[c] = Nothing /\ cursor[c].run # "old"
    BY <1>1, <2>1 DEF Served, IsServed, WireFitsPlace, StreamFollows
  <2>3. wire' = [wire EXCEPT ![c] = Nothing] /\ wire[c].kind # "events"
    BY <1>3, <1>4, <2>1, <2>2
  <2>4. "top" \in StreamPlaces /\ WireFitsPlace(Nothing, "top")
    BY <1>3 DEF StreamPlaces
  <2> QED
    BY <1>1, <1>3, <2>1, <2>2, <2>3, <2>4, MovesOn
<1>10. CASE Done(c)
  <2>1. /\ sse[c] = "done" /\ wire[c] = Nothing /\ sse' = [sse EXCEPT ![c] = "none"]
        /\ UNCHANGED <<events, wire, sequence, active, producer, run, after, cursor, from, got>>
    BY <1>10 DEF Done, UnchangedRest, clients
  <2>2. wire' = [wire EXCEPT ![c] = Nothing] /\ wire[c].kind # "events"
    BY <1>3, <1>4, <2>1
  <2>3. "none" \in StreamPlaces /\ WireFitsPlace(Nothing, "none")
    BY <1>3 DEF StreamPlaces
  <2> QED
    BY <1>1, <1>3, <2>1, <2>2, <2>3, MovesOn
<1> QED
  BY <1>5, <1>7, <1>8, <1>9, <1>10

LEMMA PageStep ==
    ASSUME MonitorInv, NEW c \in Clients, page(c) PROVE MonitorInv'
<1>1. MonitorTypeOK /\ SpansAreShown /\ Served(c)
  BY DEF MonitorInv
<1>2. sse[c] = "page" /\ wire[c] = Nothing /\ events' = evict(events) /\ UnchangedRest
  BY DEF page, Polled
<1>3. CASE after[c] + 1 < oldest
  BY <1>2, <1>3, ResetServes DEF page
<1>4. CASE ~(after[c] + 1 < oldest)
  <2>1. /\ wire' = [wire EXCEPT ![c] = [kind |-> "events", set |-> Shown(c)]]
        /\ sse' = [sse EXCEPT ![c] = "top"]
        /\ after' = [after EXCEPT ![c] = Max(Shown(c) \cup {after[c]})]
        /\ UNCHANGED <<sequence, active, producer, run, cursor, from, got>>
    BY <1>2, <1>4 DEF page, SendShown, Send, UnchangedRest, clients
  <2>2. sequence \in Nat /\ after[c] \in Nat /\ IsHistory(evict(events), sequence)
    BY <1>1, Evicted DEF MonitorTypeOK
  <2>3. after[c] < sequence /\ cursor[c].run # "old" /\ after[c] = Position(cursor[c], from[c])
    BY <1>1, <1>2 DEF Served, IsServed, StreamFollows, PageIsDue, Nothing
  <2>4. PICK b \in Nat : /\ after[c] < b /\ Shown(c) = after[c] + 1 .. b
                         /\ Max(Shown(c) \cup {after[c]}) = b
    BY <1>4, <2>2, <2>3, PageIsNext
  <2>5. [kind |-> "events", set |-> Shown(c)] \in ClientFrame
    BY <2>2, <2>4 DEF ClientFrame
  <2>6. MonitorTypeOK' /\ SpansAreShown' /\ AtMost(c)
    BY <1>1, <1>2, <2>1, <2>2, <2>4, <2>5
    DEF MonitorTypeOK, SpansAreShown, AtMost, StreamPlaces
  <2>7. /\ wire'[c] = [kind |-> "events", set |-> Shown(c)] /\ after'[c] = b
        /\ sse'[c] = "top"
    BY <1>1, <2>1, <2>4 DEF MonitorTypeOK
  <2>8. StreamFollows(cursor[c], from[c], sse[c], run[c], after[c], wire[c])'
    BY <2>1, <2>3, <2>4, <2>7 DEF StreamFollows, Position
  <2>9. Served(c)'
    BY <1>1, <2>1, <2>7, <2>8 DEF Served, IsServed, WireFitsPlace, PageIsDue
  <2> QED
    BY <2>1, <2>6, <2>9, ServesOne
<1> QED
  BY <1>3, <1>4

LEMMA ReceiveStep ==
    ASSUME MonitorInv, NEW c \in Clients, Receive(c) PROVE MonitorInv'
<1>1. MonitorTypeOK /\ SpansAreShown /\ Served(c)
  BY DEF MonitorInv
<1>2. /\ wire[c] # Nothing /\ wire' = [wire EXCEPT ![c] = Nothing]
      /\ UNCHANGED <<events, sequence, active, producer, sse, run, after>>
  BY DEF Receive, history, streams
<1>3. Nothing \in ClientFrame /\ wire'[c] = Nothing
  BY <1>1, <1>2 DEF Nothing, ClientFrame, MonitorTypeOK
<1>4. /\ cursor[c] \in ClientCursor /\ from[c] \in Nat /\ after[c] \in Nat
      /\ got[c] \in SUBSET Nat /\ wire[c] \in ClientFrame
  BY <1>1 DEF MonitorTypeOK
<1>5. CASE wire[c].kind = "events"
  <2>1. /\ got' = [got EXCEPT ![c] = @ \cup wire[c].set] /\ UNCHANGED from
        /\ cursor' = [cursor EXCEPT ![c] = [run |-> "this", n |-> Max(wire[c].set)]]
    BY <1>5 DEF Receive
  <2> DEFINE base == Position(cursor[c], from[c])
  <2>2. /\ sse[c] = "top" /\ cursor[c].run # "old" /\ base < after[c]
        /\ wire[c].set = base + 1 .. after[c]
    <3>1. sse[c] = "top"
      BY <1>1, <1>2, <1>5 DEF Served, IsServed, WireFitsPlace
    <3> QED
      BY <1>1, <1>2, <1>5, <3>1 DEF Served, IsServed, StreamFollows
  <2>3. base \in Nat /\ from[c] <= base /\ got[c] = from[c] + 1 .. base
    <3>1. HasItsEvents(cursor[c], from[c], got[c])
      BY <1>1 DEF Served, IsServed
    <3>2. CASE cursor[c].run = "this"
      BY <1>4, <3>1, <3>2 DEF HasItsEvents, Position, ClientCursor
    <3>3. CASE cursor[c].run # "this"
      <4>1. base = from[c] /\ got[c] = {}
        BY <3>1, <3>3 DEF HasItsEvents, Position
      <4> QED
        BY <1>4, <4>1
    <3> QED
      BY <3>2, <3>3
  <2> HIDE DEF base
  <2>4. Max(wire[c].set) = after[c]
    <3>1. base + 1 \in Nat /\ base + 1 <= after[c]
      BY <1>4, <2>2, <2>3
    <3> QED
      BY <1>4, <2>2, <3>1, TopOfInterval
  <2>5. got[c] \cup wire[c].set = from[c] + 1 .. after[c]
    BY <1>4, <2>2, <2>3
  <2>6. cursor'[c] = [run |-> "this", n |-> after[c]] /\ got'[c] = from[c] + 1 .. after[c]
    BY <1>1, <2>1, <2>4, <2>5 DEF MonitorTypeOK
  <2>7. [run |-> "this", n |-> after[c]] \in ClientCursor /\ from[c] + 1 .. after[c] \in SUBSET Nat
    BY <1>4 DEF ClientCursor
  <2>8. MonitorTypeOK' /\ SpansAreShown' /\ AtMost(c)
    BY <1>1, <1>2, <1>3, <2>1, <2>4, <2>5, <2>7 DEF MonitorTypeOK, SpansAreShown, AtMost
  <2>9. HasItsEvents(cursor[c], from[c], got[c])'
    <3>1. from[c] <= after[c]
      BY <1>4, <2>2, <2>3
    <3> QED
      BY <2>1, <2>6, <3>1 DEF HasItsEvents
  <2>10. Served(c)'
    BY <1>2, <1>3, <2>2, <2>6, <2>9
    DEF Served, IsServed, WireFitsPlace, StreamFollows, Position, PageIsDue, Nothing
  <2> QED
    BY <1>2, <2>8, <2>10, ServesOne
<1>6. CASE wire[c].kind = "reset"
  <2>1. /\ cursor' = [cursor EXCEPT ![c] = NoCursor] /\ got' = [got EXCEPT ![c] = {}]
        /\ from' = [from EXCEPT ![c] = 0]
    BY <1>6 DEF Receive
  <2>2. NoCursor \in ClientCursor
    BY DEF NoCursor, ClientCursor
  <2>3. MonitorTypeOK' /\ SpansAreShown' /\ AtMost(c)
    BY <1>1, <1>2, <1>3, <2>1, <2>2 DEF MonitorTypeOK, SpansAreShown, AtMost
  <2>4. cursor'[c] = NoCursor /\ got'[c] = {} /\ sse'[c] = "done"
    <3>1. sse[c] = "done"
      BY <1>1, <1>2, <1>6 DEF Served, IsServed, WireFitsPlace
    <3> QED
      BY <1>1, <1>2, <2>1, <3>1 DEF MonitorTypeOK
  <2>5. Served(c)'
    BY <1>3, <2>4
    DEF Served, IsServed, HasItsEvents, WireFitsPlace, StreamFollows, PageIsDue, NoCursor
  <2> QED
    BY <1>2, <2>3, <2>5, ServesOne
<1>7. CASE wire[c].kind \notin {"events", "reset"}
  <2>1. UNCHANGED <<cursor, from, got>>
    BY <1>7 DEF Receive, clients
  <2>2. MonitorTypeOK' /\ SpansAreShown' /\ AtMost(c)
    BY <1>1, <1>2, <1>3, <2>1 DEF MonitorTypeOK, SpansAreShown, AtMost
  <2>3. Served(c)'
    BY <1>1, <1>2, <1>3, <1>7, <2>1
    DEF Served, IsServed, WireFitsPlace, StreamFollows, PageIsDue, Nothing
  <2> QED
    BY <1>2, <2>2, <2>3, ServesOne
<1> QED
  BY <1>5, <1>6, <1>7

LEMMA MonitorStep == MonitorInv /\ [MonitorNext]_monitorVars => MonitorInv'
<1> SUFFICES ASSUME MonitorInv, [MonitorNext]_monitorVars PROVE MonitorInv'
  OBVIOUS
<1>1. ASSUME NEW c \in Clients, Disconnect(c) PROVE MonitorInv'
  BY <1>1, CloseStep DEF Disconnect
<1>2. CASE JoinConnections
  BY <1>2, CloseStep DEF JoinConnections
<1> QED
  BY <1>1, <1>2, SpanStep, QuietSteps, SyncStep, StreamStep, StreamSteps, PageStep, ReceiveStep
  DEF MonitorNext

(* For any number of clients, any pages and any limits of the history: a   *)
(* client that is not told to start over has every event from where it     *)
(* began up to its cursor, and no ended span is shown as under way.        *)
THEOREM StreamsStayFaithful == MonitorSpec => []StreamsAreFaithful
<1>1. MonitorInv => StreamsAreFaithful
  <2>1. ASSUME MonitorInv PROVE NoEventIsSkipped
    BY <2>1 DEF MonitorInv, Served, IsServed, HasItsEvents, NoEventIsSkipped
  <2>2. ASSUME MonitorInv PROVE ShownIsUnderWay
    BY <2>2 DEF MonitorInv, SpansAreShown, ShownIsUnderWay
  <2> QED
    BY <2>1, <2>2 DEF StreamsAreFaithful
<1> QED
  BY <1>1, MonitorStart, MonitorStep, PTL DEF MonitorSpec
=============================================================================
