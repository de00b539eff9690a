----------------------- MODULE AccountSessions_proofs -----------------------
(***************************************************************************)
(* Theorems about AccountSessions, for every set of addresses, identities, *)
(* browsers and administrators and every bound, and, in the second half,   *)
(* about the sign-in limiter (AuthLimiter), for every setting and room.    *)
(*                                                                         *)
(* Types come first.  Then a step is summarised three times, once for each *)
(* thing it can touch: StoreSteps (one account record, in one of thirteen  *)
(* ways), LoopSteps (the handler on the loop), InviteSteps.  The           *)
(* invariants of generations, identities, links and passwords are proved   *)
(* from these summaries and never look at the actions again.               *)
(***************************************************************************)
EXTENDS AccountSessions, AuthLimiter, TLAPS, SequenceTheorems, WellFoundedInduction

(* The fields of an account record after each way of writing it.           *)

LEMMA BlankIsAnAccount == Blank \in Accounts /\ NoLink \in Kept /\ Out \in Cookies
  BY BoundsAreNat DEF Blank, NoLink, Out, Accounts, Kept, Cookies, Gens, Links, Legacy

LEMMA FreshRecord ==
  ASSUME NEW g \in Gens
  PROVE  LET v == Fresh(g) IN
         /\ v \in Accounts /\ v.profile /\ v.auth /\ v.gen = g /\ ~v.pw /\ ~v.sso
         /\ v.id = None /\ v.link = 0 /\ ~v.used
  BY BlankIsAnAccount DEF Fresh, Blank, Accounts, Gens, Links, Legacy

LEMMA ConsumedRecord ==
  ASSUME NEW r \in Accounts, NEW g \in Gens
  PROVE  LET v == Consumed(r, g) IN
         /\ v \in Accounts /\ v.profile = r.profile /\ v.auth = r.auth /\ v.gen = g /\ v.pw
         /\ v.sso = r.sso /\ v.id = r.id /\ v.link = r.link /\ v.used
  BY DEF Consumed, Accounts, Gens

LEMMA StampedRecord ==
  ASSUME NEW r \in Accounts, NEW g \in Gens
  PROVE  LET v == Stamped(r, g) IN
         /\ v \in Accounts /\ v.profile = r.profile /\ v.auth /\ v.gen = g /\ v.pw = r.pw
         /\ v.sso = r.sso /\ v.id = r.id /\ v.link = r.link /\ v.used = r.used
  BY DEF Stamped, Accounts, Gens

LEMMA LinkedRecord ==
  ASSUME NEW r \in Accounts, NEW t \in Links
  PROVE  LET v == Linked(r, t) IN
         /\ v \in Accounts /\ v.profile = r.profile /\ v.auth /\ v.gen = r.gen /\ v.pw = r.pw
         /\ v.sso = r.sso /\ v.id = r.id /\ v.link = t /\ ~v.used
  BY DEF Linked, Accounts, Links

LEMMA RelinkedRecord ==
  ASSUME NEW r \in Accounts, NEW k \in Kept
  PROVE  LET v == Relinked(r, k) IN
         /\ v \in Accounts /\ v.profile = r.profile /\ v.auth = r.auth /\ v.gen = r.gen
         /\ v.pw = r.pw /\ v.sso = r.sso /\ v.id = r.id /\ v.link = k.link /\ v.used = k.used
  BY DEF Relinked, Accounts, Kept

LEMMA KeyedRecord ==
  ASSUME NEW r \in Accounts, NEW g \in Gens
  PROVE  LET v == Keyed(r, g) IN
         /\ v \in Accounts /\ v.profile = r.profile /\ v.auth /\ v.gen = g /\ v.pw
         /\ v.sso = r.sso /\ v.id = r.id /\ v.link = 0 /\ ~v.used
<1> DEFINE u == Relinked(r, NoLink)
<1>1. /\ u \in Accounts /\ u.profile = r.profile /\ u.auth = r.auth /\ u.gen = r.gen
      /\ u.pw = r.pw /\ u.sso = r.sso /\ u.id = r.id /\ u.link = 0 /\ ~u.used
  BY BlankIsAnAccount, RelinkedRecord DEF NoLink
<1>2. LET v == [u EXCEPT !.auth = TRUE, !.pw = TRUE, !.gen = g] IN
      /\ v \in Accounts /\ v.profile = u.profile /\ v.auth /\ v.gen = g /\ v.pw
      /\ v.sso = u.sso /\ v.id = u.id /\ v.link = u.link /\ v.used = u.used
  <2> HIDE DEF u
  <2> QED
    BY <1>1 DEF Accounts
<1> QED
  BY <1>1, <1>2 DEF Keyed

LEMMA MarkedRecord ==
  ASSUME NEW r \in Accounts
  PROVE  LET v == Marked(r) IN
         /\ v \in Accounts /\ v.profile = r.profile /\ v.auth /\ v.gen = r.gen
         /\ v.pw = r.pw /\ v.sso /\ v.id = r.id /\ v.link = r.link /\ v.used = r.used
  BY DEF Marked, Accounts

LEMMA BoundRecord ==
  ASSUME NEW r \in Accounts, NEW i \in Ids
  PROVE  LET v == Bound(r, i) IN
         /\ v \in Accounts /\ v.profile = r.profile /\ v.auth /\ v.gen = r.gen
         /\ v.pw = r.pw /\ v.sso = r.sso /\ v.id = i /\ v.link = r.link /\ v.used = r.used
  BY DEF Bound, Accounts

-----------------------------------------------------------------------------
(* Types.                                                                   *)

\* The handlers, the worker and the invitations that are under way name an
\* account, and a browser, an administrator or an identity where they need one.
HandlerPlaced(h) ==
  /\ h.at # "idle" => h.addr \in Addrs
  /\ h.at \in {"setpw", "start", "change", "bind", "mark"} => h.b \in Browsers
  /\ h.at = "mint" => h.b \in Admins
  /\ h.at \in {"bind", "mark"} => h.id \in Ids

Placed ==
  /\ HandlerPlaced(loop)
  /\ sender.at # "idle" => sender.addr \in Addrs
  /\ \A i \in Admins : invite[i] # NoInvite => invite[i].addr \in Addrs
  /\ \A b \in Browsers : pending[b] # Out => pending[b].addr \in Addrs

TInv == TypeOK /\ Placed

Stored ==
  /\ acct \in [Addrs -> Accounts]
  /\ cache \in [Addrs -> Gens \cup {NoEntry}]
  /\ gens \in Gens

LEMMA WriteTyped ==
  ASSUME TInv, NEW a \in Addrs, NEW r \in Accounts, acct' = [acct EXCEPT ![a] = r]
  PROVE  /\ acct' \in [Addrs -> Accounts] /\ acct'[a] = r
         /\ \A c \in Addrs : c # a => acct'[c] = acct[c]
  BY DEF TInv, TypeOK

LEMMA FilledTyped ==
  ASSUME TInv, NEW a \in Addrs
  PROVE  /\ Filled(a) \in [Addrs -> Gens \cup {NoEntry}]
         /\ Exists(a) => Filled(a)[a] \in Gens
         /\ cache[a] # NoEntry => Filled(a)[a] \in Gens
  BY DEF TInv, TypeOK, Filled, Accounts

LEMMA NextGen ==
  ASSUME TInv, gens < MaxGen
  PROVE  gens + 1 \in Gens
  BY BoundsAreNat DEF TInv, TypeOK, Gens

LEMMA NewGenerationTyped ==
  ASSUME TInv, NEW a \in Addrs, NewGeneration(a)
  PROVE  /\ gens + 1 \in Gens /\ gens' \in Gens
         /\ cache' \in [Addrs -> Gens \cup {NoEntry}]
  BY NextGen DEF NewGeneration, TInv, TypeOK

LEMMA SetPasswordTyped ==
  ASSUME TInv, NEW a \in Addrs, SetPassword(a)
  PROVE  Stored'
<1>1. gens + 1 \in Gens /\ gens' \in Gens /\ cache' \in [Addrs -> Gens \cup {NoEntry}]
  BY NewGenerationTyped DEF SetPassword
<1>2. Keyed(acct[a], gens + 1) \in Accounts
  BY <1>1, KeyedRecord DEF TInv, TypeOK
<1>3. acct' = [acct EXCEPT ![a] = Keyed(acct[a], gens + 1)]
  BY DEF SetPassword
<1> QED
  BY <1>1, <1>2, <1>3, WriteTyped DEF Stored

LEMMA NewAccountTyped ==
  ASSUME TInv, NEW a \in Addrs, NewAccount(a)
  PROVE  Stored'
<1>1. gens + 1 \in Gens
  BY NextGen DEF NewAccount
<1>2. Fresh(gens + 1) \in Accounts
  BY <1>1, FreshRecord
<1>3. acct' \in [Addrs -> Accounts]
  BY <1>2, WriteTyped DEF NewAccount
<1> QED
  BY <1>1, <1>3 DEF NewAccount, Stored, TInv, TypeOK

LEMMA ProfileTyped ==
  ASSUME TInv, NEW a \in Addrs, acct' = [acct EXCEPT ![a].profile = TRUE]
  PROVE  acct' \in [Addrs -> Accounts]
<1>1. acct[a] \in Accounts
  BY DEF TInv, TypeOK
<1>2. [acct[a] EXCEPT !.profile = TRUE] \in Accounts
  BY <1>1 DEF Accounts
<1>3. acct' = [acct EXCEPT ![a] = [acct[a] EXCEPT !.profile = TRUE]]
  OBVIOUS
<1> QED
  BY <1>2, <1>3, WriteTyped

LEMMA HeldTyped ==
  ASSUME NEW at \in Places, NEW b \in Browsers \cup Admins \cup {None},
         NEW a \in Addrs \cup {None}, NEW i \in Ids \cup {None}, NEW t \in Links,
         NEW p \in Kept
  PROVE  LET h == Held(at, b, a, i, t, p) IN
         /\ h \in Handlers /\ h.at = at /\ h.b = b /\ h.addr = a /\ h.id = i
         /\ h.link = t /\ h.prev = p
  BY DEF Held, Handlers

LEMMA IdleTyped == Idle \in Handlers /\ Idle.at = "idle"
  BY BlankIsAnAccount, BoundsAreNat, HeldTyped DEF Idle, Places, Links

LEMMA GoesTyped ==
  ASSUME NEW at \in Places, NEW b \in Browsers \cup Admins \cup {None},
         NEW a \in Addrs \cup {None}, NEW i \in Ids \cup {None}, Goes(at, b, a, i)
  PROVE  loop' \in Handlers /\ loop'.at = at /\ loop'.b = b /\ loop'.addr = a /\ loop'.id = i
<1>1. 0 \in Links /\ NoLink \in Kept
  BY BlankIsAnAccount, BoundsAreNat DEF Links
<1>2. loop' = Held(at, b, a, i, 0, NoLink)
  BY DEF Goes
<1>3. LET h == Held(at, b, a, i, 0, NoLink) IN
      h \in Handlers /\ h.at = at /\ h.b = b /\ h.addr = a /\ h.id = i
  BY <1>1 DEF Held, Handlers
<1> QED
  BY <1>2, <1>3

LEMMA EndsTyped == ASSUME Ends PROVE loop' \in Handlers /\ loop'.at = "idle"
  BY IdleTyped DEF Ends

LEMMA FaultTyped == ASSUME TInv, Fault PROVE faults' \in 0..MaxFaults
  BY BoundsAreNat DEF Fault, TInv, TypeOK

LEMMA LinksOfTyped ==
  ASSUME TInv, NEW a
  PROVE  LinksOf(a) \subseteq 1..MaxLink /\ spent \cup LinksOf(a) \subseteq 1..MaxLink
<1>1. minted \in Seq(Addrs) /\ Len(minted) \in Nat /\ Len(minted) <= MaxLink
      /\ DOMAIN minted = 1..Len(minted) /\ spent \subseteq 1..MaxLink
  BY LenProperties DEF TInv, TypeOK
<1>2. \A t \in DOMAIN minted : t \in 1..MaxLink
  BY <1>1, BoundsAreNat
<1> QED
  BY <1>1, <1>2 DEF LinksOf

LEMMA MintLinkTyped ==
  ASSUME TInv, NEW a \in Addrs, MintLink(a)
  PROVE  /\ Len(minted) + 1 \in Links
         /\ minted' \in Seq(Addrs) /\ Len(minted') = Len(minted) + 1 /\ Len(minted') <= MaxLink
         /\ minted'[Len(minted) + 1] = a
         /\ \A t \in DOMAIN minted : minted'[t] = minted[t]
         /\ acct' \in [Addrs -> Accounts] /\ acct'[a] = Linked(acct[a], Len(minted) + 1)
         /\ \A c \in Addrs : c # a => acct'[c] = acct[c]
<1>1. Len(minted) \in Nat /\ Len(minted) + 1 \in Links
  BY BoundsAreNat DEF TInv, TypeOK, MintLink, Links
<1>2. Linked(acct[a], Len(minted) + 1) \in Accounts
  BY <1>1, LinkedRecord DEF TInv, TypeOK
<1>3. acct' = [acct EXCEPT ![a] = Linked(acct[a], Len(minted) + 1)]
  BY DEF MintLink
<1>4. minted \in Seq(Addrs) /\ minted' = Append(minted, a) /\ Len(minted) + 1 <= MaxLink
  BY <1>1 DEF TInv, TypeOK, MintLink, Links
<1>5. /\ minted' \in Seq(Addrs) /\ Len(minted') = Len(minted) + 1
      /\ minted'[Len(minted) + 1] = a
      /\ \A t \in DOMAIN minted : minted'[t] = minted[t]
  BY <1>4, AppendProperties
<1> QED
  BY <1>1, <1>2, <1>3, <1>4, <1>5, WriteTyped

LEMMA RestoredTyped ==
  ASSUME TInv, NEW a \in Addrs, NEW link \in Links, NEW prev \in Kept
  PROVE  Restored(a, link, prev) \in [Addrs -> Accounts]
<1>1. Relinked(acct[a], prev) \in Accounts
  BY RelinkedRecord DEF TInv, TypeOK
<1> QED
  BY <1>1 DEF Restored, TInv, TypeOK

LEMMA BlankTyped ==
  LET p == [Blank EXCEPT !.profile = TRUE] IN
  p \in Accounts /\ p.profile /\ ~p.auth /\ p.gen = Legacy /\ ~p.pw /\ ~p.sso /\ p.id = None
                 /\ p.link = 0 /\ ~p.used
  BY BlankIsAnAccount DEF Blank, Accounts

-----------------------------------------------------------------------------
LEMMA TypesInit == Init => TInv
<1> SUFFICES ASSUME Init PROVE TInv
  OBVIOUS
<1>1. LegacyAccount \in Accounts
  BY BlankTyped DEF LegacyAccount
<1>2. acct \in [Addrs -> Accounts]
  BY <1>1, BlankIsAnAccount DEF Init
<1>3. session \in [Browsers -> Cookies]
  BY BlankIsAnAccount, BoundsAreNat DEF Init, Cookies, Gens, Legacy
<1>4. pending \in [Browsers -> Cookies] /\ \A b \in Browsers : pending[b] = Out
  BY BlankIsAnAccount DEF Init
<1>5. loop \in Handlers /\ loop.at = "idle"
  BY IdleTyped DEF Init
<1>6. sender \in [at : {"idle", "mint", "mail"}, addr : Addrs \cup {None}] /\ sender.at = "idle"
  BY DEF Init, Asleep
<1>7. invite \in [Admins -> Invites] /\ \A i \in Admins : invite[i] = NoInvite
  BY BlankIsAnAccount, BoundsAreNat DEF Init, Invites, NoInvite, Links
<1>8. /\ cache \in [Addrs -> Gens \cup {NoEntry}]
      /\ gens \in Gens /\ minted \in Seq(Addrs) /\ Len(minted) <= MaxLink
      /\ spent \subseteq 1..MaxLink /\ ssoOn \in BOOLEAN /\ faults \in 0..MaxFaults
  BY BoundsAreNat DEF Init, Gens
<1>9. TypeOK
  BY <1>2, <1>3, <1>4, <1>5, <1>6, <1>7, <1>8 DEF TypeOK
<1>10. Placed
  BY <1>4, <1>5, <1>6, <1>7 DEF Placed, HandlerPlaced
<1> QED
  BY <1>9, <1>10 DEF TInv

\* What no step of a thread touches but its own worker.
LEMMA ThreadTypes ==
  ASSUME TInv, Stored', UNCHANGED <<session, pending, loop, invite, ssoOn>>,
         minted' \in Seq(Addrs), Len(minted') <= MaxLink, spent' \subseteq 1..MaxLink,
         faults' \in 0..MaxFaults,
         sender' \in [at : {"idle", "mint", "mail"}, addr : Addrs \cup {None}],
         sender'.at # "idle" => sender'.addr \in Addrs
  PROVE  TInv'
<1>1. TypeOK'
  BY DEF TInv, TypeOK, Stored
<1>2. Placed'
  BY DEF TInv, Placed, HandlerPlaced
<1> QED
  BY <1>1, <1>2 DEF TInv

LEMMA ThreadsKeepTypes ==
  ASSUME TInv, Threads
  PROVE  TInv'
<1> USE DEF flows
<1>0. /\ minted \in Seq(Addrs) /\ Len(minted) <= MaxLink /\ spent \subseteq 1..MaxLink
      /\ faults \in 0..MaxFaults
      /\ sender \in [at : {"idle", "mint", "mail"}, addr : Addrs \cup {None}]
      /\ (sender.at # "idle" => sender.addr \in Addrs)
      /\ Stored
  BY DEF TInv, TypeOK, Placed, Stored
<1>1. ASSUME NEW a \in Addrs, RemoveUser(a)
      PROVE  TInv'
  <2>1. Stored'
    BY <1>0, <1>1, BlankIsAnAccount, WriteTyped DEF RemoveUser, Stored
  <2> QED
    BY <1>0, <1>1, <2>1, LinksOfTyped, ThreadTypes DEF RemoveUser
<1>2. ASSUME NEW a \in Addrs, RemoveUserFails(a)
      PROVE  TInv'
  <2>1. acct' \in [Addrs -> Accounts]
    <3>1. CASE acct' = [acct EXCEPT ![a] = [Blank EXCEPT !.profile = TRUE]]
      BY <3>1, BlankTyped, WriteTyped
    <3>2. CASE acct' = [acct EXCEPT ![a].profile = FALSE]
      BY <1>0, <3>2, ZenonT(60) DEF Stored, Accounts
    <3> QED
      BY <1>2, <3>1, <3>2 DEF RemoveUserFails
  <2>2. Stored'
    BY <1>0, <1>2, <2>1 DEF RemoveUserFails, Stored
  <2>3. faults' \in 0..MaxFaults
    BY <1>2, FaultTyped DEF RemoveUserFails
  <2> QED
    BY <1>0, <1>2, <2>2, <2>3, ThreadTypes DEF RemoveUserFails
<1>3. ASSUME NEW a \in Addrs, BumpGeneration(a)
      PROVE  TInv'
  <2>1. gens + 1 \in Gens /\ gens' \in Gens /\ cache' \in [Addrs -> Gens \cup {NoEntry}]
    BY <1>3, NewGenerationTyped DEF BumpGeneration
  <2>2. Stamped(acct[a], gens + 1) \in Accounts
    BY <1>0, <2>1, StampedRecord DEF Stored
  <2>3. acct' = [acct EXCEPT ![a] = Stamped(acct[a], gens + 1)]
    BY <1>3 DEF BumpGeneration
  <2>4. Stored'
    BY <2>1, <2>2, <2>3, WriteTyped DEF Stored
  <2> QED
    BY <1>0, <1>3, <2>4, ThreadTypes DEF BumpGeneration
<1>4. ASSUME NEW a \in Mailed, SenderChecks(a)
      PROVE  TInv'
  <2>1. a \in Addrs
    BY ApprovedAreAddrs
  <2>2. Stored'
    BY <1>0, <1>4 DEF SenderChecks, records, Stored
  <2> QED
    BY <1>0, <1>4, <2>1, <2>2, ThreadTypes DEF SenderChecks, records
<1>5. ASSUME SenderMints
      PROVE  TInv'
  <2>0. sender.addr \in Addrs
    BY <1>0, <1>5 DEF SenderMints
  <2>1. CASE Exists(sender.addr)
    <3>1. MintLink(sender.addr) /\ sender' = [at |-> "mail", addr |-> sender.addr]
      BY <1>5, <2>1 DEF SenderMints
    <3>2. /\ minted' \in Seq(Addrs) /\ Len(minted') <= MaxLink
          /\ acct' \in [Addrs -> Accounts]
      BY <2>0, <3>1, MintLinkTyped
    <3>3. Stored'
      BY <1>0, <1>5, <3>2 DEF SenderMints, Stored
    <3> QED
      BY <1>0, <1>5, <2>0, <3>1, <3>2, <3>3, ThreadTypes DEF SenderMints
  <2>2. CASE ~Exists(sender.addr)
    <3>1. Stored'
      BY <1>0, <1>5, <2>2 DEF SenderMints, Stored
    <3> QED
      BY <1>0, <1>5, <2>2, <3>1, ThreadTypes DEF SenderMints, Asleep
  <2> QED
    BY <2>1, <2>2
<1>6. ASSUME NEW delivered \in BOOLEAN, SenderMails(delivered)
      PROVE  TInv'
  <2>0. sender.addr \in Addrs
    BY <1>0, <1>6 DEF SenderMails
  <2>1. Relinked(acct[sender.addr], NoLink) \in Accounts
    BY <1>0, <2>0, BlankIsAnAccount, RelinkedRecord DEF Stored
  <2>2. Stored'
    BY <1>0, <1>6, <2>0, <2>1 DEF SenderMails, Stored
  <2> QED
    BY <1>0, <1>6, <2>2, ThreadTypes DEF SenderMails, Asleep
<1> QED
  BY <1>1, <1>2, <1>3, <1>4, <1>5, <1>6 DEF Threads

-----------------------------------------------------------------------------
\* What no handler touches but the invitation it holds.
LEMMA HandlerTypes ==
  ASSUME TInv, Stored', UNCHANGED sender,
         minted' \in Seq(Addrs), Len(minted') <= MaxLink, spent' \subseteq 1..MaxLink,
         faults' \in 0..MaxFaults, ssoOn' \in BOOLEAN,
         session' \in [Browsers -> Cookies], pending' \in [Browsers -> Cookies],
         \A b \in Browsers : pending'[b] # Out => pending'[b].addr \in Addrs,
         loop' \in Handlers, HandlerPlaced(loop'),
         invite' \in [Admins -> Invites],
         \A i \in Admins : invite'[i] # NoInvite => invite'[i].addr \in Addrs
  PROVE  TInv'
<1>1. TypeOK'
  BY DEF TInv, TypeOK, Stored
<1>2. Placed'
  BY DEF TInv, Placed, HandlerPlaced
<1> QED
  BY <1>1, <1>2 DEF TInv

LEMMA GoesPlaced ==
  ASSUME NEW at \in Places, NEW b \in Browsers \cup Admins \cup {None},
         NEW a \in Addrs, NEW i \in Ids \cup {None}, Goes(at, b, a, i), at # "mint",
         at \in {"setpw", "start", "change", "bind", "mark"} => b \in Browsers,
         at \in {"bind", "mark"} => i \in Ids
  PROVE  loop' \in Handlers /\ HandlerPlaced(loop')
<1>1. loop' \in Handlers /\ loop'.at = at /\ loop'.b = b /\ loop'.addr = a /\ loop'.id = i
  BY GoesTyped
<1> QED
  BY <1>1 DEF HandlerPlaced

LEMMA EndsPlaced == ASSUME Ends PROVE loop' \in Handlers /\ HandlerPlaced(loop')
  BY EndsTyped DEF HandlerPlaced

LEMMA ProfileStored ==
  ASSUME TInv, NEW a \in Addrs, acct' = [acct EXCEPT ![a].profile = TRUE],
         UNCHANGED <<cache, gens>>
  PROVE  Stored'
<1>1. acct' \in [Addrs -> Accounts]
  BY ProfileTyped
<1> QED
  BY <1>1 DEF Stored, TInv, TypeOK

LEMMA HalfAccountTyped ==
  ASSUME TInv, NEW a \in Addrs, HalfAccount(a)
  PROVE  Stored' /\ faults' \in 0..MaxFaults
  BY ProfileStored, FaultTyped DEF HalfAccount

\* What the handlers below start from.
Ground ==
  /\ minted \in Seq(Addrs) /\ Len(minted) <= MaxLink /\ spent \subseteq 1..MaxLink
  /\ faults \in 0..MaxFaults /\ ssoOn \in BOOLEAN /\ Stored
  /\ session \in [Browsers -> Cookies] /\ pending \in [Browsers -> Cookies]
  /\ (\A b \in Browsers : pending[b] # Out => pending[b].addr \in Addrs)
  /\ loop \in Handlers /\ HandlerPlaced(loop)
  /\ invite \in [Admins -> Invites]
  /\ (\A i \in Admins : invite[i] # NoInvite => invite[i].addr \in Addrs)

LEMMA Grounded == TInv => Ground
  BY DEF Ground, TInv, TypeOK, Placed, Stored

LEMMA FilledStored ==
  ASSUME TInv, NEW a \in Addrs, cache' = Filled(a), UNCHANGED <<acct, gens>>
  PROVE  Stored'
<1>1. Filled(a) \in [Addrs -> Gens \cup {NoEntry}]
  BY FilledTyped
<1> QED
  BY <1>1 DEF Stored, TInv, TypeOK

LEMMA CookieTyped ==
  ASSUME NEW a \in Addrs, NEW g \in Gens
  PROVE  [addr |-> a, gen |-> g] \in Cookies
  BY DEF Cookies

LEMMA BeginsKeepTypes1 ==
  ASSUME TInv, NEW b \in Browsers,
         \/ Gate(b) \/ Logout(b) \/ ChangeBegins(b)
         \/ \E right \in BOOLEAN : ChangeChecks(b, right)
  PROVE  TInv'
<1>0. Ground
  BY Grounded
<1>1. ASSUME Gate(b)
      PROVE  TInv'
  <2>1. session[b].addr \in Addrs
    BY <1>0, <1>1 DEF Gate, Ground, Cookies
  <2>2. Stored'
    BY <1>1, <2>1, FilledStored DEF Gate
  <2>3. session' \in [Browsers -> Cookies]
    BY <1>0, <1>1, BlankIsAnAccount DEF Gate, Ground
  <2> QED
    BY <1>0, <1>1, <2>2, <2>3, HandlerTypes DEF Gate, Ground
<1>2. ASSUME Logout(b)
      PROVE  TInv'
  <2>1. session[b].addr \in Addrs
    BY <1>0, <1>2 DEF Logout, Ground, Cookies, Passes
  <2>2. Stored'
    BY <1>2, <2>1, FilledStored DEF Logout
  <2>3. session' \in [Browsers -> Cookies]
    BY <1>0, <1>2, BlankIsAnAccount DEF Logout, Ground
  <2> QED
    BY <1>0, <1>2, <2>2, <2>3, HandlerTypes DEF Logout, Ground
<1>3. ASSUME ChangeBegins(b)
      PROVE  TInv'
  <2>1. session[b].addr \in Addrs
    BY <1>0, <1>3 DEF ChangeBegins, Ground, Cookies, Passes
  <2>2. Stored'
    BY <1>3, <2>1, FilledStored DEF ChangeBegins
  <2>3. /\ pending' \in [Browsers -> Cookies]
        /\ \A c \in Browsers : pending'[c] # Out => pending'[c].addr \in Addrs
    BY <1>0, <1>3, <2>1 DEF ChangeBegins, Ground
  <2> QED
    BY <1>0, <1>3, <2>2, <2>3, HandlerTypes DEF ChangeBegins, Ground
<1>4. ASSUME NEW right \in BOOLEAN, ChangeChecks(b, right)
      PROVE  TInv'
  <2>1. pending[b].addr \in Addrs
    BY <1>0, <1>4 DEF ChangeChecks, Ground
  <2>2. Stored'
    BY <1>0, <1>4 DEF ChangeChecks, Ground, records, Stored
  <2>3. CASE Goes("change", b, pending[b].addr, None) /\ UNCHANGED <<session, pending>>
    <3>1. loop' \in Handlers /\ HandlerPlaced(loop')
      BY <2>1, <2>3, GoesPlaced DEF Places
    <3> QED
      BY <1>0, <1>4, <2>2, <2>3, <3>1, HandlerTypes DEF ChangeChecks, Ground, records
  <2>4. CASE /\ session' = [session EXCEPT ![b] = pending[b]]
             /\ pending' = [pending EXCEPT ![b] = Out]
             /\ UNCHANGED loop
    <3>1. /\ session' \in [Browsers -> Cookies] /\ pending' \in [Browsers -> Cookies]
          /\ \A c \in Browsers : pending'[c] # Out => pending'[c].addr \in Addrs
      BY <1>0, <2>4, BlankIsAnAccount DEF Ground
    <3> QED
      BY <1>0, <1>4, <2>2, <2>4, <3>1, HandlerTypes DEF ChangeChecks, Ground, records
  <2> QED
    BY <1>4, <2>3, <2>4 DEF ChangeChecks
<1> QED
  BY <1>1, <1>2, <1>3, <1>4

LEMMA BeginsKeepTypes2 ==
  ASSUME TInv, NEW b \in Browsers, NEW a \in Addrs,
         \/ Login(b, a) \/ Register(b, a)
         \/ \E i \in Ids : Callback(b, i, a)
  PROVE  TInv'
<1>0. Ground
  BY Grounded
<1>1. ASSUME Login(b, a)
      PROVE  TInv'
  <2>1. loop' \in Handlers /\ HandlerPlaced(loop')
    BY <1>1, GoesPlaced DEF Login, Places
  <2>2. Stored'
    BY <1>0, <1>1 DEF Login, Ground, records, Stored
  <2> QED
    BY <1>0, <1>1, <2>1, <2>2, HandlerTypes DEF Login, Ground, records
<1>2. ASSUME Register(b, a)
      PROVE  TInv'
  <2>1. Stored' /\ faults' \in 0..MaxFaults
    BY <1>0, <1>2, NewAccountTyped, HalfAccountTyped DEF Register, NewAccount, Ground
  <2>2. loop' \in Handlers /\ HandlerPlaced(loop')
    BY <1>2, GoesPlaced, EndsPlaced DEF Register, Places
  <2> QED
    BY <1>0, <1>2, <2>1, <2>2, HandlerTypes DEF Register, Ground
<1>3. ASSUME NEW i \in Ids, Callback(b, i, a)
      PROVE  TInv'
  <2>1. Stored' /\ faults' \in 0..MaxFaults
    <3>1. CASE UNCHANGED <<acct, cache, gens, faults>>
      BY <1>0, <3>1 DEF Ground, Stored
    <3>2. CASE NewAccount(a) \/ HalfAccount(a)
      BY <1>0, <3>2, NewAccountTyped, HalfAccountTyped DEF NewAccount, Ground
    <3> QED
      BY <1>3, <3>1, <3>2 DEF Callback
  <2>2. loop' \in Handlers /\ HandlerPlaced(loop')
    <3>1. ASSUME NEW bound \in BoundTo(i), Goes("mark", b, bound, i)
          PROVE  loop' \in Handlers /\ HandlerPlaced(loop')
      BY <3>1, GoesPlaced DEF Places, BoundTo
    <3>2. CASE Goes("bind", b, a, i)
      BY <3>2, GoesPlaced DEF Places
    <3>3. CASE Ends
      BY <3>3, EndsPlaced
    <3> QED
      BY <1>3, <3>1, <3>2, <3>3 DEF Callback
  <2> QED
    BY <1>0, <1>3, <2>1, <2>2, HandlerTypes DEF Callback, Ground
<1> QED
  BY <1>1, <1>2, <1>3

LEMMA BeginsKeepTypes3 ==
  ASSUME TInv,
         \/ \E a \in Mailed : SubmitLink(a) \/ Share(a)
         \/ \E i \in Admins, a \in Mailed : Invite(i, a)
         \/ \E i \in Admins, delivered \in BOOLEAN : InviteMailed(i, delivered)
         \/ ToggleSso
  PROVE  TInv'
<1>0. Ground
  BY Grounded
<1>1. ASSUME NEW a \in Mailed, SubmitLink(a)
      PROVE  TInv'
  <2>1. a \in Addrs /\ acct[a].link \in Links
    BY <1>0, ApprovedAreAddrs DEF Ground, Stored, Accounts
  <2>2. LET h == Held("consume", None, a, None, acct[a].link, NoLink) IN
        h \in Handlers /\ HandlerPlaced(h)
    BY <2>1, BlankIsAnAccount, HeldTyped DEF HandlerPlaced, Places
  <2>3. Stored'
    BY <1>0, <1>1 DEF SubmitLink, Ground, records, Stored
  <2> QED
    BY <1>0, <1>1, <2>2, <2>3, HandlerTypes DEF SubmitLink, Ground, records
<1>2. ASSUME NEW a \in Mailed, Share(a)
      PROVE  TInv'
  <2>0. a \in Addrs
    BY ApprovedAreAddrs
  <2>1. Stored' /\ faults' \in 0..MaxFaults
    BY <1>0, <1>2, <2>0, NewAccountTyped, HalfAccountTyped, ProfileStored
       DEF Share, NewAccount, OldAccount, Ground
  <2>2. loop' \in Handlers /\ HandlerPlaced(loop')
    <3>1. CASE Goes("mark_placeholder", None, a, None)
      BY <2>0, <3>1, GoesPlaced DEF Places
    <3>2. CASE Ends
      BY <3>2, EndsPlaced
    <3> QED
      BY <1>2, <3>1, <3>2 DEF Share
  <2> QED
    BY <1>0, <1>2, <2>1, <2>2, HandlerTypes DEF Share, Ground
<1>3. ASSUME NEW i \in Admins, NEW a \in Mailed, Invite(i, a)
      PROVE  TInv'
  <2>0. a \in Addrs
    BY ApprovedAreAddrs
  <2>1. Stored' /\ faults' \in 0..MaxFaults
    <3>1. CASE UNCHANGED <<acct, cache, gens, faults>>
      BY <1>0, <3>1 DEF Ground, Stored
    <3>2. CASE NewAccount(a) \/ HalfAccount(a)
      BY <1>0, <2>0, <3>2, NewAccountTyped, HalfAccountTyped DEF NewAccount, Ground
    <3> QED
      BY <1>3, <3>1, <3>2 DEF Invite
  <2> DEFINE kept == IF Exists(a) THEN [link |-> acct[a].link, used |-> acct[a].used]
                     ELSE NoLink
  <2>2. kept \in Kept
    BY <1>0, <2>0, BlankIsAnAccount DEF Ground, Stored, Accounts, Kept
  <2>3. loop' = Held("mint", i, a, None, 0, kept)
    BY <1>3 DEF Invite
  <2>4. 0 \in Links /\ "mint" \in Places
    BY BoundsAreNat DEF Links, Places
  <2> HIDE DEF kept
  <2>5. LET h == Held("mint", i, a, None, 0, kept) IN h \in Handlers /\ HandlerPlaced(h)
    BY <2>0, <2>2, <2>4, HeldTyped DEF HandlerPlaced
  <2>6. loop' \in Handlers /\ HandlerPlaced(loop')
    BY <2>3, <2>5
  <2> QED
    BY <1>0, <1>3, <2>1, <2>6, HandlerTypes DEF Invite, Ground
<1>4. ASSUME NEW i \in Admins, NEW delivered \in BOOLEAN, InviteMailed(i, delivered)
      PROVE  TInv'
  <2>0. invite[i].addr \in Addrs /\ invite[i].link \in Links /\ invite[i].prev \in Kept
    BY <1>0, <1>4 DEF InviteMailed, Ground, Invites
  <2>1. Restored(invite[i].addr, invite[i].link, invite[i].prev) \in [Addrs -> Accounts]
    BY <2>0, RestoredTyped
  <2>2. Stored'
    BY <1>0, <1>4, <2>1 DEF InviteMailed, Ground, Stored
  <2>3. NoInvite \in Invites
    BY BlankIsAnAccount, BoundsAreNat DEF NoInvite, Invites, Links
  <2>4. /\ invite' \in [Admins -> Invites]
        /\ \A j \in Admins : invite'[j] # NoInvite => invite'[j].addr \in Addrs
    BY <1>0, <1>4, <2>3 DEF InviteMailed, Ground
  <2> QED
    BY <1>0, <1>4, <2>2, <2>4, HandlerTypes DEF InviteMailed, Ground
<1>5. ASSUME ToggleSso
      PROVE  TInv'
  <2>1. Stored'
    BY <1>0, <1>5 DEF ToggleSso, records, Ground, Stored
  <2> QED
    BY <1>0, <1>5, <2>1, HandlerTypes DEF ToggleSso, records, flows, Ground
<1> QED
  BY <1>1, <1>2, <1>3, <1>4, <1>5

LEMMA ContinuesKeepTypes ==
  ASSUME TInv, Continues
  PROVE  TInv'
<1>0. Ground
  BY Grounded
<1>1. ASSUME RegisterSets
      PROVE  TInv'
  <2>0. loop.addr \in Addrs /\ loop.b \in Browsers
    BY <1>0, <1>1 DEF RegisterSets, Ground, HandlerPlaced
  <2>1. CASE SetPassword(loop.addr) /\ Goes("start", loop.b, loop.addr, None)
    <3>1. Stored'
      BY <2>0, <2>1, SetPasswordTyped
    <3>2. loop' \in Handlers /\ HandlerPlaced(loop')
      BY <2>0, <2>1, GoesPlaced DEF Places
    <3>3. /\ minted' \in Seq(Addrs) /\ Len(minted') <= MaxLink
          /\ spent' \subseteq 1..MaxLink
      BY <1>0, <2>1, LinksOfTyped DEF SetPassword, Ground
    <3> QED
      BY <1>0, <1>1, <3>1, <3>2, <3>3, HandlerTypes DEF RegisterSets, Ground
  <2>2. CASE Ends /\ UNCHANGED records
    <3>1. Stored'
      BY <1>0, <2>2 DEF records, Ground, Stored
    <3>2. loop' \in Handlers /\ HandlerPlaced(loop')
      BY <2>2, EndsPlaced
    <3> QED
      BY <1>0, <1>1, <2>2, <3>1, <3>2, HandlerTypes DEF RegisterSets, Ground, records
  <2> QED
    BY <1>1, <2>1, <2>2 DEF RegisterSets
<1>2. ASSUME StartSession
      PROVE  TInv'
  <2>0. loop.addr \in Addrs /\ loop.b \in Browsers
    BY <1>0, <1>2 DEF StartSession, Ground, HandlerPlaced
  <2>1. Stored'
    BY <1>2, <2>0, FilledStored DEF StartSession
  <2>2. CASE cache[loop.addr] = NoEntry /\ ~Exists(loop.addr)
    <3>1. Ends /\ session' = session
      BY <1>2, <2>2 DEF StartSession
    <3>2. loop' \in Handlers /\ HandlerPlaced(loop')
      BY <3>1, EndsPlaced
    <3> QED
      BY <1>0, <1>2, <2>1, <3>1, <3>2, HandlerTypes DEF StartSession, Ground
  <2>3. CASE ~(cache[loop.addr] = NoEntry /\ ~Exists(loop.addr))
    <3>1. /\ Goes("touch", None, loop.addr, None)
          /\ session' = [session EXCEPT ![loop.b] =
                           [addr |-> loop.addr, gen |-> Filled(loop.addr)[loop.addr]]]
      BY <1>2, <2>3 DEF StartSession
    <3>2. Filled(loop.addr)[loop.addr] \in Gens
      BY <2>0, <2>3, FilledTyped
    <3>3. session' \in [Browsers -> Cookies]
      BY <1>0, <2>0, <3>1, <3>2, CookieTyped DEF Ground
    <3>4. loop' \in Handlers /\ HandlerPlaced(loop')
      BY <2>0, <3>1, GoesPlaced DEF Places
    <3> QED
      BY <1>0, <1>2, <2>1, <3>3, <3>4, HandlerTypes DEF StartSession, Ground
  <2> QED
    BY <2>2, <2>3
<1>3. ASSUME TouchLogin
      PROVE  TInv'
  <2>0. loop.addr \in Addrs
    BY <1>0, <1>3 DEF TouchLogin, Ground, HandlerPlaced
  <2>1. Stored'
    BY <1>0, <1>3, <2>0, ProfileStored DEF TouchLogin, Ground, Stored
  <2>2. loop' \in Handlers /\ HandlerPlaced(loop')
    BY <1>3, EndsPlaced DEF TouchLogin
  <2> QED
    BY <1>0, <1>3, <2>1, <2>2, HandlerTypes DEF TouchLogin, Ground
<1>4. ASSUME ChangeSets
      PROVE  TInv'
  <2>0. loop.addr \in Addrs /\ loop.b \in Browsers
    BY <1>0, <1>4 DEF ChangeSets, Ground, HandlerPlaced
  <2>1. loop' \in Handlers /\ HandlerPlaced(loop')
    BY <1>4, EndsPlaced DEF ChangeSets
  <2>2. /\ pending' \in [Browsers -> Cookies]
        /\ \A c \in Browsers : pending'[c] # Out => pending'[c].addr \in Addrs
    BY <1>0, <1>4, BlankIsAnAccount DEF ChangeSets, Ground
  <2>3. CASE /\ SetPassword(loop.addr)
             /\ session' = [session EXCEPT ![loop.b] = [addr |-> loop.addr, gen |-> gens + 1]]
    <3>1. Stored' /\ gens + 1 \in Gens
      BY <2>0, <2>3, SetPasswordTyped, NewGenerationTyped DEF SetPassword
    <3>2. session' \in [Browsers -> Cookies]
      BY <1>0, <2>0, <2>3, <3>1, CookieTyped DEF Ground
    <3>3. /\ minted' \in Seq(Addrs) /\ Len(minted') <= MaxLink
          /\ spent' \subseteq 1..MaxLink
      BY <1>0, <2>3, LinksOfTyped DEF SetPassword, Ground
    <3> QED
      BY <1>0, <1>4, <2>1, <2>2, <3>1, <3>2, <3>3, HandlerTypes DEF ChangeSets, Ground
  <2>4. CASE session' = [session EXCEPT ![loop.b] = Out] /\ UNCHANGED records
    <3>1. Stored'
      BY <1>0, <2>4 DEF records, Ground, Stored
    <3>2. session' \in [Browsers -> Cookies]
      BY <1>0, <2>4, BlankIsAnAccount DEF Ground
    <3> QED
      BY <1>0, <1>4, <2>1, <2>2, <2>4, <3>1, <3>2, HandlerTypes
         DEF ChangeSets, Ground, records
  <2> QED
    BY <1>4, <2>3, <2>4 DEF ChangeSets
<1>5. ASSUME ConsumeLink
      PROVE  TInv'
  <2>1. loop' \in Handlers /\ HandlerPlaced(loop')
    BY <1>5, EndsPlaced DEF ConsumeLink
  <2>2. ASSUME NEW a \in Addrs, NewGeneration(a),
               acct' = [acct EXCEPT ![a] = Consumed(@, gens + 1)],
               spent' = spent \cup LinksOf(a), UNCHANGED minted
        PROVE  TInv'
    <3>1. gens + 1 \in Gens /\ gens' \in Gens /\ cache' \in [Addrs -> Gens \cup {NoEntry}]
      BY <2>2, NewGenerationTyped
    <3>2. Consumed(acct[a], gens + 1) \in Accounts
      BY <1>0, <3>1, ConsumedRecord DEF Ground, Stored
    <3>3. Stored'
      BY <2>2, <3>1, <3>2, WriteTyped DEF Stored
    <3>4. spent' \subseteq 1..MaxLink
      BY <2>2, LinksOfTyped
    <3> QED
      BY <1>0, <1>5, <2>1, <2>2, <3>3, <3>4, HandlerTypes DEF ConsumeLink, Ground
  <2>3. CASE UNCHANGED records
    <3>1. Stored'
      BY <1>0, <2>3 DEF records, Ground, Stored
    <3> QED
      BY <1>0, <1>5, <2>1, <2>3, <3>1, HandlerTypes DEF ConsumeLink, Ground, records
  <2> QED
    BY <1>5, <2>2, <2>3 DEF ConsumeLink
<1>6. ASSUME MarkPlaceholder
      PROVE  TInv'
  <2>0. loop.addr \in Addrs
    BY <1>0, <1>6 DEF MarkPlaceholder, Ground, HandlerPlaced
  <2>1. Marked(acct[loop.addr]) \in Accounts
    BY <1>0, <2>0, MarkedRecord DEF Ground, Stored
  <2>2. Stored'
    BY <1>0, <1>6, <2>0, <2>1, WriteTyped DEF MarkPlaceholder, Ground, Stored
  <2>3. loop' \in Handlers /\ HandlerPlaced(loop')
    BY <1>6, EndsPlaced DEF MarkPlaceholder
  <2> QED
    BY <1>0, <1>6, <2>2, <2>3, HandlerTypes DEF MarkPlaceholder, Ground
<1>7. ASSUME InviteMints
      PROVE  TInv'
  <2>0. loop.addr \in Addrs /\ loop.b \in Admins /\ loop.prev \in Kept
    BY <1>0, <1>7 DEF InviteMints, Ground, HandlerPlaced, Handlers
  <2>1. loop' \in Handlers /\ HandlerPlaced(loop')
    BY <1>7, EndsPlaced DEF InviteMints
  <2>2. CASE Exists(loop.addr)
    <3>1. /\ MintLink(loop.addr)
          /\ invite' = [invite EXCEPT ![loop.b] =
               [addr |-> loop.addr, link |-> Len(minted) + 1, prev |-> loop.prev]]
      BY <1>7, <2>2 DEF InviteMints
    <3>2. /\ minted' \in Seq(Addrs) /\ Len(minted') <= MaxLink
          /\ acct' \in [Addrs -> Accounts] /\ Len(minted) + 1 \in Links
      BY <2>0, <3>1, MintLinkTyped
    <3>3. Stored'
      BY <1>0, <1>7, <3>2 DEF InviteMints, Ground, Stored
    <3>4. [addr |-> loop.addr, link |-> Len(minted) + 1, prev |-> loop.prev] \in Invites
      BY <2>0, <3>2 DEF Invites
    <3>5. /\ invite' \in [Admins -> Invites]
          /\ \A i \in Admins : invite'[i] # NoInvite => invite'[i].addr \in Addrs
      BY <1>0, <2>0, <3>1, <3>4 DEF Ground
    <3> QED
      BY <1>0, <1>7, <2>1, <3>2, <3>3, <3>5, HandlerTypes DEF InviteMints, Ground
  <2>3. CASE ~Exists(loop.addr)
    <3>1. UNCHANGED <<acct, minted, invite>>
      BY <1>7, <2>3 DEF InviteMints
    <3>2. Stored'
      BY <1>0, <1>7, <3>1 DEF InviteMints, Ground, Stored
    <3> QED
      BY <1>0, <1>7, <2>1, <3>1, <3>2, HandlerTypes DEF InviteMints, Ground
  <2> QED
    BY <2>2, <2>3
<1>8. ASSUME Bind
      PROVE  TInv'
  <2>0. loop.addr \in Addrs /\ loop.b \in Browsers /\ loop.id \in Ids
    BY <1>0, <1>8 DEF Bind, Ground, HandlerPlaced
  <2>1. CASE /\ acct' = [acct EXCEPT ![loop.addr] = Bound(@, loop.id)]
             /\ Goes("mark", loop.b, loop.addr, loop.id)
    <3>1. Bound(acct[loop.addr], loop.id) \in Accounts
      BY <1>0, <2>0, BoundRecord DEF Ground, Stored
    <3>2. Stored'
      BY <1>0, <1>8, <2>0, <2>1, <3>1, WriteTyped DEF Bind, Ground, Stored
    <3>3. loop' \in Handlers /\ HandlerPlaced(loop')
      BY <2>0, <2>1, GoesPlaced DEF Places
    <3> QED
      BY <1>0, <1>8, <3>2, <3>3, HandlerTypes DEF Bind, Ground
  <2>2. CASE Ends /\ UNCHANGED acct
    <3>1. loop' \in Handlers /\ HandlerPlaced(loop')
      BY <2>2, EndsPlaced
    <3>2. Stored'
      BY <1>0, <1>8, <2>2 DEF Bind, Ground, Stored
    <3> QED
      BY <1>0, <1>8, <3>1, <3>2, HandlerTypes DEF Bind, Ground
  <2> QED
    BY <1>8, <2>1, <2>2 DEF Bind
<1>9. ASSUME MarkSso
      PROVE  TInv'
  <2>0. loop.addr \in Addrs /\ loop.b \in Browsers /\ loop.id \in Ids
    BY <1>0, <1>9 DEF MarkSso, Ground, HandlerPlaced
  <2>1. Marked(acct[loop.addr]) \in Accounts
    BY <1>0, <2>0, MarkedRecord DEF Ground, Stored
  <2>2. Stored'
    BY <1>0, <1>9, <2>0, <2>1, WriteTyped DEF MarkSso, Ground, Stored
  <2>3. loop' \in Handlers /\ HandlerPlaced(loop')
    BY <1>9, <2>0, GoesPlaced DEF MarkSso, Places
  <2> QED
    BY <1>0, <1>9, <2>2, <2>3, HandlerTypes DEF MarkSso, Ground
<1> QED
  BY <1>1, <1>2, <1>3, <1>4, <1>5, <1>6, <1>7, <1>8, <1>9 DEF Continues

LEMMA RestartKeepsTypes ==
  ASSUME TInv, Restart
  PROVE  TInv'
<1>0. Ground
  BY Grounded
<1>1. loop' \in Handlers /\ loop'.at = "idle"
  BY IdleTyped DEF Restart
<1>2. /\ pending' \in [Browsers -> Cookies]
      /\ \A b \in Browsers : pending'[b] = Out
  BY BlankIsAnAccount DEF Restart
<1>3. /\ invite' \in [Admins -> Invites]
      /\ \A i \in Admins : invite'[i] = NoInvite
  BY BlankIsAnAccount, BoundsAreNat DEF Restart, NoInvite, Invites, Links
<1>4. sender' \in [at : {"idle", "mint", "mail"}, addr : Addrs \cup {None}] /\ sender'.at = "idle"
  BY DEF Restart, Asleep
<1>5. cache' \in [Addrs -> Gens \cup {NoEntry}] /\ faults' \in 0..MaxFaults
  BY FaultTyped DEF Restart
<1>6. TypeOK'
  BY <1>0, <1>1, <1>2, <1>3, <1>4, <1>5 DEF Restart, Ground, Stored, TypeOK
<1>7. Placed'
  BY <1>1, <1>2, <1>3, <1>4 DEF Placed, HandlerPlaced
<1> QED
  BY <1>6, <1>7 DEF TInv

LEMMA TypesStutter == ASSUME TInv, UNCHANGED vars PROVE TInv'
  BY DEF TInv, TypeOK, Placed, HandlerPlaced, vars

LEMMA TypesNext == TInv /\ [Next]_vars => TInv'
<1> SUFFICES ASSUME TInv, [Next]_vars PROVE TInv'
  OBVIOUS
<1>1. CASE Threads
  BY <1>1, ThreadsKeepTypes
<1>2. CASE Begins
  BY <1>2, BeginsKeepTypes1, BeginsKeepTypes2, BeginsKeepTypes3 DEF Begins
<1>3. CASE Continues
  BY <1>3, ContinuesKeepTypes
<1>4. CASE Restart
  BY <1>4, RestartKeepsTypes
<1>5. CASE UNCHANGED vars
  BY <1>5, TypesStutter
<1> QED
  BY <1>1, <1>2, <1>3, <1>4, <1>5 DEF Next

\* Every account record, cookie, handler, mail and invitation keeps its type,
\* and what is under way names an account.
THEOREM TypeCorrect == Spec => []TypeOK
<1>1. Init => TInv
  BY TypesInit
<1>2. TInv /\ [Next]_vars => TInv'
  BY TypesNext
<1>3. TInv => TypeOK
  BY DEF TInv
<1> QED
  BY <1>1, <1>2, <1>3, PTL DEF Spec

-----------------------------------------------------------------------------
(* What a step does to the accounts: it changes one of them, in one of the  *)
(* ways below, at the place of its handler that the first conjunct names.   *)

CacheMoves ==
  \/ cache' = cache
  \/ \E a \in Addrs : cache' = Filled(a)
  \/ \A a \in Addrs : cache'[a] = NoEntry

Quiet == UNCHANGED <<cache, gens, minted, spent>>

Rests == UNCHANGED <<acct, gens, minted, spent>> /\ CacheMoves

Opens(a) == loop = Idle /\ NewAccount(a) /\ UNCHANGED <<minted, spent>>

Touches(a) ==
  loop.at \in {"idle", "touch"} /\ acct' = [acct EXCEPT ![a].profile = TRUE] /\ Quiet

Keys(a) == loop.at \in {"setpw", "change"} /\ a = loop.addr /\ Exists(a) /\ SetPassword(a)

Consumes(a) ==
  /\ loop.at = "consume" /\ acct[a].link = loop.link /\ ~acct[a].used
  /\ NewGeneration(a)
  /\ acct' = [acct EXCEPT ![a] = Consumed(@, gens + 1)]
  /\ spent' = spent \cup LinksOf(a)
  /\ UNCHANGED minted

Stamps(a) ==
  /\ Exists(a) /\ NewGeneration(a)
  /\ acct' = [acct EXCEPT ![a] = Stamped(@, gens + 1)]
  /\ UNCHANGED <<minted, spent>>

Mints(a) == Exists(a) /\ MintLink(a) /\ UNCHANGED <<cache, gens, spent>>

Unlinks(a) == acct' = [acct EXCEPT ![a] = Relinked(@, NoLink)] /\ Quiet

Restores(a) ==
  /\ loop = Idle
  /\ \E i \in Admins :
       /\ invite[i] # NoInvite /\ a = invite[i].addr
       /\ acct[a].link = invite[i].link /\ ~acct[a].used
       /\ acct' = [acct EXCEPT ![a] = Relinked(@, invite[i].prev)]
  /\ Quiet

Marks(a) ==
  /\ loop.at \in {"mark_placeholder", "mark"} /\ a = loop.addr
  /\ acct' = [acct EXCEPT ![a] = Marked(@)] /\ Quiet

Binds(a) ==
  /\ loop.at = "bind" /\ loop'.at = "mark" /\ a = loop.addr
  /\ acct' = [acct EXCEPT ![a] = Bound(@, loop.id)] /\ Quiet

Removes(a) ==
  /\ acct' = [acct EXCEPT ![a] = Blank]
  /\ cache' = [cache EXCEPT ![a] = NoEntry]
  /\ spent' = spent \cup LinksOf(a)
  /\ UNCHANGED <<gens, minted>>

Empties(a) ==
  /\ Exists(a) /\ acct' = [acct EXCEPT ![a] = [Blank EXCEPT !.profile = TRUE]]
  /\ cache' = [cache EXCEPT ![a] = NoEntry]
  /\ UNCHANGED <<gens, minted, spent>>

Unprofiles(a) ==
  /\ acct[a].auth /\ acct' = [acct EXCEPT ![a].profile = FALSE]
  /\ cache' = [cache EXCEPT ![a] = NoEntry]
  /\ UNCHANGED <<gens, minted, spent>>

StoreStep ==
  \/ Rests
  \/ \E a \in Addrs :
       \/ Opens(a) \/ Touches(a) \/ Keys(a) \/ Consumes(a) \/ Stamps(a) \/ Mints(a)
       \/ Unlinks(a) \/ Restores(a) \/ Marks(a) \/ Binds(a)
       \/ Removes(a) \/ Empties(a) \/ Unprofiles(a)

LEMMA RestsWhenUnchanged == ASSUME UNCHANGED records PROVE StoreStep
  BY DEF records, StoreStep, Rests, CacheMoves

LEMMA RestsWhenFilled ==
  ASSUME NEW a \in Addrs, cache' = Filled(a), UNCHANGED <<acct, gens, minted, spent>>
  PROVE  StoreStep
  BY DEF StoreStep, Rests, CacheMoves

LEMMA HalfIsTouch ==
  ASSUME NEW a \in Addrs, loop = Idle, HalfAccount(a), UNCHANGED <<minted, spent>>
  PROVE  StoreStep
<1>1. loop.at = "idle"
  BY IdleTyped
<1>2. Touches(a)
  BY <1>1 DEF Touches, Quiet, HalfAccount
<1> QED
  BY <1>2 DEF StoreStep

LEMMA ThreadSteps ==
  ASSUME TInv, Threads
  PROVE  StoreStep
<1>1. ASSUME NEW a \in Addrs, RemoveUser(a) \/ RemoveUserFails(a) \/ BumpGeneration(a)
      PROVE  StoreStep
  <2>1. Removes(a) \/ Empties(a) \/ Unprofiles(a) \/ Stamps(a)
    BY <1>1 DEF RemoveUser, RemoveUserFails, BumpGeneration, Removes, Empties, Unprofiles,
                Stamps, Exists
  <2> QED
    BY <2>1 DEF StoreStep
<1>2. ASSUME NEW a \in Mailed, SenderChecks(a)
      PROVE  StoreStep
  BY <1>2, RestsWhenUnchanged DEF SenderChecks
<1>3. ASSUME SenderMints
      PROVE  StoreStep
  <2>1. sender.addr \in Addrs
    BY <1>3 DEF SenderMints, TInv, Placed
  <2>2. CASE Exists(sender.addr)
    <3>1. Mints(sender.addr)
      BY <1>3, <2>2 DEF SenderMints, Mints
    <3> QED
      BY <2>1, <3>1 DEF StoreStep
  <2>3. CASE ~Exists(sender.addr)
    BY <1>3, <2>3, RestsWhenUnchanged DEF SenderMints, records
  <2> QED
    BY <2>2, <2>3
<1>4. ASSUME NEW delivered \in BOOLEAN, SenderMails(delivered)
      PROVE  StoreStep
  <2>1. sender.addr \in Addrs
    BY <1>4 DEF SenderMails, TInv, Placed
  <2>2. CASE delivered
    BY <1>4, <2>2, RestsWhenUnchanged DEF SenderMails, records
  <2>3. CASE ~delivered
    <3>1. Unlinks(sender.addr)
      BY <1>4, <2>3 DEF SenderMails, Unlinks, Quiet
    <3> QED
      BY <2>1, <3>1 DEF StoreStep
  <2> QED
    BY <2>2, <2>3
<1> QED
  BY <1>1, <1>2, <1>3, <1>4 DEF Threads

LEMMA BeginSteps ==
  ASSUME TInv, Begins
  PROVE  StoreStep
<1>0. Ground
  BY Grounded
<1>1. ASSUME NEW b \in Browsers, Gate(b) \/ Logout(b) \/ ChangeBegins(b)
      PROVE  StoreStep
  <2>1. session[b].addr \in Addrs
    BY <1>0, <1>1 DEF Gate, Logout, ChangeBegins, Passes, Ground, Cookies
  <2> QED
    BY <1>1, <2>1, RestsWhenFilled DEF Gate, Logout, ChangeBegins
<1>2. ASSUME NEW b \in Browsers, NEW right \in BOOLEAN, ChangeChecks(b, right)
      PROVE  StoreStep
  BY <1>2, RestsWhenUnchanged DEF ChangeChecks
<1>3. ASSUME NEW b \in Browsers, NEW a \in Addrs, Login(b, a)
      PROVE  StoreStep
  BY <1>3, RestsWhenUnchanged DEF Login
<1>4. ASSUME NEW b \in Browsers, NEW a \in Addrs, Register(b, a)
      PROVE  StoreStep
  <2>1. Opens(a) \/ HalfAccount(a)
    BY <1>4 DEF Register, Opens
  <2>2. loop = Idle /\ UNCHANGED <<minted, spent>>
    BY <1>4 DEF Register
  <2> QED
    BY <2>1, <2>2, HalfIsTouch DEF StoreStep
<1>5. ASSUME NEW b \in Browsers, NEW a \in Addrs, NEW i \in Ids, Callback(b, i, a)
      PROVE  StoreStep
  <2>1. loop = Idle /\ UNCHANGED <<minted, spent>>
    BY <1>5 DEF Callback
  <2>2. UNCHANGED records \/ Opens(a) \/ HalfAccount(a)
    BY <1>5, <2>1 DEF Callback, Opens, records
  <2> QED
    BY <2>1, <2>2, HalfIsTouch, RestsWhenUnchanged DEF StoreStep
<1>6. ASSUME NEW a \in Mailed, SubmitLink(a)
      PROVE  StoreStep
  BY <1>6, RestsWhenUnchanged DEF SubmitLink
<1>7. ASSUME NEW a \in Mailed, Share(a)
      PROVE  StoreStep
  <2>1. loop = Idle /\ a \in Addrs /\ UNCHANGED <<minted, spent>>
    BY <1>7, ApprovedAreAddrs DEF Share
  <2>2. Opens(a) \/ OldAccount(a) \/ HalfAccount(a)
    BY <1>7, <2>1 DEF Share, Opens
  <2>3. CASE OldAccount(a)
    <3>1. Touches(a)
      BY <2>1, <2>3, IdleTyped DEF OldAccount, Touches, Quiet
    <3> QED
      BY <2>1, <3>1 DEF StoreStep
  <2> QED
    BY <2>1, <2>2, <2>3, HalfIsTouch DEF StoreStep
<1>8. ASSUME NEW i \in Admins, NEW a \in Mailed, Invite(i, a)
      PROVE  StoreStep
  <2>1. loop = Idle /\ a \in Addrs /\ UNCHANGED <<minted, spent>>
    BY <1>8, ApprovedAreAddrs DEF Invite
  <2>2. Opens(a) \/ UNCHANGED records \/ HalfAccount(a)
    BY <1>8, <2>1 DEF Invite, Opens, records
  <2> QED
    BY <2>1, <2>2, HalfIsTouch, RestsWhenUnchanged DEF StoreStep
<1>9. ASSUME NEW i \in Admins, NEW delivered \in BOOLEAN, InviteMailed(i, delivered)
      PROVE  StoreStep
  <2> DEFINE a == invite[i].addr
  <2>1. a \in Addrs /\ Quiet /\ loop = Idle /\ invite[i] # NoInvite
    BY <1>0, <1>9 DEF InviteMailed, Ground, Quiet
  <2>2. \/ acct' = acct
        \/ /\ acct' = [acct EXCEPT ![a] = Relinked(@, invite[i].prev)]
           /\ acct[a].link = invite[i].link /\ ~acct[a].used
    BY <1>9 DEF InviteMailed, Restored
  <2>3. UNCHANGED records \/ Restores(a)
    BY <2>1, <2>2 DEF Restores, records, Quiet
  <2> QED
    BY <2>1, <2>3, RestsWhenUnchanged DEF StoreStep
<1>10. ASSUME ToggleSso
       PROVE  StoreStep
  BY <1>10, RestsWhenUnchanged DEF ToggleSso
<1> QED
  BY <1>1, <1>2, <1>3, <1>4, <1>5, <1>6, <1>7, <1>8, <1>9, <1>10 DEF Begins

LEMMA ContinueSteps ==
  ASSUME TInv, Continues
  PROVE  StoreStep
<1>0. Ground
  BY Grounded
<1>a. loop.at # "idle" => loop.addr \in Addrs
  BY <1>0 DEF Ground, HandlerPlaced
<1>1. ASSUME RegisterSets
      PROVE  StoreStep
  <2>1. Keys(loop.addr) \/ UNCHANGED records
    BY <1>1 DEF RegisterSets, Keys
  <2> QED
    BY <1>1, <1>a, <2>1, RestsWhenUnchanged DEF StoreStep, RegisterSets
<1>2. ASSUME StartSession
      PROVE  StoreStep
  BY <1>2, <1>a, RestsWhenFilled DEF StartSession
<1>3. ASSUME TouchLogin
      PROVE  StoreStep
  <2>1. Touches(loop.addr) \/ UNCHANGED records
    BY <1>3 DEF TouchLogin, Touches, Quiet, records
  <2> QED
    BY <1>3, <1>a, <2>1, RestsWhenUnchanged DEF StoreStep, TouchLogin
<1>4. ASSUME ChangeSets
      PROVE  StoreStep
  <2>1. Keys(loop.addr) \/ UNCHANGED records
    BY <1>4 DEF ChangeSets, Keys
  <2> QED
    BY <1>4, <1>a, <2>1, RestsWhenUnchanged DEF StoreStep, ChangeSets
<1>5. ASSUME ConsumeLink
      PROVE  StoreStep
  <2>1. (\E a \in Addrs : Consumes(a)) \/ UNCHANGED records
    BY <1>5 DEF ConsumeLink, Consumes
  <2> QED
    BY <2>1, RestsWhenUnchanged DEF StoreStep
<1>6. ASSUME MarkPlaceholder
      PROVE  StoreStep
  <2>1. Marks(loop.addr)
    BY <1>6 DEF MarkPlaceholder, Marks, Quiet
  <2> QED
    BY <1>6, <1>a, <2>1 DEF StoreStep, MarkPlaceholder
<1>7. ASSUME InviteMints
      PROVE  StoreStep
  <2>1. Mints(loop.addr) \/ UNCHANGED records
    BY <1>7 DEF InviteMints, Mints, records
  <2> QED
    BY <1>7, <1>a, <2>1, RestsWhenUnchanged DEF StoreStep, InviteMints
<1>8. ASSUME Bind
      PROVE  StoreStep
  <2>1. CASE /\ acct' = [acct EXCEPT ![loop.addr] = Bound(@, loop.id)]
             /\ Goes("mark", loop.b, loop.addr, loop.id)
    <3>1. loop'.at = "mark"
      BY <2>1 DEF Goes, Held
    <3>2. Binds(loop.addr)
      BY <1>8, <2>1, <3>1 DEF Bind, Binds, Quiet
    <3> QED
      BY <1>8, <1>a, <3>2 DEF StoreStep, Bind
  <2>2. CASE UNCHANGED acct
    BY <1>8, <2>2, RestsWhenUnchanged DEF Bind, records
  <2> QED
    BY <1>8, <2>1, <2>2 DEF Bind
<1>9. ASSUME MarkSso
      PROVE  StoreStep
  <2>1. Marks(loop.addr) \/ UNCHANGED records
    BY <1>9 DEF MarkSso, Marks, Quiet, records
  <2> QED
    BY <1>9, <1>a, <2>1, RestsWhenUnchanged DEF StoreStep, MarkSso
<1> QED
  BY <1>1, <1>2, <1>3, <1>4, <1>5, <1>6, <1>7, <1>8, <1>9 DEF Continues

LEMMA StoreSteps == TInv /\ [Next]_vars => StoreStep
<1> SUFFICES ASSUME TInv, [Next]_vars PROVE StoreStep
  OBVIOUS
<1>1. CASE Restart
  BY <1>1 DEF Restart, StoreStep, Rests, CacheMoves
<1>2. CASE UNCHANGED vars
  BY <1>2, RestsWhenUnchanged DEF vars, records
<1> QED
  BY <1>1, <1>2, ThreadSteps, BeginSteps, ContinueSteps DEF Next

-----------------------------------------------------------------------------
(* The fields of the record that was written; the others are left alone.    *)

Only(a) == \A c \in Addrs : c # a => acct'[c] = acct[c]
CacheOnly(a) == \A c \in Addrs : c # a => cache'[c] = cache[c]

LEMMA CacheWrite ==
  ASSUME TInv, NEW a \in Addrs, NEW g, cache' = [cache EXCEPT ![a] = g]
  PROVE  cache'[a] = g /\ CacheOnly(a)
  BY DEF TInv, TypeOK, CacheOnly

LEMMA Opened ==
  ASSUME TInv, NEW a \in Addrs, Opens(a)
  PROVE  /\ Only(a) /\ acct'[a].auth /\ acct'[a].gen = gens + 1 /\ ~acct'[a].pw /\ ~acct'[a].sso
         /\ acct'[a].id = None /\ acct'[a].link = 0 /\ ~acct'[a].used
         /\ cache'[a] = gens + 1 /\ CacheOnly(a)
<1>1. gens + 1 \in Gens
  BY NextGen DEF Opens, NewAccount
<1>2. acct'[a] = Fresh(gens + 1) /\ Only(a)
  BY <1>1, FreshRecord, WriteTyped DEF Opens, NewAccount, Only
<1>3. cache'[a] = gens + 1 /\ CacheOnly(a)
  BY CacheWrite DEF Opens, NewAccount
<1> QED
  BY <1>1, <1>2, <1>3, FreshRecord

LEMMA Touched ==
  ASSUME TInv, NEW a \in Addrs, Touches(a)
  PROVE  /\ Only(a) /\ acct'[a].profile /\ acct'[a].auth = acct[a].auth
         /\ acct'[a].gen = acct[a].gen /\ acct'[a].pw = acct[a].pw /\ acct'[a].sso = acct[a].sso
         /\ acct'[a].id = acct[a].id /\ acct'[a].link = acct[a].link
         /\ acct'[a].used = acct[a].used
  BY DEF TInv, TypeOK, Accounts, Touches, Only

LEMMA KeyedUp ==
  ASSUME TInv, NEW a \in Addrs, Keys(a)
  PROVE  /\ Only(a) /\ acct'[a].auth /\ acct'[a].gen = gens + 1 /\ acct'[a].pw
         /\ acct'[a].sso = acct[a].sso /\ acct'[a].id = acct[a].id
         /\ acct'[a].link = 0 /\ ~acct'[a].used
         /\ cache'[a] = gens + 1 /\ CacheOnly(a)
<1>1. gens + 1 \in Gens
  BY NextGen DEF Keys, SetPassword, NewGeneration
<1>2. Keyed(acct[a], gens + 1) \in Accounts /\ acct[a] \in Accounts
  BY <1>1, KeyedRecord DEF TInv, TypeOK
<1>3. acct' = [acct EXCEPT ![a] = Keyed(acct[a], gens + 1)]
  BY DEF Keys, SetPassword
<1>4. acct'[a] = Keyed(acct[a], gens + 1) /\ Only(a)
  BY <1>2, <1>3, WriteTyped DEF Only
<1>5. cache'[a] = gens + 1 /\ CacheOnly(a)
  BY CacheWrite DEF Keys, SetPassword, NewGeneration
<1> QED
  BY <1>1, <1>2, <1>4, <1>5, KeyedRecord

LEMMA ConsumedUp ==
  ASSUME TInv, NEW a \in Addrs, Consumes(a)
  PROVE  /\ Only(a) /\ acct'[a].auth = acct[a].auth /\ acct'[a].gen = gens + 1 /\ acct'[a].pw
         /\ acct'[a].profile = acct[a].profile
         /\ acct'[a].sso = acct[a].sso /\ acct'[a].id = acct[a].id
         /\ acct'[a].link = acct[a].link /\ acct'[a].used
         /\ cache'[a] = gens + 1 /\ CacheOnly(a)
<1>1. gens + 1 \in Gens
  BY NextGen DEF Consumes, NewGeneration
<1>2. Consumed(acct[a], gens + 1) \in Accounts /\ acct[a] \in Accounts
  BY <1>1, ConsumedRecord DEF TInv, TypeOK
<1>3. acct' = [acct EXCEPT ![a] = Consumed(acct[a], gens + 1)]
  BY DEF Consumes
<1>4. acct'[a] = Consumed(acct[a], gens + 1) /\ Only(a)
  BY <1>2, <1>3, WriteTyped DEF Only
<1>5. cache'[a] = gens + 1 /\ CacheOnly(a)
  BY CacheWrite DEF Consumes, NewGeneration
<1> QED
  BY <1>1, <1>2, <1>4, <1>5, ConsumedRecord

LEMMA StampedUp ==
  ASSUME TInv, NEW a \in Addrs, Stamps(a)
  PROVE  /\ Only(a) /\ acct'[a].auth /\ acct'[a].gen = gens + 1 /\ acct'[a].pw = acct[a].pw
         /\ acct'[a].sso = acct[a].sso /\ acct'[a].id = acct[a].id
         /\ acct'[a].link = acct[a].link /\ acct'[a].used = acct[a].used
         /\ cache'[a] = gens + 1 /\ CacheOnly(a)
<1>1. gens + 1 \in Gens
  BY NextGen DEF Stamps, NewGeneration
<1>2. Stamped(acct[a], gens + 1) \in Accounts /\ acct[a] \in Accounts
  BY <1>1, StampedRecord DEF TInv, TypeOK
<1>3. acct' = [acct EXCEPT ![a] = Stamped(acct[a], gens + 1)]
  BY DEF Stamps
<1>4. acct'[a] = Stamped(acct[a], gens + 1) /\ Only(a)
  BY <1>2, <1>3, WriteTyped DEF Only
<1>5. cache'[a] = gens + 1 /\ CacheOnly(a)
  BY CacheWrite DEF Stamps, NewGeneration
<1> QED
  BY <1>1, <1>2, <1>4, <1>5, StampedRecord

LEMMA Minted ==
  ASSUME TInv, NEW a \in Addrs, Mints(a)
  PROVE  /\ Only(a) /\ acct'[a].auth /\ acct'[a].gen = acct[a].gen /\ acct'[a].pw = acct[a].pw
         /\ acct'[a].sso = acct[a].sso /\ acct'[a].id = acct[a].id
         /\ acct'[a].link = Len(minted) + 1 /\ ~acct'[a].used
<1>1. /\ Len(minted) + 1 \in Links /\ acct'[a] = Linked(acct[a], Len(minted) + 1) /\ Only(a)
  BY MintLinkTyped DEF Mints, Only
<1>2. acct[a] \in Accounts
  BY DEF TInv, TypeOK
<1> QED
  BY <1>1, <1>2, LinkedRecord

LEMMA Unlinked ==
  ASSUME TInv, NEW a \in Addrs, Unlinks(a)
  PROVE  /\ Only(a) /\ acct'[a].profile = acct[a].profile /\ acct'[a].auth = acct[a].auth
         /\ acct'[a].gen = acct[a].gen /\ acct'[a].pw = acct[a].pw
         /\ acct'[a].sso = acct[a].sso /\ acct'[a].id = acct[a].id
         /\ acct'[a].link = 0 /\ ~acct'[a].used
<1>1. Relinked(acct[a], NoLink) \in Accounts /\ acct[a] \in Accounts
  BY BlankIsAnAccount, RelinkedRecord DEF TInv, TypeOK
<1>2. acct' = [acct EXCEPT ![a] = Relinked(acct[a], NoLink)]
  BY DEF Unlinks
<1>3. acct'[a] = Relinked(acct[a], NoLink) /\ Only(a)
  BY <1>1, <1>2, WriteTyped DEF Only
<1>4. NoLink.link = 0 /\ ~NoLink.used
  BY DEF NoLink
<1> QED
  BY <1>1, <1>3, <1>4, BlankIsAnAccount, RelinkedRecord

LEMMA RestoredUp ==
  ASSUME TInv, NEW a \in Addrs, Restores(a)
  PROVE  /\ Only(a) /\ acct'[a].profile = acct[a].profile /\ acct'[a].auth = acct[a].auth
         /\ acct'[a].gen = acct[a].gen /\ acct'[a].pw = acct[a].pw
         /\ acct'[a].sso = acct[a].sso /\ acct'[a].id = acct[a].id
         /\ \E i \in Admins :
              /\ invite[i] # NoInvite /\ a = invite[i].addr
              /\ acct[a].link = invite[i].link /\ ~acct[a].used
              /\ acct'[a].link = invite[i].prev.link /\ acct'[a].used = invite[i].prev.used
<1>1. PICK i \in Admins :
        /\ invite[i] # NoInvite /\ a = invite[i].addr
        /\ acct[a].link = invite[i].link /\ ~acct[a].used
        /\ acct' = [acct EXCEPT ![a] = Relinked(@, invite[i].prev)]
  BY DEF Restores
<1>2. invite[i].prev \in Kept /\ acct[a] \in Accounts
  BY DEF TInv, TypeOK, Invites
<1>3. Relinked(acct[a], invite[i].prev) \in Accounts
  BY <1>2, RelinkedRecord
<1>4. acct'[a] = Relinked(acct[a], invite[i].prev) /\ Only(a)
  BY <1>1, <1>3, WriteTyped DEF Only
<1> QED
  BY <1>1, <1>2, <1>4, RelinkedRecord

LEMMA MarkedUp ==
  ASSUME TInv, NEW a \in Addrs, Marks(a)
  PROVE  /\ Only(a) /\ acct'[a].auth /\ acct'[a].gen = acct[a].gen /\ acct'[a].pw = acct[a].pw
         /\ acct'[a].sso /\ acct'[a].id = acct[a].id
         /\ acct'[a].link = acct[a].link /\ acct'[a].used = acct[a].used
<1>1. Marked(acct[a]) \in Accounts /\ acct[a] \in Accounts
  BY MarkedRecord DEF TInv, TypeOK
<1>2. acct' = [acct EXCEPT ![a] = Marked(acct[a])]
  BY DEF Marks
<1>3. acct'[a] = Marked(acct[a]) /\ Only(a)
  BY <1>1, <1>2, WriteTyped DEF Only
<1> QED
  BY <1>1, <1>3, MarkedRecord

LEMMA BoundUp ==
  ASSUME TInv, NEW a \in Addrs, Binds(a)
  PROVE  /\ Only(a) /\ acct'[a].auth /\ acct'[a].gen = acct[a].gen /\ acct'[a].pw = acct[a].pw
         /\ acct'[a].sso = acct[a].sso /\ acct'[a].id = loop.id
         /\ acct'[a].link = acct[a].link /\ acct'[a].used = acct[a].used
<1>1. loop.id \in Ids /\ acct[a] \in Accounts
  BY DEF TInv, TypeOK, Placed, HandlerPlaced, Binds
<1>2. Bound(acct[a], loop.id) \in Accounts
  BY <1>1, BoundRecord
<1>3. acct' = [acct EXCEPT ![a] = Bound(acct[a], loop.id)]
  BY DEF Binds
<1>4. acct'[a] = Bound(acct[a], loop.id) /\ Only(a)
  BY <1>2, <1>3, WriteTyped DEF Only
<1> QED
  BY <1>1, <1>4, BoundRecord

LEMMA Dropped ==
  ASSUME TInv, NEW a \in Addrs, Removes(a) \/ Empties(a)
  PROVE  /\ Only(a) /\ ~acct'[a].auth /\ acct'[a].gen = Legacy /\ ~acct'[a].pw
         /\ ~acct'[a].sso /\ acct'[a].id = None /\ acct'[a].link = 0 /\ ~acct'[a].used
         /\ cache'[a] = NoEntry /\ CacheOnly(a)
<1>1. CASE Removes(a)
  <2>1. acct'[a] = Blank /\ Only(a)
    BY <1>1, BlankIsAnAccount, WriteTyped DEF Removes, Only
  <2>2. cache'[a] = NoEntry /\ CacheOnly(a)
    BY <1>1, CacheWrite DEF Removes
  <2> QED
    BY <2>1, <2>2 DEF Blank
<1>2. CASE Empties(a)
  <2>1. acct'[a] = [Blank EXCEPT !.profile = TRUE] /\ Only(a)
    BY <1>2, BlankTyped, WriteTyped DEF Empties, Only
  <2>2. cache'[a] = NoEntry /\ CacheOnly(a)
    BY <1>2, CacheWrite DEF Empties
  <2> QED
    BY <2>1, <2>2, BlankTyped
<1> QED
  BY <1>1, <1>2

LEMMA Unprofiled ==
  ASSUME TInv, NEW a \in Addrs, Unprofiles(a)
  PROVE  /\ Only(a) /\ acct'[a].auth
         /\ acct'[a].gen = acct[a].gen /\ acct'[a].pw = acct[a].pw /\ acct'[a].sso = acct[a].sso
         /\ acct'[a].id = acct[a].id /\ acct'[a].link = acct[a].link
         /\ acct'[a].used = acct[a].used
         /\ cache'[a] = NoEntry /\ CacheOnly(a)
<1>1. cache'[a] = NoEntry /\ CacheOnly(a)
  BY CacheWrite DEF Unprofiles
<1> QED
  BY <1>1 DEF TInv, TypeOK, Accounts, Unprofiles, Only

-----------------------------------------------------------------------------
(* Generations.                                                             *)

\* A record without auth.json holds no generation and no link; a generation
\* in a record or a cookie was issued; what is cached is the record's.
GInv ==
  /\ \A a \in Addrs : ~acct[a].auth => acct[a].gen = Legacy /\ acct[a].link = 0
  /\ \A a \in Addrs : acct[a].gen <= gens
  /\ CacheIsRecord
  /\ \A b \in Browsers : session[b].gen <= gens /\ pending[b].gen <= gens
  /\ loop.at = "consume" => loop.link # 0
  /\ \A i \in Admins : invite[i] # NoInvite => invite[i].link # 0

\* The three things a step may do to the generation of an account.
KeptGen(c) ==
  /\ acct'[c].gen = acct[c].gen /\ gens' \in {gens, gens + 1}
  /\ Exists(c) => acct'[c].profile \/ acct'[c].auth
  /\ \/ cache'[c] = cache[c]
     \/ cache'[c] = NoEntry
     \/ Exists(c) /\ cache'[c] = acct[c].gen

FreshGen(c) ==
  /\ gens' = gens + 1 /\ acct'[c].gen = gens + 1 /\ cache'[c] = gens + 1
  /\ acct'[c].profile \/ acct'[c].auth

DroppedGen(c) == acct'[c].gen = Legacy /\ cache'[c] = NoEntry /\ gens' = gens

GenMoves == \A c \in Addrs : KeptGen(c) \/ FreshGen(c) \/ DroppedGen(c)

BareStays ==
  \A c \in Addrs : ~acct'[c].auth => acct'[c].gen = Legacy /\ acct'[c].link = 0

LEMMA UntouchedGen ==
  ASSUME TInv, NEW a \in Addrs, Only(a), CacheOnly(a) \/ cache' = cache,
         gens' \in {gens, gens + 1}
  PROVE  \A c \in Addrs : c # a => KeptGen(c)
  BY DEF Only, CacheOnly, KeptGen, Exists

LEMMA UntouchedBare ==
  ASSUME GInv, NEW a \in Addrs, Only(a),
         ~acct'[a].auth => acct'[a].gen = Legacy /\ acct'[a].link = 0
  PROVE  BareStays
  BY DEF GInv, Only, BareStays

LEMMA OneGenMove ==
  ASSUME TInv, GInv, NEW a \in Addrs, Only(a), CacheOnly(a) \/ cache' = cache,
         gens' \in {gens, gens + 1}, KeptGen(a) \/ FreshGen(a) \/ DroppedGen(a),
         ~acct'[a].auth => acct'[a].gen = Legacy /\ acct'[a].link = 0
  PROVE  GenMoves /\ BareStays
  BY UntouchedGen, UntouchedBare DEF GenMoves

LEMMA GenSteps ==
  ASSUME TInv, GInv, StoreStep
  PROVE  GenMoves /\ BareStays /\ gens' \in {gens, gens + 1}
<1>1. CASE Rests
  <2>1. BareStays /\ gens' = gens /\ acct' = acct
    BY <1>1 DEF Rests, GInv, BareStays
  <2>2. CASE cache' = cache \/ \A a \in Addrs : cache'[a] = NoEntry
    BY <2>1, <2>2 DEF GenMoves, KeptGen, Exists
  <2>3. ASSUME NEW a \in Addrs, cache' = Filled(a)
        PROVE  GenMoves
    <3>1. \A c \in Addrs : cache'[c] = cache[c] \/ (Exists(c) /\ cache'[c] = acct[c].gen)
      BY <2>3 DEF Filled, TInv, TypeOK
    <3> QED
      BY <2>1, <3>1 DEF GenMoves, KeptGen, Exists
  <2> QED
    BY <1>1, <2>1, <2>2, <2>3 DEF Rests, CacheMoves
<1>2. ASSUME NEW a \in Addrs, Opens(a)
      PROVE  GenMoves /\ BareStays /\ gens' \in {gens, gens + 1}
  <2>1. gens' = gens + 1
    BY <1>2 DEF Opens, NewAccount
  <2> QED
    BY <1>2, <2>1, Opened, OneGenMove DEF FreshGen
<1>3. ASSUME NEW a \in Addrs, Touches(a)
      PROVE  GenMoves /\ BareStays /\ gens' \in {gens, gens + 1}
  <2>1. gens' = gens /\ cache' = cache
    BY <1>3 DEF Touches, Quiet
  <2>2. ~acct[a].auth => acct[a].gen = Legacy /\ acct[a].link = 0
    BY DEF GInv
  <2> QED
    BY <1>3, <2>1, <2>2, Touched, OneGenMove DEF KeptGen
<1>4. ASSUME NEW a \in Addrs, Keys(a)
      PROVE  GenMoves /\ BareStays /\ gens' \in {gens, gens + 1}
  <2>1. gens' = gens + 1
    BY <1>4 DEF Keys, SetPassword, NewGeneration
  <2> QED
    BY <1>4, <2>1, KeyedUp, OneGenMove DEF FreshGen
<1>5. ASSUME NEW a \in Addrs, Consumes(a)
      PROVE  GenMoves /\ BareStays /\ gens' \in {gens, gens + 1}
  <2>1. gens' = gens + 1 /\ acct[a].link # 0
    BY <1>5 DEF Consumes, NewGeneration, GInv
  <2>2. acct[a].auth
    BY <2>1 DEF GInv
  <2> QED
    BY <1>5, <2>1, <2>2, ConsumedUp, OneGenMove DEF FreshGen
<1>6. ASSUME NEW a \in Addrs, Stamps(a)
      PROVE  GenMoves /\ BareStays /\ gens' \in {gens, gens + 1}
  <2>1. gens' = gens + 1
    BY <1>6 DEF Stamps, NewGeneration
  <2> QED
    BY <1>6, <2>1, StampedUp, OneGenMove DEF FreshGen
<1>7. ASSUME NEW a \in Addrs, Mints(a)
      PROVE  GenMoves /\ BareStays /\ gens' \in {gens, gens + 1}
  <2>1. gens' = gens /\ cache' = cache
    BY <1>7 DEF Mints
  <2> QED
    BY <1>7, <2>1, Minted, OneGenMove DEF KeptGen
<1>8. ASSUME NEW a \in Addrs, Unlinks(a)
      PROVE  GenMoves /\ BareStays /\ gens' \in {gens, gens + 1}
  <2>1. gens' = gens /\ cache' = cache
    BY <1>8 DEF Unlinks, Quiet
  <2>2. ~acct[a].auth => acct[a].gen = Legacy
    BY DEF GInv
  <2> QED
    BY <1>8, <2>1, <2>2, Unlinked, OneGenMove DEF KeptGen, Exists
<1>9. ASSUME NEW a \in Addrs, Restores(a)
      PROVE  GenMoves /\ BareStays /\ gens' \in {gens, gens + 1}
  <2>1. gens' = gens /\ cache' = cache
    BY <1>9 DEF Restores, Quiet
  <2>2. acct[a].link # 0
    BY <1>9, RestoredUp DEF GInv
  <2>3. acct[a].auth
    BY <2>2 DEF GInv
  <2> QED
    BY <1>9, <2>1, <2>3, RestoredUp, OneGenMove DEF KeptGen
<1>10. ASSUME NEW a \in Addrs, Marks(a)
       PROVE  GenMoves /\ BareStays /\ gens' \in {gens, gens + 1}
  <2>1. gens' = gens /\ cache' = cache
    BY <1>10 DEF Marks, Quiet
  <2> QED
    BY <1>10, <2>1, MarkedUp, OneGenMove DEF KeptGen
<1>11. ASSUME NEW a \in Addrs, Binds(a)
       PROVE  GenMoves /\ BareStays /\ gens' \in {gens, gens + 1}
  <2>1. gens' = gens /\ cache' = cache
    BY <1>11 DEF Binds, Quiet
  <2> QED
    BY <1>11, <2>1, BoundUp, OneGenMove DEF KeptGen
<1>12. ASSUME NEW a \in Addrs, Removes(a) \/ Empties(a)
       PROVE  GenMoves /\ BareStays /\ gens' \in {gens, gens + 1}
  <2>1. gens' = gens
    BY <1>12 DEF Removes, Empties
  <2> QED
    BY <1>12, <2>1, Dropped, OneGenMove DEF DroppedGen
<1>13. ASSUME NEW a \in Addrs, Unprofiles(a)
       PROVE  GenMoves /\ BareStays /\ gens' \in {gens, gens + 1}
  <2>1. gens' = gens
    BY <1>13 DEF Unprofiles
  <2> QED
    BY <1>13, <2>1, Unprofiled, OneGenMove DEF KeptGen
<1> QED
  BY <1>1, <1>2, <1>3, <1>4, <1>5, <1>6, <1>7, <1>8, <1>9, <1>10, <1>11, <1>12, <1>13
     DEF StoreStep

-----------------------------------------------------------------------------
(* What a step does to the handler on the loop and to the invitations.      *)

Submits(a) ==
  /\ loop = Idle /\ UNCHANGED acct /\ UNCHANGED <<minted, spent>>
  /\ acct[a].link # 0 /\ ~SsoOnly(a)
  /\ loop'.at = "consume" /\ loop'.link = acct[a].link

Registers(a) == Opens(a) /\ loop'.at = "setpw" /\ loop'.addr = a

Changes(a) ==
  /\ loop = Idle /\ UNCHANGED acct /\ ~SsoOnly(a)
  /\ loop'.at = "change" /\ loop'.addr = a

Reads(a) ==
  /\ loop = Idle /\ UNCHANGED <<minted, spent>>
  /\ UNCHANGED acct \/ ~Exists(a)
  /\ loop'.at = "mint" /\ loop'.addr = a
  /\ \/ Exists(a) /\ loop'.prev = [link |-> acct[a].link, used |-> acct[a].used]
     \/ loop'.prev = NoLink

Proves(i) == loop = Idle /\ BoundTo(i) = {} /\ loop'.at = "bind" /\ loop'.id = i

LoopStep ==
  \/ loop' = loop
  \/ loop'.at \in {"idle", "start", "touch", "mark", "mark_placeholder"}
  \/ \E a \in Addrs : Submits(a) \/ Registers(a) \/ Changes(a) \/ Reads(a)
  \/ \E i \in Ids : Proves(i)

\* An invitation goes on, ends, or is the one whose link was just minted.
InviteMade(i) ==
  /\ loop.at = "mint" /\ Exists(loop.addr) /\ Mints(loop.addr)
  /\ invite'[i] = [addr |-> loop.addr, link |-> Len(minted) + 1, prev |-> loop.prev]

InviteStep == \A i \in Admins : invite'[i] = invite[i] \/ invite'[i] = NoInvite \/ InviteMade(i)

LEMMA GoneTo == ASSUME NEW at, NEW b, NEW a, NEW i, Goes(at, b, a, i)
                PROVE  loop'.at = at /\ loop'.addr = a /\ loop'.id = i
  BY DEF Goes, Held

LEMMA Gone == ASSUME Ends PROVE loop'.at = "idle"
  BY IdleTyped DEF Ends

LEMMA LoopSteps ==
  ASSUME TInv, [Next]_vars
  PROVE  LoopStep
<1>0. Ground
  BY Grounded
<1>1. CASE Threads \/ UNCHANGED vars
  BY <1>1 DEF Threads, LoopStep, vars, flows, RemoveUser, RemoveUserFails, BumpGeneration,
              SenderChecks, SenderMints, SenderMails
<1>2. CASE Restart
  BY <1>2, IdleTyped DEF Restart, LoopStep
<1>3. CASE Continues
  <2>1. CASE RegisterSets
    BY <2>1, GoneTo, Gone DEF RegisterSets, LoopStep
  <2>2. CASE StartSession
    <3>1. Ends \/ Goes("touch", None, loop.addr, None)
      BY <2>2 DEF StartSession
    <3> QED
      BY <3>1, GoneTo, Gone DEF LoopStep
  <2>3. CASE TouchLogin \/ ChangeSets \/ ConsumeLink \/ MarkPlaceholder \/ InviteMints
    BY <2>3, Gone DEF TouchLogin, ChangeSets, ConsumeLink, MarkPlaceholder, InviteMints, LoopStep
  <2>4. CASE Bind \/ MarkSso
    <3>1. \/ Ends
          \/ Goes("mark", loop.b, loop.addr, loop.id)
          \/ Goes("start", loop.b, loop.addr, loop.id)
      BY <2>4 DEF Bind, MarkSso
    <3> QED
      BY <3>1, GoneTo, Gone DEF LoopStep
  <2> QED
    BY <1>3, <2>1, <2>2, <2>3, <2>4 DEF Continues
<1>4. CASE Begins
  <2>1. ASSUME NEW b \in Browsers, Gate(b) \/ Logout(b) \/ ChangeBegins(b)
        PROVE  LoopStep
    BY <2>1 DEF Gate, Logout, ChangeBegins, LoopStep
  <2>2. ASSUME NEW b \in Browsers, NEW right \in BOOLEAN, ChangeChecks(b, right)
        PROVE  LoopStep
    <3>1. pending[b].addr \in Addrs
      BY <1>0, <2>2 DEF ChangeChecks, Ground
    <3>2. CASE Goes("change", b, pending[b].addr, None) /\ ~SsoOnly(pending[b].addr)
      <4>1. Changes(pending[b].addr)
        BY <2>2, <3>2, GoneTo DEF ChangeChecks, Changes, records
      <4> QED
        BY <3>1, <4>1 DEF LoopStep
    <3>3. CASE UNCHANGED loop
      BY <3>3 DEF LoopStep
    <3> QED
      BY <2>2, <3>2, <3>3 DEF ChangeChecks
  <2>3. ASSUME NEW b \in Browsers, NEW a \in Addrs, Login(b, a)
        PROVE  LoopStep
    BY <2>3, GoneTo DEF Login, LoopStep
  <2>4. ASSUME NEW b \in Browsers, NEW a \in Addrs, Register(b, a)
        PROVE  LoopStep
    <3>1. CASE NewAccount(a) /\ Goes("setpw", b, a, None)
      <4>1. Registers(a)
        BY <2>4, <3>1, GoneTo DEF Register, Registers, Opens
      <4> QED
        BY <4>1 DEF LoopStep
    <3>2. CASE Ends
      BY <3>2, Gone DEF LoopStep
    <3> QED
      BY <2>4, <3>1, <3>2 DEF Register
  <2>5. ASSUME NEW b \in Browsers, NEW a \in Addrs, NEW i \in Ids, Callback(b, i, a)
        PROVE  LoopStep
    <3>1. ASSUME NEW bound \in BoundTo(i), Goes("mark", b, bound, i)
          PROVE  LoopStep
      BY <3>1, GoneTo DEF LoopStep
    <3>2. CASE BoundTo(i) = {} /\ Goes("bind", b, a, i)
      <4>1. Proves(i)
        BY <2>5, <3>2, GoneTo DEF Callback, Proves
      <4> QED
        BY <4>1 DEF LoopStep
    <3>3. CASE Ends
      BY <3>3, Gone DEF LoopStep
    <3> QED
      BY <2>5, <3>1, <3>2, <3>3 DEF Callback
  <2>6. ASSUME NEW a \in Mailed, SubmitLink(a)
        PROVE  LoopStep
    <3>1. a \in Addrs
      BY ApprovedAreAddrs
    <3>2. Submits(a)
      BY <2>6 DEF SubmitLink, Submits, records, Held
    <3> QED
      BY <3>1, <3>2 DEF LoopStep
  <2>7. ASSUME NEW a \in Mailed, Share(a)
        PROVE  LoopStep
    <3>1. Goes("mark_placeholder", None, a, None) \/ Ends
      BY <2>7 DEF Share
    <3> QED
      BY <3>1, GoneTo, Gone DEF LoopStep
  <2>8. ASSUME NEW i \in Admins, NEW a \in Mailed, Invite(i, a)
        PROVE  LoopStep
    <3> DEFINE kept == IF Exists(a) THEN [link |-> acct[a].link, used |-> acct[a].used]
                       ELSE NoLink
    <3>1. a \in Addrs
      BY ApprovedAreAddrs
    <3>2. loop' = Held("mint", i, a, None, 0, kept)
      BY <2>8 DEF Invite
    <3>3. loop'.at = "mint" /\ loop'.addr = a /\ loop'.prev = kept
      <4> HIDE DEF kept
      <4> QED
        BY <3>2 DEF Held
    <3>4. UNCHANGED acct \/ ~Exists(a)
      BY <2>8 DEF Invite, NewAccount, HalfAccount
    <3>5. Reads(a)
      BY <2>8, <3>3, <3>4 DEF Invite, Reads
    <3> QED
      BY <3>1, <3>5 DEF LoopStep
  <2>9. ASSUME NEW i \in Admins, NEW delivered \in BOOLEAN, InviteMailed(i, delivered)
        PROVE  LoopStep
    BY <2>9 DEF InviteMailed, LoopStep
  <2>10. CASE ToggleSso
    BY <2>10 DEF ToggleSso, LoopStep, flows
  <2> QED
    BY <1>4, <2>1, <2>2, <2>3, <2>4, <2>5, <2>6, <2>7, <2>8, <2>9, <2>10 DEF Begins
<1> QED
  BY <1>1, <1>2, <1>3, <1>4 DEF Next

LEMMA InviteSteps ==
  ASSUME TInv, [Next]_vars
  PROVE  InviteStep
<1>0. Ground
  BY Grounded
<1>1. CASE invite' = invite
  BY <1>1 DEF InviteStep
<1>2. CASE Restart
  BY <1>2 DEF Restart, InviteStep
<1>3. ASSUME NEW i \in Admins, NEW delivered \in BOOLEAN, InviteMailed(i, delivered)
      PROVE  InviteStep
  BY <1>0, <1>3 DEF InviteMailed, InviteStep, Ground
<1>4. CASE InviteMints
  <2>1. CASE Exists(loop.addr)
    <3>1. Mints(loop.addr) /\ loop.at = "mint"
      BY <1>4, <2>1 DEF InviteMints, Mints
    <3>2. invite' = [invite EXCEPT ![loop.b] =
             [addr |-> loop.addr, link |-> Len(minted) + 1, prev |-> loop.prev]]
      BY <1>4, <2>1 DEF InviteMints
    <3> QED
      BY <1>0, <2>1, <3>1, <3>2 DEF InviteStep, InviteMade, Ground
  <2>2. CASE ~Exists(loop.addr)
    BY <1>4, <2>2, <1>1 DEF InviteMints
  <2> QED
    BY <2>1, <2>2
<1>5. Threads \/ UNCHANGED vars => invite' = invite
  BY DEF Threads, vars, flows, RemoveUser, RemoveUserFails, BumpGeneration,
         SenderChecks, SenderMints, SenderMails
<1>6. Continues => invite' = invite \/ InviteMints
  BY DEF Continues, RegisterSets, StartSession, TouchLogin, ChangeSets, ConsumeLink,
         MarkPlaceholder, Bind, MarkSso
<1>7. Begins => \/ invite' = invite
                \/ \E i \in Admins, delivered \in BOOLEAN : InviteMailed(i, delivered)
  BY DEF Begins, Gate, Logout, ChangeBegins, ChangeChecks, Login, Register, Callback,
         SubmitLink, Share, Invite, ToggleSso, flows
<1> QED
  BY <1>1, <1>2, <1>3, <1>4, <1>5, <1>6, <1>7 DEF Next

-----------------------------------------------------------------------------
(* Cookies, and the invariant of the generations.                           *)

LEMMA CookieSteps ==
  ASSUME TInv, GInv, [Next]_vars, gens' \in {gens, gens + 1}
  PROVE  \A b \in Browsers : session'[b].gen <= gens' /\ pending'[b].gen <= gens'
<1>0. Ground
  BY Grounded
<1>a. gens \in Nat /\ gens' \in Nat /\ gens <= gens' /\ Out.gen = 0
  BY BoundsAreNat DEF TInv, TypeOK, Gens, Out, Legacy
<1>b. \A b \in Browsers : /\ session[b].gen \in Nat /\ session[b].gen <= gens'
                          /\ pending[b].gen \in Nat /\ pending[b].gen <= gens'
  BY <1>0, <1>a, BoundsAreNat DEF GInv, Ground, Cookies, Gens
<1>1. CASE UNCHANGED <<session, pending>>
  BY <1>1, <1>b
<1>2. ASSUME NEW b \in Browsers, Gate(b) \/ Logout(b) \/ ChangeBegins(b)
      PROVE  \A c \in Browsers : session'[c].gen <= gens' /\ pending'[c].gen <= gens'
  <2>1. /\ session' = session \/ session' = [session EXCEPT ![b] = Out]
        /\ pending' = pending \/ pending' = [pending EXCEPT ![b] = session[b]]
    BY <1>2 DEF Gate, Logout, ChangeBegins
  <2> QED
    BY <1>0, <1>a, <1>b, <2>1 DEF Ground
<1>3. ASSUME NEW b \in Browsers, NEW right \in BOOLEAN, ChangeChecks(b, right)
      PROVE  \A c \in Browsers : session'[c].gen <= gens' /\ pending'[c].gen <= gens'
  <2>1. CASE UNCHANGED <<session, pending>>
    BY <2>1, <1>b
  <2>2. CASE /\ session' = [session EXCEPT ![b] = pending[b]]
             /\ pending' = [pending EXCEPT ![b] = Out]
    BY <1>0, <1>a, <1>b, <2>2 DEF Ground
  <2> QED
    BY <1>3, <2>1, <2>2 DEF ChangeChecks
<1>4. ASSUME StartSession
      PROVE  \A c \in Browsers : session'[c].gen <= gens' /\ pending'[c].gen <= gens'
  <2>1. CASE session' = session
    BY <1>4, <2>1, <1>b DEF StartSession
  <2>2. CASE session' # session
    <3>1. /\ session' = [session EXCEPT ![loop.b] =
                           [addr |-> loop.addr, gen |-> Filled(loop.addr)[loop.addr]]]
          /\ ~(cache[loop.addr] = NoEntry /\ ~Exists(loop.addr))
      BY <1>4, <2>2 DEF StartSession
    <3>2. loop.addr \in Addrs
      BY <1>0, <1>4 DEF StartSession, Ground, HandlerPlaced
    <3>3. Filled(loop.addr)[loop.addr] = acct[loop.addr].gen
      BY <1>0, <3>1, <3>2 DEF GInv, CacheIsRecord, Filled, Ground, Stored
    <3>4. acct[loop.addr].gen <= gens /\ acct[loop.addr].gen \in Nat
      BY <1>0, <3>2, BoundsAreNat DEF GInv, Ground, Stored, Accounts, Gens
    <3> QED
      BY <1>0, <1>4, <1>a, <1>b, <3>1, <3>3, <3>4 DEF StartSession, Ground
  <2> QED
    BY <2>1, <2>2
<1>5. ASSUME ChangeSets
      PROVE  \A c \in Browsers : session'[c].gen <= gens' /\ pending'[c].gen <= gens'
  <2>1. pending' = [pending EXCEPT ![loop.b] = Out]
    BY <1>5 DEF ChangeSets
  <2>2. CASE /\ gens' = gens + 1
             /\ session' = [session EXCEPT ![loop.b] = [addr |-> loop.addr, gen |-> gens + 1]]
    BY <1>0, <1>a, <1>b, <2>1, <2>2 DEF Ground
  <2>3. CASE session' = [session EXCEPT ![loop.b] = Out]
    BY <1>0, <1>a, <1>b, <2>1, <2>3 DEF Ground
  <2> QED
    BY <1>5, <2>2, <2>3 DEF ChangeSets, SetPassword, NewGeneration
<1>6. CASE Restart
  BY <1>6, <1>a, <1>b DEF Restart
<1>7. Threads \/ UNCHANGED vars => UNCHANGED <<session, pending>>
  BY DEF Threads, vars, flows, RemoveUser, RemoveUserFails, BumpGeneration,
         SenderChecks, SenderMints, SenderMails
<1>8. Continues => UNCHANGED <<session, pending>> \/ StartSession \/ ChangeSets
  BY DEF Continues, RegisterSets, TouchLogin, ConsumeLink, MarkPlaceholder, InviteMints,
         Bind, MarkSso
<1>9. Begins => \/ UNCHANGED <<session, pending>>
                \/ \E b \in Browsers : Gate(b) \/ Logout(b) \/ ChangeBegins(b)
                \/ \E b \in Browsers, right \in BOOLEAN : ChangeChecks(b, right)
  BY DEF Begins, Login, Register, Callback, SubmitLink, Share, Invite, InviteMailed,
         ToggleSso, flows
<1> QED
  BY <1>1, <1>2, <1>3, <1>4, <1>5, <1>6, <1>7, <1>8, <1>9 DEF Next

LEMMA GenInit == Init => GInv
<1> SUFFICES ASSUME Init PROVE GInv
  OBVIOUS
<1>1. \A a \in Addrs : acct[a] \in {Blank, LegacyAccount}
  BY DEF Init
<1>2. \A a \in Addrs : acct[a].gen = Legacy /\ acct[a].link = 0
  BY <1>1, BlankTyped DEF LegacyAccount, Blank
<1>3. gens = 0 /\ Legacy = 0
  BY DEF Init, Legacy
<1>4. \A b \in Browsers : session[b].gen = 0 /\ pending[b].gen = 0
  BY <1>3 DEF Init, Out
<1>5. \A a \in Addrs : cache[a] = NoEntry
  BY DEF Init
<1>6. loop.at = "idle" /\ \A i \in Admins : invite[i] = NoInvite
  BY IdleTyped DEF Init
<1> QED
  BY <1>2, <1>3, <1>4, <1>5, <1>6 DEF GInv, CacheIsRecord

LEMMA GenNext ==
  ASSUME TInv, TInv', GInv, [Next]_vars
  PROVE  GInv'
<1>1. StoreStep /\ LoopStep /\ InviteStep
  BY StoreSteps, LoopSteps, InviteSteps
<1>2. GenMoves /\ BareStays /\ gens' \in {gens, gens + 1}
  BY <1>1, GenSteps
<1>3. gens \in Nat /\ gens' \in Nat /\ \A a \in Addrs : acct[a].gen \in Nat
  BY BoundsAreNat DEF TInv, TypeOK, Gens, Accounts
<1>4. \A a \in Addrs : ~acct'[a].auth => acct'[a].gen = Legacy /\ acct'[a].link = 0
  BY <1>2 DEF BareStays
<1>5. \A a \in Addrs : acct'[a].gen <= gens'
  BY <1>2, <1>3 DEF GenMoves, KeptGen, FreshGen, DroppedGen, GInv, Legacy
<1>6. CacheIsRecord'
  BY <1>2 DEF GenMoves, KeptGen, FreshGen, DroppedGen, GInv, CacheIsRecord, Exists
<1>7. \A b \in Browsers : session'[b].gen <= gens' /\ pending'[b].gen <= gens'
  BY <1>2, CookieSteps
<1>8. loop'.at = "consume" => loop'.link # 0
  BY <1>1 DEF LoopStep, Submits, Registers, Changes, Reads, Proves, GInv
<1>9. \A i \in Admins : invite'[i] # NoInvite => invite'[i].link # 0
  <2>1. Len(minted) \in Nat
    BY LenProperties DEF TInv, TypeOK
  <2> QED
    BY <1>1, <2>1 DEF InviteStep, InviteMade, GInv
<1> QED
  BY <1>4, <1>5, <1>6, <1>7, <1>8, <1>9 DEF GInv

\* The cache of session generations never disagrees with the account's record,
\* whatever removals, re-creations and sign-ins overlap.
THEOREM CacheTracksRecord == Spec => []CacheIsRecord
<1>1. Init => TInv /\ GInv
  BY TypesInit, GenInit
<1>2. TInv /\ GInv /\ [Next]_vars => TInv' /\ GInv'
  BY TypesNext, GenNext
<1>3. GInv => CacheIsRecord
  BY DEF GInv
<1> QED
  BY <1>1, <1>2, <1>3, PTL DEF Spec

LEMMA RefusedForGood ==
  ASSUME TInv, GInv, TInv', GInv', [Next]_vars, NEW b \in Browsers,
         session[b].gen # Legacy, ~Passes(session[b]), session'[b] = session[b]
  PROVE  ~Passes(session[b])'
<1> DEFINE s == session[b]
           a == s.addr
<1>1. CASE a = None
  BY <1>1 DEF Passes
<1>2. CASE a # None
  <2>1. a \in Addrs /\ s.gen \in Nat /\ s.gen <= gens /\ gens \in Nat
    BY <1>2, BoundsAreNat DEF TInv, TypeOK, Cookies, Gens, GInv
  <2>2. ~(Exists(a) /\ s.gen = acct[a].gen)
    BY <1>2, <2>1 DEF Passes, GInv, CacheIsRecord
  <2>3. KeptGen(a) \/ FreshGen(a) \/ DroppedGen(a)
    BY <2>1, StoreSteps, GenSteps DEF GenMoves
  <2>4. s.gen # acct'[a].gen \/ ~(acct'[a].profile \/ acct'[a].auth)
    <3>1. CASE Exists(a)
      BY <2>1, <2>2, <2>3, <3>1 DEF KeptGen, FreshGen, DroppedGen
    <3>2. CASE ~Exists(a)
      <4>1. acct[a].gen = Legacy
        BY <2>1, <3>2 DEF GInv, Exists, TInv, TypeOK, Accounts
      <4> QED
        BY <2>1, <2>3, <4>1 DEF KeptGen, FreshGen, DroppedGen
    <3> QED
      BY <3>1, <3>2
  <2>5. cache'[a] # NoEntry => cache'[a] = acct'[a].gen /\ (acct'[a].profile \/ acct'[a].auth)
    BY <2>1 DEF GInv, CacheIsRecord, Exists
  <2>6. session'[b].addr = a /\ session'[b].gen = s.gen
    OBVIOUS
  <2> QED
    BY <2>4, <2>5, <2>6 DEF Passes, Exists
<1> QED
  BY <1>1, <1>2

\* A cookie the gate refuses is refused for good: no removal, account created
\* again, restart or rollback makes it good again.
THEOREM RefusalIsFinal == Spec => EndedStaysEnded
<1>1. Init => TInv /\ GInv
  BY TypesInit, GenInit
<1>2. TInv /\ GInv /\ [Next]_vars => TInv' /\ GInv'
  BY TypesNext, GenNext
<1>3. TInv /\ GInv /\ TInv' /\ GInv' /\ [Next]_vars
      => [\A b \in Browsers :
            session[b].gen # Legacy /\ ~Passes(session[b]) /\ session'[b] = session[b]
              => ~Passes(session[b])']_vars
  BY RefusedForGood
<1> QED
  BY <1>1, <1>2, <1>3, PTL DEF Spec, EndedStaysEnded

-----------------------------------------------------------------------------
(* Microsoft identities.                                                    *)

\* While a callback goes on to bind an identity, no account holds it.
IdInv ==
  /\ OneAccountPerIdentity
  /\ loop.at = "bind" => \A a \in Addrs : acct[a].id # loop.id

\* An account keeps its identity, loses it, or is bound by the callback.
IdMoves ==
  \A c \in Addrs :
    \/ acct'[c].id = acct[c].id
    \/ acct'[c].id = None
    \/ Binds(c) /\ acct'[c].id = loop.id /\ Only(c)

LEMMA OneIdMove ==
  ASSUME NEW a \in Addrs, Only(a),
         acct'[a].id \in {acct[a].id, None} \/ (Binds(a) /\ acct'[a].id = loop.id)
  PROVE  IdMoves
  BY DEF IdMoves, Only

LEMMA IdSteps ==
  ASSUME TInv, StoreStep
  PROVE  IdMoves
<1>1. CASE Rests
  BY <1>1 DEF Rests, IdMoves
<1>2. ASSUME NEW a \in Addrs,
             \/ Opens(a) \/ Touches(a) \/ Keys(a) \/ Consumes(a) \/ Stamps(a) \/ Mints(a)
             \/ Unlinks(a) \/ Restores(a) \/ Marks(a)
             \/ Removes(a) \/ Empties(a) \/ Unprofiles(a)
      PROVE  IdMoves
  <2>1. Only(a) /\ acct'[a].id \in {acct[a].id, None}
    BY <1>2, Opened, Touched, KeyedUp, ConsumedUp, StampedUp, Minted, Unlinked, RestoredUp,
       MarkedUp, Dropped, Unprofiled
  <2> QED
    BY <2>1, OneIdMove
<1>3. ASSUME NEW a \in Addrs, Binds(a)
      PROVE  IdMoves
  BY <1>3, BoundUp, OneIdMove
<1> QED
  BY <1>1, <1>2, <1>3 DEF StoreStep

LEMMA IdInit == Init => IdInv
<1> SUFFICES ASSUME Init PROVE IdInv
  OBVIOUS
<1>1. \A a \in Addrs : acct[a] \in {Blank, LegacyAccount}
  BY DEF Init
<1>2. \A a \in Addrs : acct[a].id = None
  BY <1>1, BlankTyped DEF LegacyAccount, Blank
<1>3. loop.at = "idle"
  BY IdleTyped DEF Init
<1> QED
  BY <1>2, <1>3, NoneIsNone DEF IdInv, OneAccountPerIdentity, BoundTo

LEMMA IdNext ==
  ASSUME TInv, IdInv, [Next]_vars
  PROVE  IdInv'
<1>1. IdMoves /\ LoopStep
  BY StoreSteps, IdSteps, LoopSteps
<1>2. \A i \in Ids, a, b \in Addrs : acct[a].id = i /\ acct[b].id = i => a = b
  BY DEF IdInv, OneAccountPerIdentity, BoundTo
<1>3. \A i \in Ids, a, b \in Addrs : acct'[a].id = i /\ acct'[b].id = i => a = b
  <2> SUFFICES ASSUME NEW i \in Ids, NEW a \in Addrs, NEW b \in Addrs,
                      acct'[a].id = i, acct'[b].id = i, a # b
               PROVE  FALSE
    OBVIOUS
  <2>1. i # None
    BY NoneIsNone
  <2>2. CASE acct'[a].id = acct[a].id /\ acct'[b].id = acct[b].id
    BY <1>2, <2>2
  <2>3. ASSUME NEW x \in {a, b}, Binds(x), acct'[x].id = loop.id, Only(x)
        PROVE  FALSE
    <3>1. \A c \in Addrs : acct[c].id # loop.id
      BY <2>3 DEF Binds, IdInv
    <3> QED
      BY <2>3, <3>1 DEF Only
  <2> QED
    BY <1>1, <2>1, <2>2, <2>3 DEF IdMoves
<1>4. OneAccountPerIdentity'
  BY <1>3 DEF OneAccountPerIdentity, BoundTo
<1>5. ASSUME loop'.at = "bind"
      PROVE  \A a \in Addrs : acct'[a].id # loop'.id
  <2>1. \A a \in Addrs : ~Binds(a)
    BY <1>5 DEF Binds
  <2>2. \A a \in Addrs : acct'[a].id \in {acct[a].id, None}
    BY <1>1, <2>1 DEF IdMoves
  <2>3. CASE loop' = loop
    <3>1. loop.id # None
      BY <1>5, <2>3, NoneIsNone DEF TInv, Placed, HandlerPlaced
    <3> QED
      BY <1>5, <2>2, <2>3, <3>1 DEF IdInv
  <2>4. ASSUME NEW i \in Ids, Proves(i)
        PROVE  \A a \in Addrs : acct'[a].id # loop'.id
    BY <2>2, <2>4, NoneIsNone DEF Proves, BoundTo
  <2> QED
    BY <1>1, <1>5, <2>3, <2>4 DEF LoopStep, Submits, Registers, Changes, Reads
<1> QED
  BY <1>4, <1>5 DEF IdInv

\* No interleaving of Microsoft sign-ins, removals and invitations binds one
\* identity to two accounts.
THEOREM IdentityIsOneAccount == Spec => []OneAccountPerIdentity
<1>1. Init => TInv /\ IdInv
  BY TypesInit, IdInit
<1>2. TInv /\ IdInv /\ [Next]_vars => TInv' /\ IdInv'
  BY TypesNext, IdNext
<1>3. IdInv => OneAccountPerIdentity
  BY DEF IdInv
<1> QED
  BY <1>1, <1>2, <1>3, PTL DEF Spec

-----------------------------------------------------------------------------
(* Links.                                                                   *)

Owned(t, a) == t \in DOMAIN minted /\ minted[t] = a

\* Every link that is kept somewhere was minted for the account it is kept for.
LinkInv ==
  /\ \A a \in Addrs : acct[a].link # 0 => Owned(acct[a].link, a)
  /\ \A i \in Admins : invite[i] # NoInvite =>
       /\ Owned(invite[i].link, invite[i].addr)
       /\ invite[i].prev.link # 0 => Owned(invite[i].prev.link, invite[i].addr)
  /\ loop.at = "mint" => (loop.prev.link # 0 => Owned(loop.prev.link, loop.addr))
  /\ loop.at = "consume" => loop.link \in DOMAIN minted
  /\ spent \subseteq DOMAIN minted

\* What a step does to the link of an account: nothing or a use, an end, a new
\* one, or the return of the one an invitation replaced.
LinkMove(c) ==
  \/ acct'[c].link = acct[c].link /\ (acct[c].used => acct'[c].used)
  \/ acct'[c].link = 0
  \/ Mints(c) /\ acct'[c].link = Len(minted) + 1
  \/ /\ loop = Idle
     /\ \E i \in Admins :
          /\ invite[i] # NoInvite /\ c = invite[i].addr
          /\ acct[c].link = invite[i].link /\ ~acct[c].used
          /\ acct'[c].link = invite[i].prev.link /\ acct'[c].used = invite[i].prev.used

LinkMoves == \A c \in Addrs : LinkMove(c)

LEMMA OneLinkMove == ASSUME NEW a \in Addrs, Only(a), LinkMove(a) PROVE LinkMoves
  BY DEF LinkMoves, LinkMove, Only

LEMMA LinkSteps ==
  ASSUME TInv, StoreStep
  PROVE  LinkMoves
<1>1. CASE Rests
  BY <1>1 DEF Rests, LinkMoves, LinkMove
<1>2. ASSUME NEW a \in Addrs,
             \/ Touches(a) \/ Stamps(a) \/ Marks(a) \/ Binds(a) \/ Unprofiles(a)
      PROVE  LinkMoves
  <2>1. Only(a) /\ acct'[a].link = acct[a].link /\ acct'[a].used = acct[a].used
    BY <1>2, Touched, StampedUp, MarkedUp, BoundUp, Unprofiled
  <2> QED
    BY <2>1, OneLinkMove DEF LinkMove
<1>3. ASSUME NEW a \in Addrs,
             Opens(a) \/ Keys(a) \/ Unlinks(a) \/ Removes(a) \/ Empties(a)
      PROVE  LinkMoves
  <2>1. Only(a) /\ acct'[a].link = 0
    BY <1>3, Opened, KeyedUp, Unlinked, Dropped
  <2> QED
    BY <2>1, OneLinkMove DEF LinkMove
<1>4. ASSUME NEW a \in Addrs, Consumes(a)
      PROVE  LinkMoves
  <2>1. Only(a) /\ acct'[a].link = acct[a].link /\ acct'[a].used
    BY <1>4, ConsumedUp
  <2> QED
    BY <2>1, OneLinkMove DEF LinkMove
<1>5. ASSUME NEW a \in Addrs, Mints(a)
      PROVE  LinkMoves
  BY <1>5, Minted, OneLinkMove DEF LinkMove
<1>6. ASSUME NEW a \in Addrs, Restores(a)
      PROVE  LinkMoves
  <2>1. LinkMove(a) /\ Only(a)
    BY <1>6, RestoredUp DEF LinkMove, Restores
  <2> QED
    BY <2>1, OneLinkMove
<1> QED
  BY <1>1, <1>2, <1>3, <1>4, <1>5, <1>6 DEF StoreStep

\* What a step does to the links that were issued and to those that are dead.
SpentMove ==
  \/ spent' = spent
  \/ \E a \in Addrs : /\ spent' = spent \cup LinksOf(a) /\ minted' = minted /\ Only(a)
                      /\ acct'[a].link = 0 \/ acct'[a].used
                      /\ loop.at \in {"setpw", "change", "consume"} \/ acct'[a] = Blank

MintedMove ==
  \/ minted' = minted
  \/ /\ \A t \in DOMAIN minted : t \in DOMAIN minted' /\ minted'[t] = minted[t]
     /\ spent' = spent
     /\ \E a \in Addrs : Mints(a)

LEMMA MintedGrows ==
  ASSUME TInv, NEW a \in Addrs, Mints(a)
  PROVE  /\ \A t \in DOMAIN minted : t \in DOMAIN minted' /\ minted'[t] = minted[t]
         /\ Len(minted) + 1 \in DOMAIN minted' /\ minted'[Len(minted) + 1] = a
<1>1. /\ minted' \in Seq(Addrs) /\ Len(minted') = Len(minted) + 1
      /\ minted'[Len(minted) + 1] = a
      /\ \A t \in DOMAIN minted : minted'[t] = minted[t]
  BY MintLinkTyped DEF Mints
<1>2. /\ DOMAIN minted = 1..Len(minted) /\ DOMAIN minted' = 1..Len(minted')
      /\ Len(minted) \in Nat
  BY <1>1, LenProperties DEF TInv, TypeOK
<1> QED
  BY <1>1, <1>2

LEMMA SpentSteps ==
  ASSUME TInv, StoreStep
  PROVE  SpentMove /\ MintedMove
<1>1. CASE Rests
  BY <1>1 DEF Rests, SpentMove, MintedMove
<1>2. ASSUME NEW a \in Addrs,
             \/ Opens(a) \/ Touches(a) \/ Stamps(a)
             \/ Unlinks(a) \/ Restores(a) \/ Marks(a) \/ Binds(a)
             \/ Empties(a) \/ Unprofiles(a)
      PROVE  SpentMove /\ MintedMove
  BY <1>2 DEF Opens, Touches, Stamps, Unlinks, Restores, Marks, Binds, Empties, Unprofiles,
              Quiet, SpentMove, MintedMove
<1>3. ASSUME NEW a \in Addrs, Mints(a)
      PROVE  SpentMove /\ MintedMove
  BY <1>3, MintedGrows DEF Mints, SpentMove, MintedMove
<1>4. ASSUME NEW a \in Addrs, Keys(a)
      PROVE  SpentMove /\ MintedMove
  BY <1>4, KeyedUp DEF Keys, SetPassword, SpentMove, MintedMove
<1>5. ASSUME NEW a \in Addrs, Consumes(a)
      PROVE  SpentMove /\ MintedMove
  BY <1>5, ConsumedUp DEF Consumes, SpentMove, MintedMove
<1>6. ASSUME NEW a \in Addrs, Removes(a)
      PROVE  SpentMove /\ MintedMove
  <2>1. acct'[a] = Blank /\ Only(a) /\ Blank.link = 0
    BY <1>6, BlankIsAnAccount, WriteTyped DEF Removes, Only, Blank
  <2> QED
    BY <1>6, <2>1 DEF Removes, SpentMove, MintedMove
<1> QED
  BY <1>1, <1>2, <1>3, <1>4, <1>5, <1>6 DEF StoreStep

LEMMA NoLinkZero == ASSUME TInv PROVE 0 \notin DOMAIN minted /\ Len(minted) + 1 \notin DOMAIN minted
<1>1. DOMAIN minted = 1..Len(minted) /\ Len(minted) \in Nat
  BY LenProperties DEF TInv, TypeOK
<1> QED
  BY <1>1

LEMMA LinkInit == Init => LinkInv
<1> SUFFICES ASSUME Init PROVE LinkInv
  OBVIOUS
<1>1. \A a \in Addrs : acct[a] \in {Blank, LegacyAccount}
  BY DEF Init
<1>2. \A a \in Addrs : acct[a].link = 0
  BY <1>1, BlankTyped DEF LegacyAccount, Blank
<1>3. loop.at = "idle" /\ spent = {} /\ \A i \in Admins : invite[i] = NoInvite
  BY IdleTyped DEF Init
<1> QED
  BY <1>2, <1>3 DEF LinkInv

LEMMA LinkNext ==
  ASSUME TInv, TInv', LinkInv, [Next]_vars
  PROVE  LinkInv'
<1>1. LinkMoves /\ SpentMove /\ MintedMove /\ LoopStep /\ InviteStep
  BY StoreSteps, LinkSteps, SpentSteps, LoopSteps, InviteSteps
<1>2. \A t, a : Owned(t, a) => t \in DOMAIN minted' /\ minted'[t] = a
  BY <1>1 DEF MintedMove, Owned
<1>3. ASSUME NEW a \in Addrs, acct'[a].link # 0
      PROVE  acct'[a].link \in DOMAIN minted' /\ minted'[acct'[a].link] = a
  <2>1. CASE acct'[a].link = acct[a].link
    BY <1>2, <1>3, <2>1 DEF LinkInv
  <2>2. CASE Mints(a) /\ acct'[a].link = Len(minted) + 1
    BY <2>2, MintedGrows
  <2>3. ASSUME NEW i \in Admins, invite[i] # NoInvite, a = invite[i].addr,
               acct'[a].link = invite[i].prev.link
        PROVE  acct'[a].link \in DOMAIN minted' /\ minted'[acct'[a].link] = a
    BY <1>2, <1>3, <2>3 DEF LinkInv
  <2> QED
    BY <1>1, <1>3, <2>1, <2>2, <2>3 DEF LinkMoves, LinkMove
<1>4. ASSUME NEW i \in Admins, invite'[i] # NoInvite
      PROVE  LET v == invite'[i] IN
             /\ v.link \in DOMAIN minted' /\ minted'[v.link] = v.addr
             /\ v.prev.link # 0 => v.prev.link \in DOMAIN minted' /\ minted'[v.prev.link] = v.addr
  <2>1. CASE invite'[i] = invite[i]
    BY <1>2, <1>4, <2>1 DEF LinkInv
  <2>2. CASE InviteMade(i)
    <3>1. loop.addr \in Addrs
      BY <2>2 DEF InviteMade, TInv, Placed, HandlerPlaced
    <3>2. Len(minted) + 1 \in DOMAIN minted' /\ minted'[Len(minted) + 1] = loop.addr
      BY <2>2, <3>1, MintedGrows DEF InviteMade
    <3>3. loop.prev.link # 0 => Owned(loop.prev.link, loop.addr)
      BY <2>2 DEF InviteMade, LinkInv
    <3>4. /\ invite'[i].link = Len(minted) + 1 /\ invite'[i].addr = loop.addr
          /\ invite'[i].prev = loop.prev
      BY <2>2 DEF InviteMade
    <3> QED
      BY <1>2, <3>2, <3>3, <3>4
  <2> QED
    BY <1>1, <1>4, <2>1, <2>2 DEF InviteStep
<1>5. ASSUME loop'.at = "mint", loop'.prev.link # 0
      PROVE  loop'.prev.link \in DOMAIN minted' /\ minted'[loop'.prev.link] = loop'.addr
  <2>1. CASE loop' = loop
    BY <1>2, <1>5, <2>1 DEF LinkInv
  <2>2. ASSUME NEW a \in Addrs, Reads(a)
        PROVE  loop'.prev.link \in DOMAIN minted' /\ minted'[loop'.prev.link] = loop'.addr
    <3>1. loop'.prev.link = acct[a].link /\ loop'.addr = a
      BY <1>5, <2>2 DEF Reads, NoLink
    <3> QED
      BY <1>2, <1>5, <3>1 DEF LinkInv
  <2> QED
    BY <1>1, <1>5, <2>1, <2>2 DEF LoopStep, Submits, Registers, Changes, Proves
<1>6. ASSUME loop'.at = "consume"
      PROVE  loop'.link \in DOMAIN minted'
  <2>1. CASE loop' = loop
    BY <1>2, <1>6, <2>1 DEF LinkInv, Owned
  <2>2. ASSUME NEW a \in Addrs, Submits(a)
        PROVE  loop'.link \in DOMAIN minted'
    BY <1>2, <2>2 DEF Submits, LinkInv
  <2> QED
    BY <1>1, <1>6, <2>1, <2>2 DEF LoopStep, Reads, Registers, Changes, Proves
<1>7. spent' \subseteq DOMAIN minted'
  <2>1. spent \subseteq DOMAIN minted'
    BY <1>2 DEF LinkInv, Owned
  <2> QED
    BY <1>1, <2>1 DEF SpentMove, LinksOf
<1> QED
  BY <1>3, <1>4, <1>5, <1>6, <1>7 DEF LinkInv, Owned

-----------------------------------------------------------------------------
(* Spent links.                                                             *)

\* What an invitation would put back is no more alive than the link it minted.
DeadInv ==
  /\ SpentLinksStayDead
  /\ \A i \in Admins :
       invite[i] # NoInvite /\ invite[i].prev.link \in spent
         => invite[i].prev.used \/ invite[i].link \in spent
  /\ loop.at = "mint" /\ Exists(loop.addr) /\ loop.prev.link \in spent => loop.prev.used

LEMMA DeadInit == Init => DeadInv
<1> SUFFICES ASSUME Init PROVE DeadInv
  OBVIOUS
<1>1. loop.at = "idle" /\ spent = {} /\ \A i \in Admins : invite[i] = NoInvite
  BY IdleTyped DEF Init
<1> QED
  BY <1>1 DEF DeadInv, SpentLinksStayDead

\* No thread gives an account back to a handler that is about to mint.
LEMMA MintHolds ==
  ASSUME TInv, LinkInv, StoreStep, loop.at = "mint", NEW a \in Addrs, a = loop.addr,
         acct'[a].profile \/ acct'[a].auth
  PROVE  Exists(a) /\ \A t \in spent' : t \in spent \/ ~Owned(t, a)
<1>0. loop # Idle
  BY IdleTyped
<1>1. CASE Rests
  BY <1>1 DEF Rests, Exists
<1>2. ASSUME NEW c \in Addrs, Stamps(c) \/ Mints(c) \/ Unlinks(c) \/ Empties(c) \/ Unprofiles(c)
      PROVE  Exists(a) /\ \A t \in spent' : t \in spent \/ ~Owned(t, a)
  <2>1. spent' = spent
    BY <1>2 DEF Stamps, Mints, Unlinks, Empties, Unprofiles, Quiet
  <2>2. CASE c = a
    BY <1>2, <2>1, <2>2, Unlinked DEF Stamps, Mints, Empties, Unprofiles, Exists
  <2>3. CASE c # a
    BY <1>2, <2>1, <2>3, StampedUp, Minted, Unlinked, Dropped, Unprofiled DEF Only, Exists
  <2> QED
    BY <2>2, <2>3
<1>3. ASSUME NEW c \in Addrs, Removes(c)
      PROVE  Exists(a) /\ \A t \in spent' : t \in spent \/ ~Owned(t, a)
  <2>1. acct'[c] = Blank /\ Only(c)
    BY <1>3, BlankIsAnAccount, WriteTyped DEF Removes, Only
  <2>2. c # a
    BY <2>1 DEF Blank
  <2>3. Exists(a)
    BY <2>1, <2>2 DEF Only, Exists
  <2> QED
    BY <1>3, <2>2, <2>3 DEF Removes, LinksOf, Owned
<1> QED
  BY <1>0, <1>1, <1>2, <1>3
     DEF StoreStep, Opens, Touches, Keys, Consumes, Restores, Marks, Binds

LEMMA DeadNext ==
  ASSUME TInv, LinkInv, DeadInv, [Next]_vars
  PROVE  DeadInv'
<1>1. StoreStep /\ LinkMoves /\ SpentMove /\ MintedMove /\ LoopStep /\ InviteStep
  BY StoreSteps, LinkSteps, SpentSteps, LoopSteps, InviteSteps
<1>2. /\ 0 \notin DOMAIN minted /\ Len(minted) + 1 \notin DOMAIN minted
      /\ spent \subseteq DOMAIN minted
  BY NoLinkZero DEF LinkInv
<1>3. 0 \notin spent'
  BY <1>1, <1>2 DEF SpentMove, LinksOf
<1>4. ASSUME NEW c \in Addrs, acct'[c].link \in spent'
      PROVE  acct'[c].used
  <2>1. CASE spent' = spent
    <3>1. CASE acct'[c].link = acct[c].link /\ (acct[c].used => acct'[c].used)
      BY <1>4, <2>1, <3>1 DEF DeadInv, SpentLinksStayDead
    <3>2. CASE acct'[c].link = 0 \/ acct'[c].link = Len(minted) + 1
      BY <1>2, <1>4, <2>1, <3>2
    <3>3. ASSUME NEW i \in Admins, invite[i] # NoInvite,
                 acct[c].link = invite[i].link, ~acct[c].used,
                 acct'[c].link = invite[i].prev.link, acct'[c].used = invite[i].prev.used
          PROVE  acct'[c].used
      <4>1. invite[i].link \notin spent
        BY <3>3 DEF DeadInv, SpentLinksStayDead
      <4> QED
        BY <1>4, <2>1, <3>3, <4>1 DEF DeadInv
    <3> QED
      BY <1>1, <3>1, <3>2, <3>3 DEF LinkMoves, LinkMove
  <2>2. ASSUME NEW a \in Addrs, spent' = spent \cup LinksOf(a), Only(a),
               acct'[a].link = 0 \/ acct'[a].used
        PROVE  acct'[c].used
    <3>1. CASE c = a
      BY <1>3, <1>4, <2>2, <3>1
    <3>2. CASE c # a
      <4>1. acct'[c] = acct[c]
        BY <2>2, <3>2 DEF Only
      <4>2. acct[c].link # 0
        BY <1>3, <1>4, <4>1
      <4>3. acct[c].link \in spent
        BY <1>4, <2>2, <3>2, <4>1, <4>2 DEF LinkInv, Owned, LinksOf
      <4> QED
        BY <4>1, <4>3 DEF DeadInv, SpentLinksStayDead
    <3> QED
      BY <3>1, <3>2
  <2> QED
    BY <1>1, <2>1, <2>2 DEF SpentMove
<1>5. ASSUME NEW i \in Admins, invite'[i] # NoInvite, invite'[i].prev.link \in spent'
      PROVE  invite'[i].prev.used \/ invite'[i].link \in spent'
  <2>1. CASE invite'[i] = invite[i]
    <3>1. CASE spent' = spent
      BY <1>5, <2>1, <3>1 DEF DeadInv
    <3>2. ASSUME NEW a \in Addrs, spent' = spent \cup LinksOf(a)
          PROVE  invite'[i].prev.used \/ invite'[i].link \in spent'
      <4>1. CASE invite[i].prev.link \in spent
        BY <1>5, <2>1, <3>2, <4>1 DEF DeadInv
      <4>2. CASE invite[i].prev.link \in LinksOf(a)
        <5>1. invite[i].prev.link # 0
          BY <1>2, <4>2 DEF LinksOf
        <5>2. a = invite[i].addr
          BY <1>5, <2>1, <4>2, <5>1 DEF LinkInv, Owned, LinksOf
        <5> QED
          BY <1>5, <2>1, <3>2, <5>2 DEF LinkInv, Owned, LinksOf
      <4> QED
        BY <1>5, <2>1, <3>2, <4>1, <4>2
    <3> QED
      BY <1>1, <3>1, <3>2 DEF SpentMove
  <2>2. CASE InviteMade(i)
    <3>1. spent' = spent /\ invite'[i].prev = loop.prev
      BY <2>2 DEF InviteMade, Mints
    <3> QED
      BY <1>5, <2>2, <3>1 DEF InviteMade, DeadInv
  <2> QED
    BY <1>1, <1>5, <2>1, <2>2 DEF InviteStep
<1>6. ASSUME loop'.at = "mint", acct'[loop'.addr].profile \/ acct'[loop'.addr].auth,
             loop'.prev.link \in spent'
      PROVE  loop'.prev.used
  <2>1. CASE loop' = loop
    <3>1. loop.addr \in Addrs
      BY <1>6, <2>1 DEF TInv, Placed, HandlerPlaced
    <3>2. Exists(loop.addr) /\ \A t \in spent' : t \in spent \/ ~Owned(t, loop.addr)
      BY <1>1, <1>6, <2>1, <3>1, MintHolds
    <3>3. loop.prev.link # 0
      BY <1>3, <1>6, <2>1
    <3>4. Owned(loop.prev.link, loop.addr)
      BY <1>6, <2>1, <3>3 DEF LinkInv
    <3> QED
      BY <1>6, <2>1, <3>2, <3>4 DEF DeadInv
  <2>2. ASSUME NEW a \in Addrs, Reads(a)
        PROVE  loop'.prev.used
    <3>1. spent' = spent
      BY <2>2 DEF Reads
    <3>2. loop'.prev.link # NoLink.link
      BY <1>3, <1>6 DEF NoLink
    <3>3. loop'.prev = [link |-> acct[a].link, used |-> acct[a].used]
      BY <2>2, <3>2 DEF Reads
    <3> QED
      BY <1>6, <3>1, <3>3 DEF DeadInv, SpentLinksStayDead
  <2> QED
    BY <1>1, <1>6, <2>1, <2>2 DEF LoopStep, Submits, Registers, Changes, Proves
<1> QED
  BY <1>4, <1>5, <1>6 DEF DeadInv, SpentLinksStayDead, Exists

\* A used or superseded link never comes back to life: not by the rollback of
\* a failed invitation mail, nor for an account created again at the address.
THEOREM DeadLinksStayDead == Spec => []SpentLinksStayDead
<1>1. Init => TInv /\ LinkInv /\ DeadInv
  BY TypesInit, LinkInit, DeadInit
<1>2. TInv /\ LinkInv /\ DeadInv /\ [Next]_vars => TInv' /\ LinkInv' /\ DeadInv'
  BY TypesNext, LinkNext, DeadNext
<1>3. DeadInv => SpentLinksStayDead
  BY DEF DeadInv
<1> QED
  BY <1>1, <1>2, <1>3, PTL DEF Spec

-----------------------------------------------------------------------------
(* Accounts that sign in with Microsoft only.                               *)

\* A handler about to set a password works on an account that may have one.
SsoInv ==
  /\ loop.at \in {"setpw", "change"} => ~SsoOnly(loop.addr)
  /\ loop.at = "consume" =>
       \A a \in Addrs : acct[a].link = loop.link /\ ~acct[a].used => ~SsoOnly(a)

\* Only a sign-in or a placeholder makes an account one, and only the two
\* handlers above give it a password.
SsoMoves ==
  \A c \in Addrs :
    /\ acct'[c].sso /\ ~acct'[c].pw => SsoOnly(c) \/ Marks(c)
    /\ acct'[c].pw => acct[c].pw \/ Keys(c) \/ Consumes(c)

LEMMA OneSsoMove ==
  ASSUME NEW a \in Addrs, Only(a),
         acct'[a].sso /\ ~acct'[a].pw => SsoOnly(a) \/ Marks(a),
         acct'[a].pw => acct[a].pw \/ Keys(a) \/ Consumes(a)
  PROVE  SsoMoves
  BY DEF SsoMoves, Only, SsoOnly

LEMMA SsoSteps ==
  ASSUME TInv, StoreStep
  PROVE  SsoMoves
<1>1. CASE Rests
  BY <1>1 DEF Rests, SsoMoves, SsoOnly
<1>2. ASSUME NEW a \in Addrs,
             \/ Touches(a) \/ Stamps(a) \/ Mints(a)
             \/ Unlinks(a) \/ Restores(a) \/ Binds(a) \/ Unprofiles(a)
      PROVE  SsoMoves
  <2>1. Only(a) /\ acct'[a].pw = acct[a].pw /\ acct'[a].sso = acct[a].sso
    BY <1>2, Touched, StampedUp, Minted, Unlinked, RestoredUp, BoundUp, Unprofiled
  <2> QED
    BY <2>1, OneSsoMove DEF SsoOnly
<1>3. ASSUME NEW a \in Addrs, Opens(a) \/ Removes(a) \/ Empties(a)
      PROVE  SsoMoves
  <2>1. Only(a) /\ ~acct'[a].pw /\ ~acct'[a].sso
    BY <1>3, Opened, Dropped
  <2> QED
    BY <2>1, OneSsoMove
<1>4. ASSUME NEW a \in Addrs, Keys(a) \/ Consumes(a)
      PROVE  SsoMoves
  <2>1. Only(a) /\ acct'[a].pw
    BY <1>4, KeyedUp, ConsumedUp
  <2> QED
    BY <1>4, <2>1, OneSsoMove
<1>5. ASSUME NEW a \in Addrs, Marks(a)
      PROVE  SsoMoves
  <2>1. Only(a) /\ acct'[a].pw = acct[a].pw
    BY <1>5, MarkedUp
  <2> QED
    BY <1>5, <2>1, OneSsoMove
<1> QED
  BY <1>1, <1>2, <1>3, <1>4, <1>5 DEF StoreStep

LEMMA SsoNext ==
  ASSUME TInv, LinkInv, SsoInv, [Next]_vars
  PROVE  SsoInv'
<1>1. StoreStep /\ SsoMoves /\ LinkMoves /\ LoopStep
  BY StoreSteps, SsoSteps, LinkSteps, LoopSteps
<1>2. 0 \notin DOMAIN minted /\ Len(minted) + 1 \notin DOMAIN minted
  BY NoLinkZero
<1>3. ASSUME loop'.at \in {"setpw", "change"}
      PROVE  ~(acct'[loop'.addr].sso /\ ~acct'[loop'.addr].pw)
  <2>1. CASE loop' = loop
    <3>1. loop.addr \in Addrs /\ ~Marks(loop.addr)
      BY <1>3, <2>1 DEF TInv, Placed, HandlerPlaced, Marks
    <3> QED
      BY <1>1, <1>3, <2>1, <3>1 DEF SsoMoves, SsoInv
  <2>2. ASSUME NEW a \in Addrs, Registers(a)
        PROVE  ~(acct'[loop'.addr].sso /\ ~acct'[loop'.addr].pw)
    BY <2>2, Opened DEF Registers
  <2>3. ASSUME NEW a \in Addrs, Changes(a)
        PROVE  ~(acct'[loop'.addr].sso /\ ~acct'[loop'.addr].pw)
    BY <2>3 DEF Changes, SsoOnly
  <2> QED
    BY <1>1, <1>3, <2>1, <2>2, <2>3 DEF LoopStep, Submits, Reads, Proves
<1>4. ASSUME loop'.at = "consume", NEW c \in Addrs,
             acct'[c].link = loop'.link, ~acct'[c].used
      PROVE  ~(acct'[c].sso /\ ~acct'[c].pw)
  <2>1. CASE loop' = loop
    <3>1. loop # Idle /\ loop.link \in DOMAIN minted /\ ~Marks(c)
      BY <1>4, <2>1, IdleTyped DEF LinkInv, Marks
    <3>2. acct[c].link = loop.link /\ ~acct[c].used
      BY <1>1, <1>2, <1>4, <2>1, <3>1 DEF LinkMoves, LinkMove
    <3>3. ~SsoOnly(c)
      BY <1>4, <2>1, <3>2 DEF SsoInv
    <3> QED
      BY <1>1, <3>1, <3>3 DEF SsoMoves
  <2>2. ASSUME NEW a \in Addrs, Submits(a)
        PROVE  ~(acct'[c].sso /\ ~acct'[c].pw)
    <3>1. acct' = acct /\ acct[c].link = acct[a].link /\ acct[a].link # 0 /\ ~SsoOnly(a)
      BY <1>4, <2>2 DEF Submits
    <3>2. c = a
      BY <3>1 DEF LinkInv, Owned
    <3> QED
      BY <3>1, <3>2 DEF SsoOnly
  <2> QED
    BY <1>1, <1>4, <2>1, <2>2 DEF LoopStep, Registers, Changes, Reads, Proves
<1> QED
  BY <1>3, <1>4 DEF SsoInv, SsoOnly

LEMMA SsoStep ==
  ASSUME TInv, SsoInv, [Next]_vars, NEW a \in Addrs, SsoOnly(a)
  PROVE  ~acct'[a].pw
<1>1. SsoMoves
  BY StoreSteps, SsoSteps
<1>2. ~Keys(a)
  BY DEF Keys, SsoInv
<1>3. ~Consumes(a)
  BY DEF Consumes, SsoInv
<1>4. ~acct[a].pw
  BY DEF SsoOnly
<1> QED
  BY <1>1, <1>2, <1>3, <1>4 DEF SsoMoves

\* No form and no link gives a password to an account that signs in with
\* Microsoft only, whatever overlaps with it.
THEOREM SsoOnlyKeepsNoPassword == Spec => SsoOnlyStaysPasswordless
<1>1. Init => TInv /\ LinkInv /\ SsoInv
  <2>1. Init => SsoInv
    BY IdleTyped DEF Init, SsoInv
  <2> QED
    BY <2>1, TypesInit, LinkInit
<1>2. TInv /\ LinkInv /\ SsoInv /\ [Next]_vars => TInv' /\ LinkInv' /\ SsoInv'
  BY TypesNext, LinkNext, SsoNext
<1>3. TInv /\ SsoInv /\ [Next]_vars => [\A a \in Addrs : SsoOnly(a) => ~acct'[a].pw]_vars
  BY SsoStep
<1> QED
  BY <1>1, <1>2, <1>3, PTL DEF Spec, SsoOnlyStaysPasswordless
-----------------------------------------------------------------------------
(* The sign-in limiter.  First what its operators on sequences do, then what  *)
(* an attempt does to a space of keys, then the invariant.                    *)

(* Sequences.                                                               *)

LEMMA LeastIndex ==
  ASSUME NEW S \in SUBSET Nat, S # {}
  PROVE  First(S) \in S /\ \A m \in S : First(S) <= m
<1> DEFINE R == {ss \in Nat \X Nat : ss[1] < ss[2]}
<1>1. IsWellFoundedOn(R, Nat)
  BY NatLessThanWellFounded DEF OpToRel
<1> HIDE DEF R
<1>2. PICK n \in S : \A m \in S : ~(<<m, n>> \in R)
  BY <1>1, WFMin
<1>3. \A m \in S : ~(m < n)
  BY <1>2 DEF R
<1>4. \A m \in S : n <= m
  BY <1>3
<1> QED
  BY <1>4 DEF First

\* The failures before m have left, those from m + 1 on stay.
LeftBefore(s, at, m) ==
  /\ m \in 0..Len(s)
  /\ \A i \in 1..m : s[i] + Window <= at
  /\ m < Len(s) => s[m + 1] + Window > at

LEMMA SettingsAreNat ==
  /\ {Threshold, ThresholdIp, Steps, Window, Lockout, MaxKeys} \subseteq Nat
  /\ Threshold > 0 /\ ThresholdIp > 0 /\ Steps > 0 /\ Window > 0 /\ Lockout > 0 /\ MaxKeys > 0
  BY SettingsArePositive

LEMMA PrunedIs ==
  ASSUME NEW s \in Seq(Nat), NEW at \in Nat, NEW m, LeftBefore(s, at, m)
  PROVE  Pruned(s, at) = SubSeq(s, m + 1, Len(s))
<1> DEFINE young == {i \in 1..Len(s) : s[i] + Window > at}
<1>1. Len(s) \in Nat /\ m \in Nat /\ m <= Len(s)
  BY DEF LeftBefore
<1>2. CASE m = Len(s)
  <2>1. young = {}
    BY <1>1, <1>2, SettingsAreNat, ElementOfSeq DEF LeftBefore
  <2>2. SubSeq(s, m + 1, Len(s)) = <<>>
    BY <1>1, <1>2, SubSeqEmpty
  <2> QED
    BY <2>1, <2>2 DEF Pruned
<1>3. CASE m < Len(s)
  <2>1. m + 1 \in young
    BY <1>1, <1>3 DEF LeftBefore
  <2>2. \A i \in young : m + 1 <= i
    BY <1>1, SettingsAreNat, ElementOfSeq, SMTT(30) DEF LeftBefore
  <2>3. young \subseteq Nat
    BY <1>1
  <2>4. First(young) \in young /\ First(young) <= m + 1
    BY <2>1, <2>3, LeastIndex
  <2>5. First(young) = m + 1
    BY <1>1, <2>2, <2>3, <2>4
  <2> QED
    BY <2>1, <2>5 DEF Pruned
<1> QED
  BY <1>1, <1>2, <1>3

LEMMA SomeLeft ==
  ASSUME NEW s \in Seq(Nat), NEW at \in Nat
  PROVE  \E m \in Nat : LeftBefore(s, at, m)
<1> DEFINE young == {i \in 1..Len(s) : s[i] + Window > at}
<1>1. Len(s) \in Nat /\ \A i \in 1..Len(s) : s[i] \in Nat
  BY ElementOfSeq
<1>2. CASE young = {}
  <2>1. LeftBefore(s, at, Len(s))
    BY <1>1, <1>2, SettingsAreNat, SMTT(30) DEF LeftBefore
  <2> QED
    BY <1>1, <2>1
<1>3. CASE young # {}
  <2>0. young \in SUBSET Nat
    BY <1>1
  <2>1. PICK n \in young : \A i \in young : n <= i
    BY <1>3, <2>0, LeastIndex
  <2>2. n \in 1..Len(s) /\ s[n] + Window > at
    OBVIOUS
  <2>3. ASSUME NEW i \in 1..(n - 1) PROVE s[i] + Window <= at
    <3>1. i \in 1..Len(s) /\ ~(n <= i)
      BY <1>1, <2>2
    <3>2. ~(s[i] + Window > at)
      BY <2>1, <3>1
    <3> QED
      BY <1>1, <3>1, <3>2, SettingsAreNat, SMTT(30)
  <2>4. LeftBefore(s, at, n - 1)
    BY <1>1, <2>2, <2>3 DEF LeftBefore
  <2> QED
    BY <1>1, <2>2, <2>4
<1> QED
  BY <1>2, <1>3

LEMMA PrunedTyped ==
  ASSUME NEW s \in Seq(Nat), NEW at \in Nat
  PROVE  /\ Pruned(s, at) \in Seq(Nat) /\ Len(Pruned(s, at)) <= Len(s)
         /\ \A i \in 1..Len(Pruned(s, at)) : \E j \in 1..Len(s) : Pruned(s, at)[i] = s[j]
<1>1. PICK m \in Nat : LeftBefore(s, at, m)
  BY SomeLeft
<1>2. Pruned(s, at) = SubSeq(s, m + 1, Len(s))
  BY <1>1, PrunedIs
<1>3. Len(s) \in Nat /\ m <= Len(s)
  BY <1>1 DEF LeftBefore
<1>4. \A i \in (m + 1)..Len(s) : s[i] \in Nat
  BY <1>3, ElementOfSeq
<1>5. /\ Pruned(s, at) \in Seq(Nat)
      /\ Len(Pruned(s, at)) = IF m + 1 <= Len(s) THEN Len(s) - (m + 1) + 1 ELSE 0
      /\ \A i \in 1..(Len(s) - (m + 1) + 1) : Pruned(s, at)[i] = s[(m + 1) + i - 1]
  BY <1>2, <1>3, <1>4, SubSeqProperties
<1>6. Len(Pruned(s, at)) = Len(s) - m
  <2>1. \A n \in Nat : m <= n => (IF m + 1 <= n THEN n - (m + 1) + 1 ELSE 0) = n - m
    OBVIOUS
  <2> QED
    BY <1>3, <1>5, <2>1
<1>7. ASSUME NEW i \in 1..Len(Pruned(s, at))
      PROVE  \E j \in 1..Len(s) : Pruned(s, at)[i] = s[j]
  <2>1. m + i \in 1..Len(s) /\ (m + 1) + i - 1 = m + i
    BY <1>3, <1>6
  <2>2. Pruned(s, at)[i] = s[m + i]
    BY <1>3, <1>5, <1>6, <2>1
  <2> QED
    BY <2>1, <2>2
<1> QED
  BY <1>3, <1>5, <1>6, <1>7

LEMMA PrunedEmpty == ASSUME NEW at \in Nat PROVE Pruned(<<>>, at) = <<>>
  BY DEF Pruned

LEMMA AllOld ==
  ASSUME NEW s \in Seq(Nat), NEW at \in Nat, \A i \in 1..Len(s) : s[i] + Window <= at
  PROVE  Pruned(s, at) = <<>>
  BY SettingsAreNat, ElementOfSeq, SMTT(30) DEF Pruned

\* What one time dropped, a later time drops too.
LEMMA PrunedTwice ==
  ASSUME NEW s \in Seq(Nat), NEW at \in Nat, NEW later \in Nat, at <= later
  PROVE  Pruned(Pruned(s, at), later) = Pruned(s, later)
<1> DEFINE first == Pruned(s, at)
<1>1. PICK m \in Nat : LeftBefore(s, at, m)
  BY SomeLeft
<1>2. /\ Len(s) \in Nat /\ m <= Len(s)
      /\ \A i \in 1..Len(s) : s[i] \in Nat
      /\ \A i \in (m + 1)..Len(s) : s[i] \in Nat
  BY <1>1, ElementOfSeq DEF LeftBefore
<1>3. first = SubSeq(s, m + 1, Len(s))
  BY <1>1, PrunedIs
<1>4. /\ first \in Seq(Nat) /\ Len(first) = Len(s) - m
      /\ \A i \in 1..(Len(s) - m) : first[i] = s[m + i]
  <2>1. /\ first \in Seq(Nat)
        /\ Len(first) = IF m + 1 <= Len(s) THEN Len(s) - (m + 1) + 1 ELSE 0
        /\ \A i \in 1..(Len(s) - (m + 1) + 1) : first[i] = s[(m + 1) + i - 1]
    BY <1>2, <1>3, SubSeqProperties
  <2> HIDE DEF first
  <2>2. \A i \in Nat : (m + 1) + i - 1 = m + i
    OBVIOUS
  <2> QED
    BY <1>2, <2>1, <2>2
<1> HIDE DEF first
<1>5. PICK k \in Nat : LeftBefore(first, later, k)
  BY <1>4, SomeLeft
<1>6. k <= Len(s) - m /\ m + k \in 0..Len(s)
  BY <1>2, <1>4, <1>5 DEF LeftBefore
<1>7. \A i \in 1..(m + k) : s[i] + Window <= later
  <2>1. \A i \in 1..m : s[i] + Window <= later
    BY <1>1, <1>2, SettingsAreNat, SMTT(30) DEF LeftBefore
  <2>2. ASSUME NEW i \in (m + 1)..(m + k) PROVE s[i] + Window <= later
    <3>1. i - m \in 1..k /\ i - m \in 1..(Len(s) - m) /\ m + (i - m) = i
      BY <1>2, <1>6
    <3>2. first[i - m] = s[i] /\ first[i - m] + Window <= later
      BY <1>4, <1>5, <3>1 DEF LeftBefore
    <3> QED
      BY <3>2
  <2> QED
    BY <2>1, <2>2
<1>8. m + k < Len(s) => s[m + k + 1] + Window > later
  <2> HAVE m + k < Len(s)
  <2>1. k < Len(first) /\ k + 1 \in 1..(Len(s) - m) /\ m + (k + 1) = m + k + 1
    BY <1>2, <1>4
  <2>2. first[k + 1] + Window > later
    BY <1>5, <2>1 DEF LeftBefore
  <2>3. first[k + 1] = s[m + k + 1]
    BY <1>4, <2>1, SMTT(30)
  <2> QED
    BY <2>2, <2>3
<1>9. LeftBefore(s, later, m + k)
  BY <1>6, <1>7, <1>8 DEF LeftBefore
<1>10. Pruned(s, later) = SubSeq(s, m + k + 1, Len(s))
  BY <1>9, PrunedIs
<1>11. Pruned(first, later) = SubSeq(first, k + 1, Len(first))
  BY <1>4, <1>5, PrunedIs
<1>12. CASE m + k = Len(s)
  <2>1. SubSeq(s, m + k + 1, Len(s)) = <<>> /\ SubSeq(first, k + 1, Len(first)) = <<>>
    BY <1>2, <1>4, <1>12, SubSeqEmpty
  <2> QED
    BY <1>10, <1>11, <2>1 DEF first
<1>13. CASE m + k < Len(s)
  <2>1. /\ m + 1 \in 1..Len(s) /\ Len(s) \in 1..Len(s)
        /\ k + 1 \in 1..(Len(s) - (m + 1) + 1)
        /\ Len(first) \in 1..(Len(s) - (m + 1) + 1)
    BY <1>2, <1>4, <1>13
  <2>2. SubSeq(SubSeq(s, m + 1, Len(s)), k + 1, Len(first))
          = SubSeq(s, (m + 1) + (k + 1) - 1, (m + 1) + Len(first) - 1)
    BY <2>1, SubSeqOfSubSeq
  <2>3. (m + 1) + (k + 1) - 1 = m + k + 1 /\ (m + 1) + Len(first) - 1 = Len(s)
    BY <1>2, <1>4
  <2> QED
    BY <1>3, <1>10, <1>11, <2>2, <2>3 DEF first
<1> QED
  BY <1>6, <1>12, <1>13

\* A failure of this moment stays.
LEMMA PrunedAppend ==
  ASSUME NEW s \in Seq(Nat), NEW at \in Nat
  PROVE  Pruned(Append(s, at), at) = Append(Pruned(s, at), at)
<1> DEFINE t == Append(s, at)
<1>1. PICK m \in Nat : LeftBefore(s, at, m)
  BY SomeLeft
<1>2. /\ Len(s) \in Nat /\ m <= Len(s)
      /\ \A i \in 1..Len(s) : s[i] \in Nat
      /\ \A i \in (m + 1)..Len(s) : s[i] \in Nat
  BY <1>1, ElementOfSeq DEF LeftBefore
<1>3. /\ t \in Seq(Nat) /\ Len(t) = Len(s) + 1
      /\ \A i \in 1..Len(s) : t[i] = s[i]
      /\ t[Len(s) + 1] = at
  OBVIOUS
<1> HIDE DEF t
<1>4. LeftBefore(t, at, m)
  <2>1. ASSUME NEW i \in 1..m PROVE t[i] + Window <= at
    <3>1. t[i] = s[i]
      BY <1>2, <1>3
    <3> QED
      BY <1>1, <3>1 DEF LeftBefore
  <2>2. t[m + 1] + Window > at
    <3>1. CASE m < Len(s)
      <4>0. m + 1 \in 1..Len(s)
        BY <1>2, <3>1
      <4>1. t[m + 1] = s[m + 1]
        BY <1>3, <4>0
      <4> QED
        BY <1>1, <3>1, <4>1 DEF LeftBefore
    <3>2. CASE m = Len(s)
      BY <1>3, <3>2, SettingsAreNat
    <3> QED
      BY <1>2, <3>1, <3>2
  <2> QED
    BY <1>2, <1>3, <2>1, <2>2 DEF LeftBefore
<1>5. Pruned(t, at) = SubSeq(t, m + 1, Len(t)) /\ Pruned(s, at) = SubSeq(s, m + 1, Len(s))
  BY <1>1, <1>3, <1>4, PrunedIs
<1>6. \A i \in (m + 1)..Len(t) : t[i] \in Nat
  BY <1>2, <1>3
<1>7. /\ SubSeq(t, m + 1, Len(t)) \in Seq(Nat)
      /\ Len(SubSeq(t, m + 1, Len(t))) = Len(s) + 1 - m
      /\ \A i \in 1..(Len(s) + 1 - m) : SubSeq(t, m + 1, Len(t))[i] = t[m + i]
  <2>1. /\ SubSeq(t, m + 1, Len(t)) \in Seq(Nat)
        /\ Len(SubSeq(t, m + 1, Len(t))) = IF m + 1 <= Len(t) THEN Len(t) - (m + 1) + 1 ELSE 0
        /\ \A i \in 1..(Len(t) - (m + 1) + 1) : SubSeq(t, m + 1, Len(t))[i] = t[(m + 1) + i - 1]
    BY <1>2, <1>3, <1>6, SubSeqProperties
  <2>2. \A i \in Nat : (m + 1) + i - 1 = m + i
    OBVIOUS
  <2> QED
    BY <1>2, <1>3, <2>1, <2>2
<1>8. /\ SubSeq(s, m + 1, Len(s)) \in Seq(Nat)
      /\ Len(SubSeq(s, m + 1, Len(s))) = Len(s) - m
      /\ \A i \in 1..(Len(s) - m) : SubSeq(s, m + 1, Len(s))[i] = s[m + i]
  <2>1. /\ SubSeq(s, m + 1, Len(s)) \in Seq(Nat)
        /\ Len(SubSeq(s, m + 1, Len(s))) = IF m + 1 <= Len(s) THEN Len(s) - (m + 1) + 1 ELSE 0
        /\ \A i \in 1..(Len(s) - (m + 1) + 1) : SubSeq(s, m + 1, Len(s))[i] = s[(m + 1) + i - 1]
    BY <1>2, SubSeqProperties
  <2>2. \A i \in Nat : (m + 1) + i - 1 = m + i
    OBVIOUS
  <2> QED
    BY <1>2, <2>1, <2>2
<1> DEFINE u == SubSeq(t, m + 1, Len(t))
           v == SubSeq(s, m + 1, Len(s))
           w == Append(v, at)
<1>9. v \in Seq(Nat) /\ Len(v) = Len(s) - m
  BY <1>8
<1> HIDE DEF u, v
<1>10. /\ w \in Seq(Nat) /\ Len(w) = Len(s) - m + 1
       /\ \A i \in 1..(Len(s) - m) : w[i] = v[i]
       /\ w[Len(s) - m + 1] = at
  BY <1>2, <1>9
<1> HIDE DEF w
<1>11. ASSUME NEW i \in 1..Len(u) PROVE u[i] = w[i]
  <2>1. Len(u) = Len(s) + 1 - m /\ u[i] = t[m + i]
    BY <1>7 DEF u
  <2>2. CASE i <= Len(s) - m
    <3>1. m + i \in 1..Len(s) /\ i \in 1..(Len(s) - m)
      BY <1>2, <2>1, <2>2
    <3> QED
      BY <1>3, <1>8, <1>10, <2>1, <3>1 DEF v
  <2>3. CASE i = Len(s) - m + 1
    <3>1. m + i = Len(s) + 1
      BY <1>2, <2>3
    <3> QED
      BY <1>3, <1>10, <2>1, <2>3, <3>1
  <2>4. i <= Len(s) - m \/ i = Len(s) - m + 1
    <3>1. i \in 1..(Len(s) + 1 - m)
      BY <2>1
    <3> QED
      BY <1>2, <3>1, SMTT(30)
  <2> QED
    BY <2>2, <2>3, <2>4
<1>12. u \in Seq(Nat) /\ Len(u) = Len(w)
  BY <1>2, <1>7, <1>10 DEF u
<1>13. u = w
  BY <1>10, <1>11, <1>12, SeqEqual
<1> QED
  BY <1>5, <1>13 DEF t, u, v, w

LEMMA LastTakenOff ==
  ASSUME NEW s \in Seq(Nat), NEW at \in Nat
  PROVE  SubSeq(Append(s, at), 1, Len(Append(s, at)) - 1) = s
<1> DEFINE t == Append(s, at)
<1>1. /\ Len(s) \in Nat /\ t \in Seq(Nat) /\ Len(t) = Len(s) + 1
      /\ \A i \in 1..Len(s) : t[i] = s[i]
  OBVIOUS
<1> HIDE DEF t
<1>2. Len(t) - 1 = Len(s) /\ \A i \in 1..Len(s) : t[i] \in Nat
  BY <1>1, ElementOfSeq
<1>3. /\ SubSeq(t, 1, Len(s)) \in Seq(Nat)
      /\ Len(SubSeq(t, 1, Len(s))) = IF 1 <= Len(s) THEN Len(s) - 1 + 1 ELSE 0
      /\ \A i \in 1..(Len(s) - 1 + 1) : SubSeq(t, 1, Len(s))[i] = t[1 + i - 1]
  BY <1>1, <1>2, SubSeqProperties
<1>4. /\ Len(SubSeq(t, 1, Len(s))) = Len(s)
      /\ \A i \in 1..Len(s) : SubSeq(t, 1, Len(s))[i] = s[i]
  <2>1. \A i \in Nat : 1 + i - 1 = i
    OBVIOUS
  <2> QED
    BY <1>1, <1>3, <2>1
<1>5. SubSeq(t, 1, Len(s)) = s
  BY <1>3, <1>4, SeqEqual
<1> QED
  BY <1>2, <1>5 DEF t

(* The keys of a space.                                                     *)

NoRepeats(s) == \A i, j \in 1..Len(s) : s[i] = s[j] => i = j

LEMMA RangeIs ==
  ASSUME NEW K, NEW s \in Seq(K)
  PROVE  RangeOf(s) \subseteq K
  BY ElementOfSeq DEF RangeOf

LEMMA WithoutAKey ==
  ASSUME NEW K, NEW s \in Seq(K), NoRepeats(s), NEW k
  PROVE  LET r == Without(s, k) IN
         /\ r \in Seq(K) /\ NoRepeats(r) /\ RangeOf(r) = RangeOf(s) \ {k}
         /\ Len(r) = IF k \in RangeOf(s) THEN Len(s) - 1 ELSE Len(s)
<1>1. CASE k \notin RangeOf(s)
  BY <1>1 DEF Without
<1>2. CASE k \in RangeOf(s)
  <2>1. PICK at \in 1..Len(s) : at = CHOOSE i \in 1..Len(s) : s[i] = k
    BY <1>2 DEF RangeOf
  <2>2. s[at] = k
    BY <1>2, <2>1 DEF RangeOf
  <2>3. Len(s) \in Nat /\ Len(s) - 1 \in Nat /\ \A i \in 1..Len(s) : s[i] \in K
    BY ElementOfSeq, <2>1
  <2> DEFINE r == [i \in 1..(Len(s) - 1) |-> IF i < at THEN s[i] ELSE s[i + 1]]
  <2>4. Without(s, k) = r
    BY <1>2, <2>1 DEF Without
  <2>5. ASSUME NEW i \in 1..(Len(s) - 1)
        PROVE  i \in 1..Len(s) /\ i + 1 \in 1..Len(s) /\ r[i] \in K
    BY <2>3
  <2>6. r \in Seq(K) /\ Len(r) = Len(s) - 1
    BY <2>3, <2>5
  <2>7. \A i \in 1..(Len(s) - 1) : r[i] = IF i < at THEN s[i] ELSE s[i + 1]
    OBVIOUS
  <2> HIDE DEF r
  <2>8. NoRepeats(r)
    <3> SUFFICES ASSUME NEW i \in 1..(Len(s) - 1), NEW j \in 1..(Len(s) - 1), r[i] = r[j]
                 PROVE  i = j
      BY <2>6 DEF NoRepeats
    <3>1. PICK m \in 1..Len(s) : m = (IF i < at THEN i ELSE i + 1) /\ r[i] = s[m]
      BY <2>5, <2>7
    <3>2. PICK n \in 1..Len(s) : n = (IF j < at THEN j ELSE j + 1) /\ r[j] = s[n]
      BY <2>5, <2>7
    <3>3. m = n
      BY <3>1, <3>2 DEF NoRepeats
    <3> QED
      BY <3>1, <3>2, <3>3
  <2>9. RangeOf(r) = RangeOf(s) \ {k}
    <3>1. ASSUME NEW i \in 1..(Len(s) - 1) PROVE r[i] \in RangeOf(s) \ {k}
      <4>1. PICK m \in 1..Len(s) : m = (IF i < at THEN i ELSE i + 1) /\ r[i] = s[m]
        BY <2>5, <2>7
      <4>2. m # at
        BY <4>1
      <4>3. s[m] # k
        BY <2>2, <4>2 DEF NoRepeats
      <4> QED
        BY <4>1, <4>3 DEF RangeOf
    <3>2. ASSUME NEW x \in RangeOf(s) \ {k} PROVE x \in RangeOf(r)
      <4>1. PICK m \in 1..Len(s) : x = s[m]
        BY DEF RangeOf
      <4>2. m # at
        BY <2>2, <4>1
      <4>3. CASE m < at
        <5>1. m \in 1..(Len(s) - 1) /\ r[m] = s[m]
          BY <2>3, <2>7, <4>3
        <5> QED
          BY <2>6, <4>1, <5>1 DEF RangeOf
      <4>4. CASE m > at
        <5>1. m - 1 \in 1..(Len(s) - 1) /\ ~(m - 1 < at) /\ (m - 1) + 1 = m
          BY <2>3, <4>4
        <5>2. r[m - 1] = s[m]
          BY <2>7, <5>1
        <5> QED
          BY <2>6, <4>1, <5>1, <5>2 DEF RangeOf
      <4> QED
        BY <4>2, <4>3, <4>4
    <3> QED
      BY <2>6, <3>1, <3>2 DEF RangeOf
  <2> QED
    BY <1>2, <2>4, <2>6, <2>8, <2>9
<1> QED
  BY <1>1, <1>2

LEMMA WithAKey ==
  ASSUME NEW K, NEW s \in Seq(K), NoRepeats(s), NEW k \in K, k \notin RangeOf(s)
  PROVE  LET r == Append(s, k) IN
         /\ r \in Seq(K) /\ NoRepeats(r) /\ RangeOf(r) = RangeOf(s) \cup {k}
         /\ Len(r) = Len(s) + 1
<1> DEFINE r == Append(s, k)
<1>1. /\ Len(s) \in Nat /\ r \in Seq(K) /\ Len(r) = Len(s) + 1
      /\ \A i \in 1..Len(s) : r[i] = s[i]
      /\ r[Len(s) + 1] = k
  OBVIOUS
<1>2. \A i \in 1..Len(s) : s[i] # k
  BY DEF RangeOf
<1> HIDE DEF r
<1>3. \A i \in 1..Len(r) : i \in 1..Len(s) \/ i = Len(s) + 1
  BY <1>1
<1>4. 1..Len(s) \subseteq 1..Len(r) /\ Len(s) + 1 \in 1..Len(r)
  BY <1>1
<1>5. NoRepeats(r)
  BY <1>1, <1>2, <1>3 DEF NoRepeats
<1>6. RangeOf(r) = RangeOf(s) \cup {k}
  BY <1>1, <1>3, <1>4 DEF RangeOf
<1> QED
  BY <1>1, <1>5, <1>6 DEF r

IsEntry(e) ==
  /\ DOMAIN e = {"failures", "notBefore", "lockedUntil"}
  /\ e.failures \in Seq(Nat) /\ e.lockedUntil \in Nat

\* Every key is there once, there is room for it, and a key that is not there
\* has nothing recorded.
IsSpace(space, K) ==
  /\ DOMAIN space = {"order", "of"} /\ DOMAIN space.of = K
  /\ space.order \in Seq(K) /\ NoRepeats(space.order) /\ Len(space.order) <= MaxKeys
  /\ \A k \in K : IsEntry(space.of[k])
  /\ \A k \in K : k \notin RangeOf(space.order) => space.of[k] = Entry

LEMMA EntryIsOne == IsEntry(Entry) /\ Entry.failures = <<>> /\ Entry.notBefore = 0 /\ Entry.lockedUntil = 0
  BY EmptySeq DEF IsEntry, Entry

LEMMA DropKeeps ==
  ASSUME NEW K, NEW space, IsSpace(space, K), NEW k \in K
  PROVE  LET s == Drop(space, k) IN
         /\ IsSpace(s, K) /\ RangeOf(s.order) = RangeOf(space.order) \ {k}
         /\ s.of[k] = Entry /\ \A x \in K \ {k} : s.of[x] = space.of[x]
<1> DEFINE s == Drop(space, k)
           order == Without(space.order, k)
<1>1. /\ DOMAIN s = {"order", "of"} /\ s.order = order
      /\ s.of = [space.of EXCEPT ![k] = Entry]
  BY DEF Drop
<1>2. /\ DOMAIN s.of = K /\ s.of[k] = Entry /\ \A x \in K \ {k} : s.of[x] = space.of[x]
  BY <1>1 DEF IsSpace
<1>3. /\ order \in Seq(K) /\ NoRepeats(order) /\ RangeOf(order) = RangeOf(space.order) \ {k}
      /\ Len(order) <= MaxKeys
  <2>1. Len(space.order) \in Nat /\ MaxKeys \in Nat /\ Len(space.order) <= MaxKeys
    BY SettingsAreNat DEF IsSpace
  <2> QED
    BY <2>1, WithoutAKey DEF IsSpace
<1> HIDE DEF s, order
<1>4. \A x \in K : IsEntry(s.of[x])
  BY <1>2, EntryIsOne DEF IsSpace
<1>5. \A x \in K : x \notin RangeOf(s.order) => s.of[x] = Entry
  BY <1>1, <1>2, <1>3 DEF IsSpace
<1> QED
  BY <1>1, <1>2, <1>3, <1>4, <1>5 DEF IsSpace, s

LEMMA LookupKeeps ==
  ASSUME now \in Nat, NEW K, NEW space, IsSpace(space, K), NEW k \in K
  PROVE  LET s == Lookup(space, k) IN
         /\ IsSpace(s, K) /\ RangeOf(s.order) = RangeOf(space.order)
         /\ \A x \in K \ {k} : s.of[x] = space.of[x]
         /\ s.of[k].failures = Recent(space.of[k].failures)
         /\ s.of[k].notBefore = space.of[k].notBefore
         /\ s.of[k].lockedUntil = space.of[k].lockedUntil
<1>1. CASE ~Has(space, k)
  <2>1. Lookup(space, k) = space
    BY <1>1 DEF Lookup
  <2>2. space.of[k].failures = <<>>
    BY <1>1, EntryIsOne DEF IsSpace, Has
  <2>3. Recent(space.of[k].failures) = space.of[k].failures
    BY <2>2, PrunedEmpty DEF Recent
  <2> QED
    BY <2>1, <2>3
<1>2. CASE Has(space, k)
  <2> DEFINE s == Lookup(space, k)
             rest == Without(space.order, k)
             e == space.of[k]
             f == [e EXCEPT !.failures = Recent(e.failures)]
  <2>1. /\ DOMAIN s = {"order", "of"} /\ s.order = Append(rest, k)
        /\ s.of = [space.of EXCEPT ![k] = f]
    BY <1>2 DEF Lookup
  <2>2. /\ rest \in Seq(K) /\ NoRepeats(rest) /\ RangeOf(rest) = RangeOf(space.order) \ {k}
        /\ Len(rest) = Len(space.order) - 1
    BY <1>2, WithoutAKey DEF IsSpace, Has
  <2> HIDE DEF rest
  <2>3. /\ s.order \in Seq(K) /\ NoRepeats(s.order) /\ RangeOf(s.order) = RangeOf(rest) \cup {k}
        /\ Len(s.order) = Len(rest) + 1
    BY <2>1, <2>2, WithAKey
  <2>4. RangeOf(s.order) = RangeOf(space.order)
    BY <1>2, <2>2, <2>3 DEF Has
  <2>5. Len(s.order) <= MaxKeys
    <3>1. Len(space.order) \in Nat
      BY DEF IsSpace
    <3> QED
      BY <2>2, <2>3, <3>1 DEF IsSpace
  <2>6. /\ IsEntry(f) /\ f.failures = Recent(e.failures) /\ f.notBefore = e.notBefore
        /\ f.lockedUntil = e.lockedUntil
    <3>1. IsEntry(e)
      BY DEF IsSpace
    <3> HIDE DEF e
    <3>2. Recent(e.failures) \in Seq(Nat)
      BY <3>1, PrunedTyped DEF IsEntry, Recent
    <3> QED
      BY <3>1, <3>2 DEF IsEntry
  <2> HIDE DEF f
  <2>7. DOMAIN s.of = K /\ s.of[k] = f /\ \A x \in K \ {k} : s.of[x] = space.of[x]
    BY <2>1 DEF IsSpace
  <2> HIDE DEF s
  <2>8. \A x \in K : IsEntry(s.of[x])
    BY <2>6, <2>7 DEF IsSpace
  <2>9. \A x \in K : x \notin RangeOf(s.order) => s.of[x] = Entry
    BY <1>2, <2>4, <2>7 DEF IsSpace, Has
  <2>10. IsSpace(s, K)
    BY <2>1, <2>3, <2>5, <2>7, <2>8, <2>9 DEF IsSpace
  <2> QED
    BY <2>4, <2>6, <2>7, <2>10 DEF s
<1> QED
  BY <1>1, <1>2

\* A victim is another key; it has a live wait only when every other key has.
LEMMA VictimIs ==
  ASSUME NEW K, NEW space, space.order \in Seq(K), NoRepeats(space.order), NEW keep,
         keep \in RangeOf(space.order), Len(space.order) > 1
  PROVE  LET v == Victim(space, keep) IN
         /\ v \in RangeOf(space.order) \ {keep}
         /\ Live(space.of[v]) => \A x \in RangeOf(space.order) \ {keep} : Live(space.of[x])
<1> DEFINE others == Without(space.order, keep)
           idle == {i \in 1..Len(others) : ~Live(space.of[others[i]])}
<1>1. /\ others \in Seq(K) /\ RangeOf(others) = RangeOf(space.order) \ {keep}
      /\ Len(others) = Len(space.order) - 1
  BY WithoutAKey
<1>2. Victim(space, keep) = others[IF idle = {} THEN 1 ELSE First(idle)]
  BY DEF Victim
<1> HIDE DEF others
<1>3. Len(others) \in Nat /\ 1 \in 1..Len(others)
  BY <1>1
<1>4. CASE idle = {}
  <2>1. \A i \in 1..Len(others) : Live(space.of[others[i]])
    BY <1>4
  <2>2. \A x \in RangeOf(others) : Live(space.of[x])
    BY <2>1 DEF RangeOf
  <2>3. others[1] \in RangeOf(others)
    BY <1>3 DEF RangeOf
  <2> QED
    BY <1>1, <1>2, <1>4, <2>2, <2>3
<1>5. CASE idle # {}
  <2>1. idle \in SUBSET Nat
    BY <1>3
  <2>2. First(idle) \in idle
    BY <1>5, <2>1, LeastIndex
  <2>3. others[First(idle)] \in RangeOf(others) /\ ~Live(space.of[others[First(idle)]])
    BY <2>2 DEF RangeOf
  <2> QED
    BY <1>1, <1>2, <1>5, <2>3
<1> QED
  BY <1>4, <1>5

\* What a key costs: nothing, when it is there or there is room, else one other
\* key, and that one has a live wait only when all have.
Made(space, s, K, k) ==
  \/ /\ RangeOf(s.order) = RangeOf(space.order) \cup {k}
     /\ \A x \in K : s.of[x] = space.of[x]
  \/ \E v \in RangeOf(space.order) \ {k} :
       /\ k \notin RangeOf(space.order)
       /\ RangeOf(s.order) = (RangeOf(space.order) \cup {k}) \ {v}
       /\ s.of[v] = Entry /\ \A x \in K \ {v} : s.of[x] = space.of[x]
       /\ Live(space.of[v]) => \A x \in RangeOf(space.order) : Live(space.of[x])

LEMMA CreateKeeps ==
  ASSUME now \in Nat, NEW K, NEW space, IsSpace(space, K), NEW k \in K
  PROVE  LET s == Create(space, k) IN
         IsSpace(s, K) /\ k \in RangeOf(s.order) /\ s.of[k] = space.of[k] /\ Made(space, s, K, k)
<1> DEFINE rest == Without(space.order, k)
           grown == [space EXCEPT !.order = Append(rest, k)]
<1>1. /\ DOMAIN grown = {"order", "of"} /\ grown.order = Append(rest, k) /\ grown.of = space.of
  BY DEF IsSpace
<1>2. Create(space, k) = IF Len(grown.order) > MaxKeys THEN Drop(grown, Victim(grown, k)) ELSE grown
  BY DEF Create
<1>3. /\ rest \in Seq(K) /\ NoRepeats(rest) /\ RangeOf(rest) = RangeOf(space.order) \ {k}
      /\ Len(rest) = IF k \in RangeOf(space.order) THEN Len(space.order) - 1 ELSE Len(space.order)
  BY WithoutAKey DEF IsSpace
<1> HIDE DEF grown, rest
<1>4. /\ grown.order \in Seq(K) /\ NoRepeats(grown.order)
      /\ RangeOf(grown.order) = RangeOf(space.order) \cup {k}
      /\ Len(grown.order) = Len(rest) + 1
  BY <1>1, <1>3, WithAKey
<1>5. Len(space.order) \in Nat /\ Len(space.order) <= MaxKeys /\ MaxKeys \in Nat /\ MaxKeys > 0
  BY SettingsAreNat DEF IsSpace
<1>6. /\ DOMAIN grown.of = K /\ \A x \in K : IsEntry(grown.of[x])
      /\ \A x \in K : x \notin RangeOf(grown.order) => grown.of[x] = Entry
  BY <1>1, <1>4 DEF IsSpace
<1>7. CASE Len(grown.order) <= MaxKeys
  <2>1. Create(space, k) = grown
    BY <1>2, <1>3, <1>4, <1>5, <1>7
  <2>2. IsSpace(grown, K)
    BY <1>1, <1>4, <1>6, <1>7 DEF IsSpace
  <2> QED
    BY <1>1, <1>4, <2>1, <2>2 DEF Made
<1>8. CASE Len(grown.order) > MaxKeys
  <2>1. /\ k \notin RangeOf(space.order) /\ Len(grown.order) = MaxKeys + 1 /\ Len(grown.order) > 1
    BY <1>3, <1>4, <1>5, <1>8
  <2> DEFINE v == Victim(grown, k)
             s == Drop(grown, v)
  <2>2. /\ v \in RangeOf(grown.order) \ {k}
        /\ Live(grown.of[v]) => \A x \in RangeOf(grown.order) \ {k} : Live(grown.of[x])
    BY <1>4, <2>1, VictimIs
  <2>3. Create(space, k) = s
    BY <1>2, <1>8
  <2>4. v \in RangeOf(space.order) \ {k} /\ v \in K
    BY <1>4, <2>2, RangeIs
  <2> HIDE DEF v
  <2>5. /\ DOMAIN s = {"order", "of"} /\ s.order = Without(grown.order, v)
        /\ s.of = [grown.of EXCEPT ![v] = Entry]
    BY DEF Drop
  <2>6. /\ s.order \in Seq(K) /\ NoRepeats(s.order)
        /\ RangeOf(s.order) = RangeOf(grown.order) \ {v}
        /\ Len(s.order) = Len(grown.order) - 1
    BY <1>4, <2>2, <2>5, WithoutAKey
  <2>7. DOMAIN s.of = K /\ s.of[v] = Entry /\ \A x \in K \ {v} : s.of[x] = grown.of[x]
    BY <1>6, <2>4, <2>5
  <2> HIDE DEF s
  <2>8. \A x \in K : IsEntry(s.of[x])
    BY <1>6, <2>7, EntryIsOne
  <2>9. \A x \in K : x \notin RangeOf(s.order) => s.of[x] = Entry
    BY <1>6, <2>6, <2>7
  <2>10. Len(s.order) <= MaxKeys
    BY <1>5, <2>1, <2>6
  <2>11. IsSpace(s, K)
    BY <2>5, <2>6, <2>7, <2>8, <2>9, <2>10 DEF IsSpace
  <2>12. k \in RangeOf(s.order) /\ s.of[k] = space.of[k]
    BY <1>1, <1>4, <2>4, <2>6, <2>7
  <2>13. \A x \in RangeOf(space.order) : x \in RangeOf(grown.order) \ {k}
    BY <1>4, <2>1
  <2>14. Made(space, s, K, k)
    BY <1>1, <1>4, <2>1, <2>2, <2>4, <2>6, <2>7, <2>13 DEF Made
  <2> QED
    BY <2>3, <2>11, <2>12, <2>14
<1> QED
  BY <1>3, <1>4, <1>5, <1>7, <1>8

\* What an attempt on k does to the other keys: one of them may go, a live one
\* only when all are live.
Counted(space, s, K, k) ==
  \A x \in K \ {k} :
    \/ s.of[x] = space.of[x] /\ (x \in RangeOf(space.order) => x \in RangeOf(s.order))
    \/ /\ x \in RangeOf(space.order) /\ x \notin RangeOf(s.order) /\ s.of[x] = Entry
       /\ Live(space.of[x]) => \A y \in RangeOf(space.order) : Live(space.of[y])

LEMMA KeyMade ==
  ASSUME now \in Nat, NEW K, NEW space, IsSpace(space, K), NEW k \in K
  PROVE  LET s == Create(Lookup(space, k), k) IN
         /\ IsSpace(s, K) /\ k \in RangeOf(s.order) /\ Counted(space, s, K, k)
         /\ s.of[k].failures = Pruned(space.of[k].failures, now)
         /\ s.of[k].notBefore = space.of[k].notBefore
         /\ s.of[k].lockedUntil = space.of[k].lockedUntil
<1> DEFINE m == Lookup(space, k)
           s == Create(m, k)
<1>1. /\ IsSpace(m, K) /\ RangeOf(m.order) = RangeOf(space.order)
      /\ \A x \in K \ {k} : m.of[x] = space.of[x]
      /\ m.of[k].failures = Pruned(space.of[k].failures, now)
      /\ m.of[k].notBefore = space.of[k].notBefore
      /\ m.of[k].lockedUntil = space.of[k].lockedUntil
  BY LookupKeeps DEF Recent
<1> HIDE DEF m
<1>2. IsSpace(s, K) /\ k \in RangeOf(s.order) /\ s.of[k] = m.of[k] /\ Made(m, s, K, k)
  BY <1>1, CreateKeeps
<1> HIDE DEF s
<1>3. RangeOf(m.order) \subseteq K
  BY <1>1, RangeIs DEF IsSpace
<1>4. \A x \in K : Live(m.of[x]) <=> Live(space.of[x])
  BY <1>1 DEF Live
<1>5. Counted(space, s, K, k)
  <2>1. CASE /\ RangeOf(s.order) = RangeOf(m.order) \cup {k}
             /\ \A x \in K : s.of[x] = m.of[x]
    BY <1>1, <2>1 DEF Counted
  <2>2. ASSUME NEW v \in RangeOf(m.order) \ {k},
               RangeOf(s.order) = (RangeOf(m.order) \cup {k}) \ {v},
               s.of[v] = Entry, \A x \in K \ {v} : s.of[x] = m.of[x],
               Live(m.of[v]) => \A x \in RangeOf(m.order) : Live(m.of[x])
        PROVE  Counted(space, s, K, k)
    <3>1. Live(space.of[v]) => \A y \in RangeOf(space.order) : Live(space.of[y])
      BY <1>1, <1>3, <1>4, <2>2
    <3> QED
      BY <1>1, <2>2, <3>1 DEF Counted
  <2> QED
    BY <1>2, <2>1, <2>2 DEF Made
<1> QED
  BY <1>1, <1>2, <1>5 DEF s, m

LEMMA EntryWritten ==
  ASSUME NEW K, NEW s, IsSpace(s, K), NEW k \in RangeOf(s.order), NEW e, IsEntry(e)
  PROVE  LET t == [s EXCEPT !.of[k] = e] IN
         /\ IsSpace(t, K) /\ t.order = s.order
         /\ t.of[k] = e /\ \A x \in K \ {k} : t.of[x] = s.of[x]
<1> DEFINE t == [s EXCEPT !.of[k] = e]
<1>1. k \in K
  BY RangeIs DEF IsSpace
<1>2. /\ DOMAIN t = {"order", "of"} /\ t.order = s.order /\ DOMAIN t.of = K
      /\ t.of[k] = e /\ \A x \in K \ {k} : t.of[x] = s.of[x]
  BY <1>1 DEF IsSpace
<1> HIDE DEF t
<1>3. IsSpace(t, K)
  BY <1>2 DEF IsSpace
<1> QED
  BY <1>2, <1>3 DEF t

LEMMA AddrPunished ==
  ASSUME now \in Nat, NEW e, IsEntry(e), NEW lockable \in BOOLEAN
  PROVE  LET r == PunishAddr(e, lockable)
             n == Len(e.failures) + 1 IN
         /\ IsEntry(r) /\ r.failures = Append(e.failures, now)
         /\ n < Threshold => r.notBefore = e.notBefore /\ r.lockedUntil = e.lockedUntil
         /\ lockable /\ n >= Threshold + Steps => r.lockedUntil = now + Lockout
<1>1. Len(e.failures) \in Nat /\ e.lockedUntil \in Nat /\ e.failures \in Seq(Nat)
  BY DEF IsEntry
<1> DEFINE failures == Append(e.failures, now)
           n == Len(failures)
           until == IF lockable /\ n >= Threshold + Steps THEN now + Lockout ELSE e.lockedUntil
           wait == CASE n < Threshold -> e.notBefore
                     [] n >= Threshold /\ n < Threshold + Steps -> now + 2^(n - Threshold)
                     [] OTHER -> IF lockable THEN e.notBefore ELSE now + 2^(Steps - 1)
           r == PunishAddr(e, lockable)
<1>2. failures \in Seq(Nat) /\ n = Len(e.failures) + 1
  BY <1>1
<1>r. r = [failures |-> failures, lockedUntil |-> until, notBefore |-> wait]
  BY DEF PunishAddr
<1>w. n < Threshold => wait = e.notBefore
  <2> HIDE DEF n
  <2> QED
    BY <1>2, <1>1, SettingsAreNat
<1> HIDE DEF wait, r
<1>3. /\ DOMAIN r = {"failures", "notBefore", "lockedUntil"}
      /\ r.failures = failures /\ r.lockedUntil = until /\ r.notBefore = wait
  BY <1>r
<1> HIDE DEF n, failures
<1>4. until \in Nat
  BY <1>1, SettingsAreNat
<1>5. IsEntry(r)
  BY <1>2, <1>3, <1>4 DEF IsEntry
<1> QED
  BY <1>1, <1>2, <1>3, <1>5, <1>w, SettingsAreNat DEF r, failures

LEMMA PeerPunished ==
  ASSUME now \in Nat, NEW e, IsEntry(e)
  PROVE  /\ IsEntry(PunishPeer(e)) /\ PunishPeer(e).failures = Append(e.failures, now)
         /\ IsEntry(Forgive(PunishPeer(e))) /\ Forgive(PunishPeer(e)).failures = e.failures
<1>1. e.failures \in Seq(Nat) /\ Append(e.failures, now) \in Seq(Nat)
  BY DEF IsEntry
<1> DEFINE r == PunishPeer(e)
<1>2. IsEntry(r) /\ r.failures = Append(e.failures, now)
  BY <1>1 DEF PunishPeer, IsEntry
<1> HIDE DEF r
<1>3. SubSeq(r.failures, 1, Len(r.failures) - 1) = e.failures
  BY <1>1, <1>2, LastTakenOff
<1>4. IsEntry(Forgive(r)) /\ Forgive(r).failures = e.failures
  BY <1>1, <1>2, <1>3 DEF Forgive, IsEntry
<1> QED
  BY <1>2, <1>4 DEF r

LEMMA AddrCounted ==
  ASSUME now \in Nat, IsSpace(addr, Emails), NEW a \in Emails, NEW right \in BOOLEAN
  PROVE  LET s == CountAddr(a, right)
             old == addr.of[a]
             f == Pruned(old.failures, now) IN
         /\ IsSpace(s, Emails) /\ Counted(addr, s, Emails, a)
         /\ right => s.of[a] = Entry
         /\ ~right => /\ a \in RangeOf(s.order) /\ s.of[a].failures = Append(f, now)
                      /\ Len(f) + 1 < Threshold =>
                           s.of[a].notBefore = old.notBefore /\ s.of[a].lockedUntil = old.lockedUntil
                      /\ a \notin Spaced /\ Len(f) + 1 >= Threshold + Steps =>
                           s.of[a].lockedUntil = now + Lockout
<1> DEFINE m == Create(Lookup(addr, a), a)
           e == m.of[a]
           f == Pruned(addr.of[a].failures, now)
           r == PunishAddr(e, a \notin Spaced)
           t == [m EXCEPT !.of[a] = r]
<1>1. /\ IsSpace(m, Emails) /\ a \in RangeOf(m.order) /\ Counted(addr, m, Emails, a)
      /\ e.failures = f /\ e.notBefore = addr.of[a].notBefore
      /\ e.lockedUntil = addr.of[a].lockedUntil
  BY KeyMade
<1>2. CountAddr(a, right) = IF right THEN Drop(t, a) ELSE t
  BY DEF CountAddr
<1> HIDE DEF m, f
<1>3. IsEntry(e)
  BY <1>1 DEF IsSpace
<1>4. /\ IsEntry(r) /\ r.failures = Append(f, now)
      /\ Len(f) + 1 < Threshold => r.notBefore = e.notBefore /\ r.lockedUntil = e.lockedUntil
      /\ a \notin Spaced /\ Len(f) + 1 >= Threshold + Steps => r.lockedUntil = now + Lockout
  <2> HIDE DEF e
  <2>1. (a \notin Spaced) \in BOOLEAN
    OBVIOUS
  <2> QED
    BY <1>1, <1>3, <2>1, AddrPunished
<1> HIDE DEF r
<1>5. /\ IsSpace(t, Emails) /\ t.order = m.order
      /\ t.of[a] = r /\ \A x \in Emails \ {a} : t.of[x] = m.of[x]
  BY <1>1, <1>4, EntryWritten
<1> HIDE DEF t
<1>6. Counted(addr, t, Emails, a)
  BY <1>1, <1>5 DEF Counted
<1>7. CASE right
  <2>1. /\ IsSpace(Drop(t, a), Emails) /\ RangeOf(Drop(t, a).order) = RangeOf(t.order) \ {a}
        /\ Drop(t, a).of[a] = Entry /\ \A x \in Emails \ {a} : Drop(t, a).of[x] = t.of[x]
    <3>1. IsSpace(t, Emails)
      BY <1>5
    <3> HIDE DEF e
    <3> QED
      BY <3>1, DropKeeps, SMTT(30)
  <2>2. Counted(addr, Drop(t, a), Emails, a)
    BY <1>6, <2>1 DEF Counted
  <2> QED
    BY <1>2, <1>7, <2>1, <2>2
<1>8. CASE ~right
  BY <1>1, <1>2, <1>4, <1>5, <1>6, <1>8 DEF f
<1> QED
  BY <1>7, <1>8

LEMMA PeerCounted ==
  ASSUME now \in Nat, IsSpace(peer, Peers), NEW p \in Peers, NEW right \in BOOLEAN
  PROVE  LET s == CountPeer(p, right)
             f == Pruned(peer.of[p].failures, now) IN
         /\ IsSpace(s, Peers) /\ Counted(peer, s, Peers, p)
         /\ s.of[p].failures = IF right THEN f ELSE Append(f, now)
<1> DEFINE m == Create(Lookup(peer, p), p)
           e == m.of[p]
           f == Pruned(peer.of[p].failures, now)
           r == PunishPeer(e)
           t == [m EXCEPT !.of[p] = r]
           g == Forgive(r)
           u == [t EXCEPT !.of[p] = g]
<1>1. /\ IsSpace(m, Peers) /\ p \in RangeOf(m.order) /\ Counted(peer, m, Peers, p)
      /\ e.failures = f
  BY KeyMade
<1> HIDE DEF m, f
<1>2. IsEntry(e)
  BY <1>1 DEF IsSpace
<1>3. IsEntry(r) /\ r.failures = Append(f, now) /\ IsEntry(g) /\ g.failures = f
  BY <1>1, <1>2, PeerPunished
<1>4. DOMAIN t.of = Peers /\ t.of[p] = r
  <2> HIDE DEF r
  <2> QED
    BY <1>1, <1>3, EntryWritten DEF IsSpace
<1>5. CountPeer(p, right) = IF right THEN u ELSE t
  BY <1>4 DEF CountPeer, m
<1> HIDE DEF r, g
<1>6. /\ IsSpace(t, Peers) /\ t.order = m.order
      /\ t.of[p] = r /\ \A x \in Peers \ {p} : t.of[x] = m.of[x]
  <2>1. IsSpace(m, Peers) /\ p \in RangeOf(m.order) /\ IsEntry(r)
    BY <1>1, <1>3
  <2> QED
    BY <2>1, EntryWritten
<1> HIDE DEF t
<1>7. /\ IsSpace(u, Peers) /\ u.order = t.order
      /\ u.of[p] = g /\ \A x \in Peers \ {p} : u.of[x] = t.of[x]
  <2>1. IsSpace(t, Peers) /\ p \in RangeOf(t.order) /\ IsEntry(g)
    BY <1>1, <1>3, <1>6
  <2> QED
    BY <2>1, EntryWritten
<1> HIDE DEF u
<1>8. Counted(peer, t, Peers, p) /\ Counted(peer, u, Peers, p)
  BY <1>1, <1>6, <1>7 DEF Counted
<1> QED
  BY <1>3, <1>5, <1>6, <1>7, <1>8 DEF f

\* The history of the other keys follows them.
LEMMA OthersRecorded ==
  ASSUME NEW K, NEW history, DOMAIN history = K, NEW space, NEW s, NEW k \in K,
         Counted(space, s, K, k), NEW right \in BOOLEAN
  PROVE  LET h == Recorded(history, space, s, k, right) IN
         /\ DOMAIN h = K
         /\ h[k] = IF right THEN history[k] ELSE Append(history[k], now)
         /\ \A x \in K \ {k} :
              \/ s.of[x] = space.of[x] /\ h[x] = history[x]
              \/ s.of[x] = Entry /\ h[x] = <<>>
         /\ h = [x \in K |-> h[x]]
  BY DEF Recorded, Counted, Has

(* The invariant of the limiter.                                            *)

AddrTypes == IsSpace(addr, Emails) /\ wrong \in [Emails -> Seq(Nat)]
PeerTypes == IsSpace(peer, Peers) /\ missed \in [Peers -> Seq(Nat)]

\* What the limiter counts is what happened in the window.
AddrCounts == \A a \in Emails : Pruned(addr.of[a].failures, now) = Pruned(wrong[a], now)
PeerCounts == \A p \in Peers : Pruned(peer.of[p].failures, now) = missed[p]

\* Nothing is counted that did not happen, and a wait is earned.
Earned(e, guesses) ==
  /\ Len(e.failures) <= Len(guesses)
  /\ e.notBefore # 0 \/ e.lockedUntil # 0 => Len(guesses) >= Threshold

EarnedInv == \A a \in Emails : Earned(addr.of[a], wrong[a])

\* A full count is locked until its last failure has left the window.
Bounded(e, at) ==
  /\ Len(e.failures) <= Threshold + Steps
  /\ \A i \in 1..Len(e.failures) : e.failures[i] <= at
  /\ Len(e.failures) = Threshold + Steps =>
       \A i \in 1..Len(e.failures) : e.failures[i] + Window <= e.lockedUntil

FullInv == \A a \in Emails \ Spaced : Bounded(addr.of[a], now)

AddrInv == AddrTypes /\ AddrCounts /\ EarnedInv /\ (Lockout >= Window => FullInv)
PeerInv == PeerTypes /\ PeerCounts
LimiterInv == now \in Nat /\ AddrInv /\ PeerInv

LEMMA EmptyIsSpace ==
  ASSUME NEW K
  PROVE  IsSpace(Empty(K), K) /\ \A k \in K : Empty(K).of[k] = Entry
<1> DEFINE s == Empty(K)
<1>1. /\ DOMAIN s = {"order", "of"} /\ s.order = <<>> /\ DOMAIN s.of = K
      /\ \A k \in K : s.of[k] = Entry
  BY DEF Empty
<1>2. <<>> \in Seq(K) /\ Len(<<>>) = 0
  BY EmptySeq
<1>3. NoRepeats(<<>>)
  BY <1>2 DEF NoRepeats
<1> HIDE DEF s
<1> QED
  BY <1>1, <1>2, <1>3, EntryIsOne, SettingsAreNat DEF IsSpace, s

LEMMA EntryIsClear == Earned(Entry, <<>>) /\ \A at \in Nat : Bounded(Entry, at)
<1>1. Len(<<>>) = 0 /\ Entry.failures = <<>> /\ Entry.notBefore = 0 /\ Entry.lockedUntil = 0
  BY EntryIsOne, EmptySeq
<1>2. Earned(Entry, <<>>)
  <2>1. Len(Entry.failures) <= Len(<<>>)
    BY <1>1
  <2> QED
    BY <1>1, <2>1 DEF Earned
<1>3. ASSUME NEW at \in Nat PROVE Bounded(Entry, at)
  <2>1. Len(Entry.failures) = 0 /\ 0 <= Threshold + Steps /\ 0 # Threshold + Steps /\ 1..0 = {}
    BY <1>1, SettingsAreNat
  <2> QED
    BY <2>1 DEF Bounded
<1> QED
  BY <1>2, <1>3

LEMMA LimiterStarts == LimiterInit => LimiterInv
<1> SUFFICES ASSUME LimiterInit PROVE LimiterInv
  OBVIOUS
<1>1. /\ now = 0 /\ wrong = [a \in Emails |-> <<>>] /\ missed = [p \in Peers |-> <<>>]
      /\ IsSpace(addr, Emails) /\ \A a \in Emails : addr.of[a] = Entry
      /\ IsSpace(peer, Peers) /\ \A p \in Peers : peer.of[p] = Entry
  BY EmptyIsSpace DEF LimiterInit
<1>2. <<>> \in Seq(Nat) /\ Pruned(<<>>, 0) = <<>>
  BY PrunedEmpty, EmptySeq
<1>3. AddrTypes /\ PeerTypes
  BY <1>1, <1>2 DEF AddrTypes, PeerTypes
<1>4. AddrCounts /\ PeerCounts
  BY <1>1, <1>2, EntryIsOne DEF AddrCounts, PeerCounts
<1>5. EarnedInv /\ FullInv
  BY <1>1, EntryIsClear DEF EarnedInv, FullInv
<1> QED
  BY <1>1, <1>3, <1>4, <1>5 DEF LimiterInv, AddrInv, PeerInv

\* A key that is not under a wait has room for one more failure: its count is
\* short of a lockout, or all of it has left the window.
LEMMA RoomForOne ==
  ASSUME now \in Nat, AddrTypes, FullInv, NEW a \in Emails \ Spaced, ~Live(addr.of[a])
  PROVE  LET f == Pruned(addr.of[a].failures, now) IN
         /\ f \in Seq(Nat) /\ Len(f) + 1 <= Threshold + Steps
         /\ \A i \in 1..Len(f) : f[i] <= now
<1> DEFINE g == addr.of[a].failures
           f == Pruned(g, now)
           until == addr.of[a].lockedUntil
<1>1. now \in Nat /\ g \in Seq(Nat) /\ until \in Nat
  BY DEF AddrTypes, IsSpace, IsEntry
<1>2. /\ Len(g) <= Threshold + Steps
      /\ \A i \in 1..Len(g) : g[i] <= now
      /\ Len(g) = Threshold + Steps => \A i \in 1..Len(g) : g[i] + Window <= until
  BY DEF FullInv, Bounded
<1>3. until <= now
  BY <1>1 DEF Live
<1> HIDE DEF g, until
<1>4. /\ f \in Seq(Nat) /\ Len(f) <= Len(g)
      /\ \A i \in 1..Len(f) : \E j \in 1..Len(g) : f[i] = g[j]
  BY <1>1, PrunedTyped
<1>5. Len(g) \in Nat /\ Len(f) \in Nat /\ \A i \in 1..Len(g) : g[i] \in Nat
  BY <1>1, <1>4, ElementOfSeq
<1>6. CASE Len(g) = Threshold + Steps
  <2>1. \A i \in 1..Len(g) : g[i] + Window <= now
    BY <1>1, <1>2, <1>3, <1>5, <1>6, SettingsAreNat
  <2>2. f = <<>>
    BY <1>1, <2>1, AllOld
  <2>3. Len(f) = 0
    BY <2>2, EmptySeq
  <2> HIDE DEF f
  <2> QED
    BY <1>4, <2>3, SettingsAreNat DEF f, g
<1>7. CASE Len(g) < Threshold + Steps
  <2>1. Len(f) + 1 <= Threshold + Steps
    BY <1>4, <1>5, <1>7, SettingsAreNat
  <2> QED
    BY <1>2, <1>4, <2>1 DEF g
<1> QED
  BY <1>2, <1>5, <1>6, <1>7, SettingsAreNat

LEMMA Appended ==
  ASSUME NEW s \in Seq(Nat), NEW at \in Nat
  PROVE  /\ Append(s, at) \in Seq(Nat) /\ Len(Append(s, at)) = Len(s) + 1
         /\ \A i \in 1..Len(Append(s, at)) : Append(s, at)[i] = at \/ \E j \in 1..Len(s) : Append(s, at)[i] = s[j]
<1> DEFINE r == Append(s, at)
<1>1. /\ r \in Seq(Nat) /\ Len(r) = Len(s) + 1 /\ Len(s) \in Nat
      /\ \A i \in 1..Len(s) : r[i] = s[i]
      /\ r[Len(s) + 1] = at
  OBVIOUS
<1> HIDE DEF r
<1>2. \A i \in 1..Len(r) : i \in 1..Len(s) \/ i = Len(s) + 1
  BY <1>1
<1> QED
  BY <1>1, <1>2 DEF r

LEMMA AllowedIsQuiet ==
  ASSUME now \in Nat, NEW K, NEW space, IsSpace(space, K), NEW k \in K,
         Has(space, k) => ~Live(space.of[k])
  PROVE  ~Live(space.of[k])
<1>1. CASE ~Has(space, k)
  <2>1. space.of[k] = Entry
    BY <1>1 DEF IsSpace, Has
  <2> QED
    BY <2>1, EntryIsOne DEF Live
<1> QED
  BY <1>1

\* An attempt that is counted on its address.
AddrMoves(a, right) ==
  /\ AddrAllowed(a) /\ addr' = CountAddr(a, right) /\ now' = now
  /\ wrong' = IF right THEN [Recorded(wrong, addr, addr', a, TRUE) EXCEPT ![a] = <<>>]
              ELSE Recorded(wrong, addr, addr', a, FALSE)

LEMMA AddrAttempt ==
  ASSUME now \in Nat, AddrInv, NEW a \in Emails, NEW right \in BOOLEAN,
         AddrMoves(a, right)
  PROVE  AddrInv'
<1> DEFINE old == addr.of[a]
           f == Pruned(old.failures, now)
           h == Recorded(wrong, addr, addr', a, right)
<1>1. /\ AddrTypes /\ AddrCounts /\ EarnedInv /\ (Lockout >= Window => FullInv)
      /\ IsSpace(addr, Emails) /\ wrong \in [Emails -> Seq(Nat)]
  BY DEF AddrInv, AddrTypes
<1>2. ~Live(old)
  BY <1>1, AllowedIsQuiet DEF AddrMoves, AddrAllowed
<1>3. /\ IsSpace(addr', Emails) /\ Counted(addr, addr', Emails, a)
      /\ right => addr'.of[a] = Entry
      /\ ~right => /\ a \in RangeOf(addr'.order) /\ addr'.of[a].failures = Append(f, now)
                   /\ Len(f) + 1 < Threshold =>
                        addr'.of[a].notBefore = old.notBefore /\ addr'.of[a].lockedUntil = old.lockedUntil
                   /\ a \notin Spaced /\ Len(f) + 1 >= Threshold + Steps =>
                        addr'.of[a].lockedUntil = now + Lockout
  BY <1>1, AddrCounted DEF AddrMoves
<1>4. DOMAIN wrong = Emails /\ \A x \in Emails : wrong[x] \in Seq(Nat)
  BY <1>1
<1>5. /\ DOMAIN h = Emails /\ h[a] = IF right THEN wrong[a] ELSE Append(wrong[a], now)
      /\ \A x \in Emails \ {a} : \/ addr'.of[x] = addr.of[x] /\ h[x] = wrong[x]
                                 \/ addr'.of[x] = Entry /\ h[x] = <<>>
      /\ h = [x \in Emails |-> h[x]]
  BY <1>3, <1>4, OthersRecorded
<1>6. /\ wrong'[a] = IF right THEN <<>> ELSE Append(wrong[a], now)
      /\ \A x \in Emails \ {a} : wrong'[x] = h[x]
      /\ wrong' = [x \in Emails |-> wrong'[x]] /\ now' = now
  BY <1>5 DEF AddrMoves
<1> HIDE DEF h
<1>7. \A x \in Emails \ {a} : \/ addr'.of[x] = addr.of[x] /\ wrong'[x] = wrong[x]
                              \/ addr'.of[x] = Entry /\ wrong'[x] = <<>>
  BY <1>5, <1>6
<1>8. old.failures \in Seq(Nat) /\ f \in Seq(Nat) /\ Len(f) <= Len(old.failures)
  BY <1>1, PrunedTyped DEF IsSpace, IsEntry
<1>9. /\ <<>> \in Seq(Nat) /\ Len(<<>>) = 0 /\ Pruned(<<>>, now) = <<>>
      /\ Entry.failures = <<>> /\ Entry.notBefore = 0 /\ Entry.lockedUntil = 0
  BY EmptySeq, PrunedEmpty, EntryIsOne
<1> HIDE DEF f, old
<1>10. /\ Append(f, now) \in Seq(Nat) /\ Len(Append(f, now)) = Len(f) + 1
       /\ \A i \in 1..Len(Append(f, now)) :
            Append(f, now)[i] = now \/ \E j \in 1..Len(f) : Append(f, now)[i] = f[j]
  BY <1>8, Appended
<1>11. Append(wrong[a], now) \in Seq(Nat) /\ Len(Append(wrong[a], now)) = Len(wrong[a]) + 1
  BY <1>4, Appended
<1>12. AddrTypes'
  <2>1. \A x \in Emails : wrong'[x] \in Seq(Nat)
    BY <1>4, <1>6, <1>7, <1>9, <1>11
  <2> QED
    BY <1>3, <1>6, <2>1 DEF AddrTypes
<1>13. AddrCounts'
  <2>1. \A x \in Emails \ {a} : Pruned(addr'.of[x].failures, now) = Pruned(wrong'[x], now)
    BY <1>1, <1>7, <1>9 DEF AddrCounts
  <2>2. Pruned(addr'.of[a].failures, now) = Pruned(wrong'[a], now)
    <3>1. CASE right
      BY <1>3, <1>6, <1>9, <3>1
    <3>2. CASE ~right
      <4>1. Pruned(f, now) = f
        BY <1>8, PrunedTwice DEF f
      <4>2. f = Pruned(wrong[a], now)
        BY <1>1 DEF AddrCounts, f, old
      <4>3. Pruned(Append(f, now), now) = Append(Pruned(f, now), now)
        BY <1>8, PrunedAppend
      <4>4. Pruned(Append(wrong[a], now), now) = Append(Pruned(wrong[a], now), now)
        BY <1>4, PrunedAppend
      <4> QED
        BY <1>3, <1>6, <3>2, <4>1, <4>2, <4>3, <4>4
    <3> QED
      BY <3>1, <3>2
  <2> QED
    BY <1>6, <2>1, <2>2 DEF AddrCounts
<1>14. EarnedInv'
  <2>1. ASSUME NEW x \in Emails \ {a} PROVE Earned(addr'.of[x], wrong'[x])
    BY <1>1, <1>7, EntryIsClear DEF EarnedInv
  <2>2. Earned(addr'.of[a], wrong'[a])
    <3>1. CASE right
      BY <1>3, <1>6, <3>1, EntryIsClear
    <3>2. CASE ~right
      <4>1. Len(f) \in Nat /\ Len(old.failures) \in Nat /\ Len(wrong[a]) \in Nat
        BY <1>4, <1>8
      <4>2. /\ Len(old.failures) <= Len(wrong[a])
            /\ old.notBefore # 0 \/ old.lockedUntil # 0 => Len(wrong[a]) >= Threshold
        BY <1>1 DEF EarnedInv, Earned, old
      <4>3. Len(addr'.of[a].failures) = Len(f) + 1 /\ Len(wrong'[a]) = Len(wrong[a]) + 1
        BY <1>3, <1>6, <1>10, <1>11, <3>2
      <4>4. CASE Len(f) + 1 < Threshold
        <5>1. addr'.of[a].notBefore = old.notBefore /\ addr'.of[a].lockedUntil = old.lockedUntil
          BY <1>3, <3>2, <4>4
        <5>2. Len(addr'.of[a].failures) <= Len(wrong'[a])
          BY <1>8, <4>1, <4>2, <4>3
        <5>3. Len(wrong[a]) >= Threshold => Len(wrong'[a]) >= Threshold
          BY <4>1, <4>3, SettingsAreNat
        <5> QED
          BY <4>2, <5>1, <5>2, <5>3 DEF Earned
      <4>5. CASE Len(f) + 1 >= Threshold
        <5>1. Len(addr'.of[a].failures) <= Len(wrong'[a])
          BY <1>8, <4>1, <4>2, <4>3
        <5>2. Len(f) <= Len(old.failures)
          BY <1>8
        <5>3. Len(wrong'[a]) >= Threshold
          <6>1. Threshold \in Nat
            BY SettingsAreNat
          <6>2. Len(f) + 1 <= Len(wrong[a]) + 1
            BY <4>1, <4>2, <5>2
          <6> QED
            BY <4>1, <4>3, <4>5, <6>1, <6>2
        <5> QED
          BY <5>1, <5>3 DEF Earned
      <4> QED
        BY <4>1, <4>4, <4>5, SettingsAreNat
    <3> QED
      BY <3>1, <3>2
  <2> QED
    BY <2>1, <2>2 DEF EarnedInv
<1>15. ASSUME Lockout >= Window PROVE FullInv'
  <2>1. ASSUME NEW x \in Emails \ Spaced, x # a PROVE Bounded(addr'.of[x], now)
    BY <1>1, <1>7, <1>15, <2>1, EntryIsClear DEF FullInv
  <2>2. ASSUME a \notin Spaced PROVE Bounded(addr'.of[a], now)
    <3>1. CASE right
      BY <1>3, <3>1, EntryIsClear
    <3>2. CASE ~right
      <4>1. Len(f) + 1 <= Threshold + Steps /\ \A i \in 1..Len(f) : f[i] <= now
        BY <1>1, <1>2, <1>15, <2>2, RoomForOne DEF f, old
      <4> DEFINE g == addr'.of[a].failures
      <4>2. g = Append(f, now)
        BY <1>3, <3>2
      <4>3. Len(g) = Len(f) + 1 /\ \A i \in 1..Len(g) : g[i] <= now /\ g[i] \in Nat
        <5>1. \A i \in 1..Len(g) : g[i] \in Nat
          BY <1>10, <4>2, ElementOfSeq
        <5> HIDE DEF g
        <5>2. \A i \in 1..Len(g) : g[i] = now \/ \E j \in 1..Len(f) : g[i] = f[j]
          BY <1>10, <4>2
        <5>3. now <= now
          OBVIOUS
        <5> QED
          BY <1>10, <4>1, <4>2, <5>1, <5>2, <5>3
      <4> HIDE DEF g
      <4>4. Len(g) = Threshold + Steps => addr'.of[a].lockedUntil = now + Lockout
        BY <1>3, <2>2, <3>2, <4>3, SettingsAreNat
      <4>5. Len(g) = Threshold + Steps =>
              \A i \in 1..Len(g) : g[i] + Window <= addr'.of[a].lockedUntil
        BY <1>15, <4>3, <4>4, SettingsAreNat
      <4> QED
        BY <4>1, <4>3, <4>5 DEF g, Bounded
    <3> QED
      BY <3>1, <3>2
  <2> QED
    BY <1>6, <2>1, <2>2 DEF FullInv
<1> QED
  BY <1>12, <1>13, <1>14, <1>15 DEF AddrInv

\* A refused attempt only drops failures that left the window.
LEMMA AddrRefused ==
  ASSUME now \in Nat, AddrInv, NEW a \in Emails, addr' = Lookup(addr, a),
         UNCHANGED <<now, wrong>>
  PROVE  AddrInv'
<1> DEFINE old == addr.of[a]
           f == Pruned(old.failures, now)
<1>1. /\ AddrTypes /\ AddrCounts /\ EarnedInv /\ (Lockout >= Window => FullInv)
      /\ IsSpace(addr, Emails) /\ wrong \in [Emails -> Seq(Nat)]
  BY DEF AddrInv, AddrTypes
<1>2. /\ IsSpace(addr', Emails) /\ \A x \in Emails \ {a} : addr'.of[x] = addr.of[x]
      /\ addr'.of[a].failures = f /\ addr'.of[a].notBefore = old.notBefore
      /\ addr'.of[a].lockedUntil = old.lockedUntil
  BY <1>1, LookupKeeps DEF Recent
<1>3. old.failures \in Seq(Nat)
  BY <1>1 DEF IsSpace, IsEntry
<1> HIDE DEF old
<1>4. /\ f \in Seq(Nat) /\ Len(f) <= Len(old.failures)
      /\ \A i \in 1..Len(f) : \E j \in 1..Len(old.failures) : f[i] = old.failures[j]
  BY <1>3, PrunedTyped
<1>5. Len(f) \in Nat /\ Len(old.failures) \in Nat
  BY <1>3, <1>4
<1>6. AddrCounts'
  <2>1. Pruned(f, now) = f
    BY <1>3, PrunedTwice
  <2>2. f = Pruned(wrong[a], now)
    BY <1>1 DEF AddrCounts, old
  <2> HIDE DEF f
  <2> QED
    BY <1>1, <1>2, <2>1, <2>2 DEF AddrCounts
<1>7. EarnedInv'
  <2>1. Earned(old, wrong[a]) /\ Len(wrong[a]) \in Nat
    BY <1>1 DEF EarnedInv, old
  <2> HIDE DEF f
  <2>2. Len(f) <= Len(wrong[a])
    BY <1>4, <1>5, <2>1 DEF Earned
  <2>3. Earned(addr'.of[a], wrong[a])
    BY <1>2, <2>1, <2>2 DEF Earned
  <2> QED
    BY <1>1, <1>2, <2>3 DEF EarnedInv
<1>8. ASSUME Lockout >= Window PROVE FullInv'
  <2>1. ASSUME a \notin Spaced PROVE Bounded(addr'.of[a], now)
    <3>1. Bounded(old, now)
      BY <1>1, <1>8, <2>1 DEF FullInv, old
    <3> HIDE DEF f
    <3>2. Len(f) <= Threshold + Steps
      BY <1>4, <1>5, <3>1, SettingsAreNat DEF Bounded
    <3>3. \A i \in 1..Len(f) : f[i] <= now
      BY <1>4, <3>1 DEF Bounded
    <3>4. Len(f) = Threshold + Steps => Len(old.failures) = Threshold + Steps
      BY <1>4, <1>5, <3>1, SettingsAreNat DEF Bounded
    <3>5. Len(f) = Threshold + Steps => \A i \in 1..Len(f) : f[i] + Window <= old.lockedUntil
      BY <1>4, <3>1, <3>4 DEF Bounded
    <3> QED
      BY <1>2, <3>2, <3>3, <3>5 DEF Bounded
  <2> QED
    BY <1>1, <1>2, <1>8, <2>1 DEF FullInv
<1>9. AddrTypes'
  BY <1>1, <1>2 DEF AddrTypes
<1> QED
  BY <1>6, <1>7, <1>8, <1>9 DEF AddrInv

\* An attempt that is counted on its peer.
PeerMoves(p, right) ==
  /\ peer' = CountPeer(p, right) /\ now' = now
  /\ missed' = Recorded(missed, peer, peer', p, right)

LEMMA PeerAttempt ==
  ASSUME now \in Nat, PeerInv, NEW p \in Peers, NEW right \in BOOLEAN, PeerMoves(p, right)
  PROVE  PeerInv'
<1> DEFINE f == Pruned(peer.of[p].failures, now)
<1>1. /\ IsSpace(peer, Peers) /\ missed \in [Peers -> Seq(Nat)] /\ PeerCounts
      /\ DOMAIN missed = Peers /\ \A q \in Peers : missed[q] \in Seq(Nat)
  BY DEF PeerInv, PeerTypes
<1>2. /\ IsSpace(peer', Peers) /\ Counted(peer, peer', Peers, p)
      /\ peer'.of[p].failures = IF right THEN f ELSE Append(f, now)
  BY <1>1, PeerCounted DEF PeerMoves
<1>3. /\ missed'[p] = IF right THEN missed[p] ELSE Append(missed[p], now)
      /\ \A q \in Peers \ {p} : \/ peer'.of[q] = peer.of[q] /\ missed'[q] = missed[q]
                                \/ peer'.of[q] = Entry /\ missed'[q] = <<>>
      /\ missed' = [q \in Peers |-> missed'[q]] /\ now' = now
  BY <1>1, <1>2, OthersRecorded DEF PeerMoves
<1>4. peer.of[p].failures \in Seq(Nat) /\ f \in Seq(Nat) /\ Pruned(f, now) = f
  <2>1. peer.of[p].failures \in Seq(Nat)
    BY <1>1 DEF IsSpace, IsEntry
  <2>2. now <= now
    OBVIOUS
  <2> QED
    BY <2>1, <2>2, PrunedTyped, PrunedTwice
<1>5. f = missed[p]
  BY <1>1 DEF PeerCounts
<1>6. <<>> \in Seq(Nat) /\ Pruned(<<>>, now) = <<>> /\ Entry.failures = <<>>
  BY EmptySeq, PrunedEmpty, EntryIsOne
<1> HIDE DEF f
<1>7. Append(f, now) \in Seq(Nat) /\ Pruned(Append(f, now), now) = Append(f, now)
  BY <1>4, Appended, PrunedAppend
<1>8. PeerTypes'
  <2>1. \A q \in Peers : missed'[q] \in Seq(Nat)
    BY <1>1, <1>3, <1>5, <1>6, <1>7
  <2> QED
    BY <1>2, <1>3, <2>1 DEF PeerTypes
<1>9. PeerCounts'
  <2>1. Pruned(peer'.of[p].failures, now) = missed'[p]
    BY <1>2, <1>3, <1>4, <1>5, <1>7
  <2>2. \A q \in Peers \ {p} : Pruned(peer'.of[q].failures, now) = missed'[q]
    BY <1>1, <1>3, <1>6 DEF PeerCounts
  <2> QED
    BY <1>3, <2>1, <2>2 DEF PeerCounts
<1> QED
  BY <1>8, <1>9 DEF PeerInv

LEMMA PeerRefused ==
  ASSUME now \in Nat, PeerInv, NEW p \in Peers, peer' = Lookup(peer, p),
         UNCHANGED <<now, missed>>
  PROVE  PeerInv'
<1>1. IsSpace(peer, Peers) /\ missed \in [Peers -> Seq(Nat)] /\ PeerCounts
  BY DEF PeerInv, PeerTypes
<1>2. /\ IsSpace(peer', Peers) /\ \A q \in Peers \ {p} : peer'.of[q] = peer.of[q]
      /\ peer'.of[p].failures = Pruned(peer.of[p].failures, now)
  BY <1>1, LookupKeeps DEF Recent
<1>3. peer.of[p].failures \in Seq(Nat)
  BY <1>1 DEF IsSpace, IsEntry
<1>4. Pruned(Pruned(peer.of[p].failures, now), now) = Pruned(peer.of[p].failures, now)
  BY <1>3, PrunedTwice
<1> QED
  BY <1>1, <1>2, <1>4 DEF PeerInv, PeerTypes, PeerCounts

\* The window moves on.
LEMMA TimePasses == ASSUME LimiterInv, Tick PROVE LimiterInv'
<1> DEFINE next == now + 1
<1>1. /\ now \in Nat /\ next \in Nat /\ now <= next /\ now' = next
      /\ UNCHANGED <<addr, peer, wrong>>
      /\ missed' = [p \in Peers |-> Pruned(missed[p], next)]
  BY DEF LimiterInv, Tick
<1> HIDE DEF next
<1>2. /\ AddrTypes /\ AddrCounts /\ EarnedInv /\ (Lockout >= Window => FullInv)
      /\ PeerTypes /\ PeerCounts
  BY DEF LimiterInv, AddrInv, PeerInv
<1>3. ASSUME NEW s \in Seq(Nat) PROVE Pruned(s, next) = Pruned(Pruned(s, now), next)
  BY <1>1, PrunedTwice
<1>4. AddrCounts'
  <2>1. ASSUME NEW a \in Emails
        PROVE  Pruned(addr.of[a].failures, next) = Pruned(wrong[a], next)
    <3>1. addr.of[a].failures \in Seq(Nat) /\ wrong[a] \in Seq(Nat)
      BY <1>2 DEF AddrTypes, IsSpace, IsEntry
    <3> QED
      BY <1>2, <1>3, <3>1 DEF AddrCounts
  <2> QED
    BY <1>1, <2>1 DEF AddrCounts
<1>5. PeerCounts' /\ PeerTypes'
  <2>1. ASSUME NEW p \in Peers
        PROVE  Pruned(peer.of[p].failures, next) = missed'[p] /\ missed'[p] \in Seq(Nat)
    <3>1. peer.of[p].failures \in Seq(Nat) /\ missed[p] \in Seq(Nat)
      BY <1>2 DEF PeerTypes, IsSpace, IsEntry
    <3>2. missed'[p] = Pruned(missed[p], next)
      BY <1>1
    <3> QED
      BY <1>1, <1>2, <1>3, <3>1, <3>2, PrunedTyped DEF PeerCounts
  <2>2. missed' \in [Peers -> Seq(Nat)]
    BY <1>1, <2>1
  <2> QED
    BY <1>1, <1>2, <2>1, <2>2 DEF PeerCounts, PeerTypes
<1>6. ASSUME Lockout >= Window PROVE FullInv'
  <2>1. ASSUME NEW a \in Emails \ Spaced PROVE Bounded(addr.of[a], next)
    <3>1. Bounded(addr.of[a], now)
      BY <1>2, <1>6 DEF FullInv
    <3>2. \A i \in 1..Len(addr.of[a].failures) : addr.of[a].failures[i] \in Nat
      BY <1>2, ElementOfSeq DEF AddrTypes, IsSpace, IsEntry
    <3> QED
      BY <1>1, <3>1, <3>2 DEF Bounded
  <2> QED
    BY <1>1, <2>1 DEF FullInv
<1>7. AddrTypes' /\ EarnedInv'
  BY <1>1, <1>2 DEF AddrTypes, EarnedInv
<1> QED
  BY <1>1, <1>4, <1>5, <1>6, <1>7 DEF LimiterInv, AddrInv, PeerInv

LEMMA AddrRests == ASSUME AddrInv, UNCHANGED <<now, addr, wrong>> PROVE AddrInv'
  BY DEF AddrInv, AddrTypes, AddrCounts, EarnedInv, FullInv

LEMMA PeerRests == ASSUME PeerInv, UNCHANGED <<now, peer, missed>> PROVE PeerInv'
  BY DEF PeerInv, PeerTypes, PeerCounts

LEMMA LimiterStep == LimiterInv /\ [LimiterNext]_limiterVars => LimiterInv'
<1> SUFFICES ASSUME LimiterInv, [LimiterNext]_limiterVars PROVE LimiterInv'
  OBVIOUS
<1>0. now \in Nat /\ AddrInv /\ PeerInv
  BY DEF LimiterInv
<1>1. ASSUME NEW p \in Peers, NEW right \in BOOLEAN, TokenAttempt(p, right) PROVE LimiterInv'
  <2>1. PeerMoves(p, right) /\ UNCHANGED <<now, addr, wrong>>
    BY <1>1 DEF TokenAttempt, PeerMoves
  <2> QED
    BY <1>0, <2>1, PeerAttempt, AddrRests DEF LimiterInv
<1>2. ASSUME NEW a \in Emails, NEW p \in Peers, NEW right \in BOOLEAN, Attempt(a, p, right)
      PROVE  LimiterInv'
  <2>1. PeerMoves(p, right) /\ AddrMoves(a, right) /\ now' = now
    BY <1>2 DEF Attempt, PeerMoves, AddrMoves
  <2> QED
    BY <1>0, <2>1, PeerAttempt, AddrAttempt DEF LimiterInv
<1>3. ASSUME NEW a \in Emails, NEW p \in Peers, Refused(a, p) PROVE LimiterInv'
  <2>1. /\ addr' = Lookup(addr, a) /\ peer' = Lookup(peer, p)
        /\ UNCHANGED <<now, wrong>> /\ UNCHANGED <<now, missed>>
    BY <1>3 DEF Refused
  <2>2. AddrInv' /\ PeerInv'
    BY <1>0, <2>1, AddrRefused, PeerRefused
  <2> QED
    BY <1>0, <2>1, <2>2 DEF LimiterInv
<1>4. CASE Tick
  BY <1>4, TimePasses
<1>5. CASE UNCHANGED limiterVars
  <2>1. UNCHANGED <<now, addr, wrong>> /\ UNCHANGED <<now, peer, missed>>
    BY <1>5 DEF limiterVars
  <2> QED
    BY <1>0, <2>1, AddrRests, PeerRests DEF LimiterInv
<1> QED
  BY <1>1, <1>2, <1>3, <1>4, <1>5 DEF LimiterNext

LEMMA LimiterHolds == LimiterSpec => []LimiterInv
  BY LimiterStarts, LimiterStep, PTL DEF LimiterSpec

(* Guesses at one address: with a lockout at least as long as the window, at  *)
(* most Threshold + Steps of them are evaluated in any window, whatever the   *)
(* addresses, peers, settings and room for keys.                              *)
THEOREM GuessingIsBounded == LimiterSpec => []GuessesAreBounded
<1>1. LimiterInv => GuessesAreBounded
  <2> SUFFICES ASSUME LimiterInv, Lockout >= Window, NEW a \in Emails \ Spaced
               PROVE  Len(Recent(wrong[a])) <= Threshold + Steps
    BY DEF GuessesAreBounded
  <2> DEFINE g == addr.of[a].failures
  <2>1. /\ now \in Nat /\ g \in Seq(Nat) /\ Bounded(addr.of[a], now)
        /\ Pruned(g, now) = Pruned(wrong[a], now)
    BY DEF LimiterInv, AddrInv, AddrTypes, AddrCounts, FullInv, IsSpace, IsEntry
  <2>2. Len(Pruned(g, now)) <= Len(g) /\ Len(Pruned(g, now)) \in Nat /\ Len(g) \in Nat
    BY <2>1, PrunedTyped
  <2>3. Len(g) <= Threshold + Steps
    BY <2>1 DEF Bounded
  <2> HIDE DEF g
  <2> QED
    BY <2>1, <2>2, <2>3, SettingsAreNat DEF Recent
<1> QED
  BY <1>1, LimiterHolds, PTL

(* The shared peer: its count is its wrong guesses of the window, whoever     *)
(* signed in behind it.                                                       *)
THEOREM PeerIsCounted == LimiterSpec => []PeerCountIsExact
<1>1. LimiterInv => PeerCountIsExact
  BY DEF LimiterInv, PeerInv, PeerCounts, PeerCountIsExact, Recent
<1> QED
  BY <1>1, LimiterHolds, PTL

(* A spray of fresh addresses does not erase a lockout: a locked key is       *)
(* evicted only when every other key has earned a wait by wrong guesses.      *)
THEOREM LockedKeysGoLast == LimiterSpec => LockoutOutlivesSpray
<1>1. LimiterInv /\ [LimiterNext]_limiterVars => [LockedGoLast]_limiterVars
  <2> SUFFICES ASSUME LimiterInv, LimiterNext PROVE LockedGoLast
    OBVIOUS
  <2>0. /\ now \in Nat /\ AddrInv /\ EarnedInv /\ IsSpace(addr, Emails)
        /\ RangeOf(addr.order) \subseteq Emails
    BY RangeIs DEF LimiterInv, AddrInv, AddrTypes, IsSpace
  <2>1. CASE RangeOf(addr'.order) = RangeOf(addr.order)
    BY <2>1 DEF LockedGoLast
  <2>2. ASSUME NEW k \in Emails, NEW right \in BOOLEAN, AddrAllowed(k), addr' = CountAddr(k, right)
        PROVE  LockedGoLast
    <3> SUFFICES ASSUME NEW a \in RangeOf(addr.order) \ RangeOf(addr'.order),
                        addr.of[a].lockedUntil > now,
                        NEW b \in RangeOf(addr.order) \ {a}
                 PROVE  Len(wrong[b]) >= Threshold
      BY DEF LockedGoLast
    <3>1. Live(addr.of[a])
      BY DEF Live
    <3>2. Counted(addr, addr', Emails, k) /\ (~right => k \in RangeOf(addr'.order))
      BY <2>0, <2>2, AddrCounted
    <3>3. a # k
      BY <2>2, <3>1 DEF AddrAllowed, Has
    <3>4. Live(addr.of[b])
      BY <2>0, <3>1, <3>2, <3>3 DEF Counted
    <3>5. addr.of[b].notBefore # 0 \/ addr.of[b].lockedUntil # 0
      BY <2>0, <3>4 DEF Live
    <3> QED
      BY <2>0, <3>5 DEF EarnedInv, Earned
  <2>3. ASSUME NEW a \in Emails, NEW p \in Peers, Refused(a, p) PROVE LockedGoLast
    BY <2>0, <2>1, <2>3, LookupKeeps DEF Refused
  <2>4. ASSUME NEW a \in Emails, NEW p \in Peers, NEW right \in BOOLEAN, Attempt(a, p, right)
        PROVE  LockedGoLast
    BY <2>2, <2>4 DEF Attempt
  <2>5. ASSUME NEW p \in Peers, NEW right \in BOOLEAN, TokenAttempt(p, right) PROVE LockedGoLast
    BY <2>1, <2>5 DEF TokenAttempt
  <2>6. CASE Tick
    BY <2>1, <2>6 DEF Tick
  <2> QED
    BY <2>3, <2>4, <2>5, <2>6 DEF LimiterNext
<1> QED
  BY <1>1, LimiterHolds, PTL DEF LimiterSpec, LockoutOutlivesSpray
=============================================================================
