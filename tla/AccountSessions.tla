-------------------------- MODULE AccountSessions --------------------------
(***************************************************************************)
(* Accounts, the session generation every signed cookie carries, reset and *)
(* invitation links, and the binding of Microsoft identities               *)
(* (local_store.AuthStore, routes/auth.py, routes/sso.py,                  *)
(* routes/admin_users.py, the session gate of app.py).                     *)
(*                                                                         *)
(* One process serves every request on one event loop.  A handler that     *)
(* does not await runs to its end before the next one starts: `loop' holds *)
(* it between two of its steps.  Beside it run threads, and so between any *)
(* two steps: the removal of an account, the end of its sessions, and the  *)
(* background worker that mails reset links.  A handler that awaits its    *)
(* body or a mail gives the loop away: `pending' and `invite' hold it.     *)
(* Every step is one section under the store's lock.                       *)
(***************************************************************************)
EXTENDS Integers, Sequences, FiniteSets

CONSTANTS
  Addrs, Ids, Browsers, Admins,
  Approved,      \* addresses whose domain may register without an invitation
  Mailed,        \* addresses that are invited, shared with, or ask for a link
  None,
  MaxGen,        \* bound on the generations issued
  MaxLink,       \* bound on the links minted
  MaxFaults      \* bound on the restarts, and on writes that fail half way

ASSUME ApprovedAreAddrs == Approved \subseteq Addrs /\ Mailed \subseteq Addrs
ASSUME BoundsAreNat == {MaxGen, MaxLink, MaxFaults} \subseteq Nat
ASSUME NoneIsNone == None \notin Addrs \cup Ids \cup Browsers \cup Admins

VARIABLES
  acct,      \* users/{email}/: profile.json and auth.json
  cache,     \* _SESSION_GEN_CACHE
  gens,      \* number of generations issued; secrets.token_hex never repeats
  minted,    \* the address every link was minted for, in order
  spent,     \* links that must never set a password again (history)
  ssoOn,     \* sso_store.is_enabled()
  session,   \* the signed cookie of a browser
  pending,   \* the session of a request that awaits its body, after the gate
  loop,      \* the handler that holds the event loop
  sender,    \* the background worker of reset requests
  invite,    \* an invitation that awaits its mail
  faults

vars == <<acct, cache, gens, minted, spent, ssoOn, session, pending, loop,
          sender, invite, faults>>

records == <<acct, cache, gens, minted, spent>>
flows == <<session, pending, loop, sender, invite>>

NoEntry == -1          \* nothing cached
Legacy == 0            \* "": an account older than generations

NoLink == [link |-> 0, used |-> FALSE]
Blank == [profile |-> FALSE, auth |-> FALSE, gen |-> Legacy, pw |-> FALSE,
          sso |-> FALSE, id |-> None, link |-> 0, used |-> FALSE]
Out == [addr |-> None, gen |-> Legacy]
Asleep == [at |-> "idle", addr |-> None]
NoInvite == [addr |-> None, link |-> 0, prev |-> NoLink]

\* What the handler on the loop goes on with: its next step, who asked, the
\* account, the Microsoft identity, the link, the link keys read before.
Held(at, b, a, i, t, prev) ==
  [at |-> at, b |-> b, addr |-> a, id |-> i, link |-> t, prev |-> prev]
Idle == Held("idle", None, None, None, 0, NoLink)

Exists(a) == acct[a].profile \/ acct[a].auth

\* is_sso_only and _sso_enforced_for
SsoOnly(a) == acct[a].sso /\ ~acct[a].pw
SsoEnforced(a) == ssoOn /\ acct[a].sso

LinksOf(a) == {t \in DOMAIN minted : minted[t] = a}

\* session_generation: the gate lets through a cookie with the generation it
\* finds in the cache, or in the record when nothing is cached.
Passes(s) ==
  /\ s.addr # None
  /\ IF cache[s.addr] # NoEntry THEN s.gen = cache[s.addr]
     ELSE Exists(s.addr) /\ s.gen = acct[s.addr].gen

Filled(a) ==
  IF cache[a] = NoEntry /\ Exists(a) THEN [cache EXCEPT ![a] = acct[a].gen] ELSE cache

-----------------------------------------------------------------------------
(* Writers of an account, each one lock section.                            *)

\* What they write into the record they read.
Fresh(g) == [Blank EXCEPT !.profile = TRUE, !.auth = TRUE, !.gen = g]
Consumed(r, g) == [r EXCEPT !.pw = TRUE, !.used = TRUE, !.gen = g]
Stamped(r, g) == [r EXCEPT !.auth = TRUE, !.gen = g]
Linked(r, t) == [r EXCEPT !.auth = TRUE, !.link = t, !.used = FALSE]
Relinked(r, kept) == [r EXCEPT !.link = kept.link, !.used = kept.used]
Keyed(r, g) == [Relinked(r, NoLink) EXCEPT !.auth = TRUE, !.pw = TRUE, !.gen = g]
Marked(r) == [r EXCEPT !.auth = TRUE, !.sso = TRUE]
Bound(r, i) == [r EXCEPT !.auth = TRUE, !.id = i]

Fault == faults < MaxFaults /\ faults' = faults + 1

\* create_account, for an address with neither file.
NewAccount(a) ==
  /\ ~Exists(a) /\ gens < MaxGen
  /\ gens' = gens + 1
  /\ acct' = [acct EXCEPT ![a] = Fresh(gens + 1)]
  /\ cache' = [cache EXCEPT ![a] = gens + 1]
  /\ UNCHANGED faults

\* create_account, for an existing one: an auth-only folder gets its profile.
OldAccount(a) ==
  /\ Exists(a)
  /\ acct' = [acct EXCEPT ![a].profile = TRUE]
  /\ UNCHANGED <<cache, gens, faults>>

\* create_account, when auth.json cannot be written after profile.json.
HalfAccount(a) ==
  /\ Fault /\ ~Exists(a)
  /\ acct' = [acct EXCEPT ![a].profile = TRUE]
  /\ UNCHANGED <<cache, gens>>

\* A fresh generation, in the record the caller writes and in the cache.
NewGeneration(a) ==
  /\ gens < MaxGen
  /\ gens' = gens + 1
  /\ cache' = [cache EXCEPT ![a] = gens + 1]

\* set_password: a fresh generation, and no link works any more.
SetPassword(a) ==
  /\ NewGeneration(a)
  /\ acct' = [acct EXCEPT ![a] = Keyed(@, gens + 1)]
  /\ spent' = spent \cup LinksOf(a)
  /\ UNCHANGED minted

\* create_reset_token, for an existing account: replaces the earlier link.
MintLink(a) ==
  /\ Len(minted) < MaxLink
  /\ minted' = Append(minted, a)
  /\ acct' = [acct EXCEPT ![a] = Linked(@, Len(minted) + 1)]

\* Mutant: only whether the record still holds the link that was minted.
RestoredUnchecked(a, link, prev) ==
  IF acct[a].link = link
  THEN [acct EXCEPT ![a] = Relinked(@, prev)]
  ELSE acct

\* restore_reset_token: the keys held before the mint come back only while
\* the record holds the minted link, unused, and no password.
Restored(a, link, prev) ==
  IF acct[a].link = link /\ ~acct[a].used /\ ~acct[a].pw
  THEN [acct EXCEPT ![a] = Relinked(@, prev)]
  ELSE acct
-----------------------------------------------------------------------------
(* Threads.  A removal, or an end of sessions, may have been asked for while *)
(* an earlier account stood at the address: it comes at any step.           *)

\* Mutant: the cache keeps its entry.
RemoveUserCached(a) ==
  /\ Exists(a)
  /\ acct' = [acct EXCEPT ![a] = Blank]
  /\ spent' = spent \cup LinksOf(a)
  /\ UNCHANGED <<cache, gens, minted, ssoOn, faults, session, pending, loop, sender, invite>>

\* remove_user: the folder, then the cache entry.
RemoveUser(a) ==
  /\ Exists(a)
  /\ acct' = [acct EXCEPT ![a] = Blank]
  /\ cache' = [cache EXCEPT ![a] = NoEntry]
  /\ spent' = spent \cup LinksOf(a)
  /\ UNCHANGED <<gens, minted, ssoOn, faults>> /\ UNCHANGED flows

\* remove_user, when rmtree fails after one of the two files: answered False.
RemoveUserFails(a) ==
  /\ Fault /\ acct[a].profile /\ acct[a].auth
  /\ \/ acct' = [acct EXCEPT ![a] = [Blank EXCEPT !.profile = TRUE]]
     \/ acct' = [acct EXCEPT ![a].profile = FALSE]
  /\ cache' = [cache EXCEPT ![a] = NoEntry]
  /\ UNCHANGED <<gens, minted, spent, ssoOn>> /\ UNCHANGED flows

\* Mutant: the record is not written.
BumpGenerationCacheOnly(a) ==
  /\ Exists(a) /\ NewGeneration(a)
  /\ UNCHANGED <<acct, minted, spent, ssoOn, faults>> /\ UNCHANGED flows

\* bump_session_generation: logout and the administrator's End sessions.
BumpGeneration(a) ==
  /\ Exists(a) /\ NewGeneration(a)
  /\ acct' = [acct EXCEPT ![a] = Stamped(@, gens + 1)]
  /\ UNCHANGED <<minted, spent, ssoOn, faults>> /\ UNCHANGED flows

\* _send_reset_link: the checks, the mint, the mail, and the rollback of a
\* mail that failed, whatever link the record holds by then.
SenderChecks(a) ==
  /\ sender.at = "idle"
  /\ Exists(a) /\ ~SsoOnly(a) /\ ~SsoEnforced(a)
  /\ sender' = [at |-> "mint", addr |-> a]
  /\ UNCHANGED records /\ UNCHANGED <<ssoOn, faults, session, pending, loop, invite>>

SenderMints ==
  /\ sender.at = "mint"
  /\ IF Exists(sender.addr)
     THEN /\ MintLink(sender.addr)
          /\ sender' = [at |-> "mail", addr |-> sender.addr]
     ELSE /\ sender' = Asleep
          /\ UNCHANGED <<acct, minted>>
  /\ UNCHANGED <<cache, gens, spent, ssoOn, faults, session, pending, loop, invite>>

SenderMails(delivered) ==
  /\ sender.at = "mail"
  /\ sender' = Asleep
  /\ acct' = IF delivered THEN acct
             ELSE [acct EXCEPT ![sender.addr] = Relinked(@, NoLink)]
  /\ UNCHANGED <<cache, gens, minted, spent, ssoOn, faults, session, pending, loop, invite>>
-----------------------------------------------------------------------------
(* Handlers on the event loop.  Each begins when the loop is free; its later *)
(* steps are named by loop.at.                                              *)

Goes(at, b, a, i) == loop' = Held(at, b, a, i, 0, NoLink)

Ends == loop' = Idle

\* The gate: a cookie it refuses is emptied.
Gate(b) ==
  /\ loop = Idle /\ session[b].addr # None
  /\ cache' = Filled(session[b].addr)
  /\ session' = IF Passes(session[b]) THEN session ELSE [session EXCEPT ![b] = Out]
  /\ UNCHANGED <<acct, gens, minted, spent, ssoOn, faults, pending, loop, sender, invite>>

\* login with the account's password.
Login(b, a) ==
  /\ loop = Idle
  /\ acct[a].pw /\ ~SsoEnforced(a)
  /\ Goes("start", b, a, None)
  /\ UNCHANGED records /\ UNCHANGED <<ssoOn, faults, session, pending, sender, invite>>

\* login of a new address of an approved domain: the account, then its password.
Register(b, a) ==
  /\ loop = Idle
  /\ a \in Approved /\ ~Exists(a)
  /\ \/ NewAccount(a) /\ Goes("setpw", b, a, None)
     \/ HalfAccount(a) /\ Ends
  /\ UNCHANGED <<minted, spent, ssoOn, session, pending, sender, invite>>

RegisterSets ==
  /\ loop.at = "setpw"
  /\ \/ Exists(loop.addr) /\ SetPassword(loop.addr) /\ Goes("start", loop.b, loop.addr, None)
     \/ ~Exists(loop.addr) /\ Ends /\ UNCHANGED records
  /\ UNCHANGED <<ssoOn, faults, session, pending, sender, invite>>

\* Mutant: a sign-in under way is not refused when the account goes.
StartSessionAnyway ==
  /\ loop.at = "start"
  /\ cache' = Filled(loop.addr)
  /\ session' = [session EXCEPT ![loop.b] = [addr |-> loop.addr, gen |-> Filled(loop.addr)[loop.addr]]]
  /\ Goes("touch", None, loop.addr, None)
  /\ UNCHANGED <<acct, gens, minted, spent, ssoOn, faults, pending, sender, invite>>

\* _start_session: refused for an account that is gone, else stamped with the
\* generation read.
StartSession ==
  /\ loop.at = "start"
  /\ LET a == loop.addr
         gone == cache[a] = NoEntry /\ ~Exists(a)
     IN /\ cache' = Filled(a)
        /\ session' = IF gone THEN session
                      ELSE [session EXCEPT ![loop.b] = [addr |-> a, gen |-> Filled(a)[a]]]
        /\ IF gone THEN Ends ELSE Goes("touch", None, a, None)
  /\ UNCHANGED <<acct, gens, minted, spent, ssoOn, faults, pending, sender, invite>>

\* touch_last_login: writes the profile of an account that exists.
TouchLogin ==
  /\ loop.at = "touch"
  /\ acct' = IF Exists(loop.addr) THEN [acct EXCEPT ![loop.addr].profile = TRUE] ELSE acct
  /\ Ends
  /\ UNCHANGED <<cache, gens, minted, spent, ssoOn, faults, session, pending, sender, invite>>

\* logout: this browser's cookie is cleared; BumpGeneration follows on a thread.
Logout(b) ==
  /\ loop = Idle /\ Passes(session[b])
  /\ cache' = Filled(session[b].addr)
  /\ session' = [session EXCEPT ![b] = Out]
  /\ UNCHANGED <<acct, gens, minted, spent, ssoOn, faults, pending, loop, sender, invite>>

-----------------------------------------------------------------------------
(* A change of the password by its owner, and by the holder of a link.      *)

\* change_password up to the body.
ChangeBegins(b) ==
  /\ loop = Idle /\ pending[b] = Out
  /\ Passes(session[b])
  /\ cache' = Filled(session[b].addr)
  /\ pending' = [pending EXCEPT ![b] = session[b]]
  /\ UNCHANGED <<acct, gens, minted, spent, ssoOn, faults, session, loop, sender, invite>>

\* The checks: a refusal sends the request's session back as its cookie.
ChangeChecks(b, right) ==
  /\ loop = Idle /\ pending[b] # Out
  /\ LET a == pending[b].addr IN
     IF ~SsoOnly(a) /\ (acct[a].pw => right)
     THEN Goes("change", b, a, None) /\ UNCHANGED <<session, pending>>
     ELSE /\ session' = [session EXCEPT ![b] = pending[b]]
          /\ pending' = [pending EXCEPT ![b] = Out]
          /\ UNCHANGED loop
  /\ UNCHANGED records /\ UNCHANGED <<ssoOn, faults, sender, invite>>

\* set_password; the session that made the change is stamped again.
ChangeSets ==
  /\ loop.at = "change"
  /\ LET a == loop.addr IN
     \/ /\ Exists(a) /\ SetPassword(a)
        /\ session' = [session EXCEPT ![loop.b] = [addr |-> a, gen |-> gens + 1]]
     \/ /\ ~Exists(a)
        /\ session' = [session EXCEPT ![loop.b] = Out]
        /\ UNCHANGED records
  /\ pending' = [pending EXCEPT ![loop.b] = Out]
  /\ Ends
  /\ UNCHANGED <<ssoOn, faults, sender, invite>>

\* Mutant: the check for Microsoft accounts is left to the mint.
SubmitLinkUnchecked(a) ==
  /\ loop = Idle
  /\ acct[a].link # 0 /\ ~acct[a].used
  /\ loop' = Held("consume", None, a, None, acct[a].link, NoLink)
  /\ UNCHANGED records /\ UNCHANGED <<ssoOn, faults, session, pending, sender, invite>>

\* reset_link_submit: a live link of an account that may have a password.  (A
\* link past its lifetime is refused, which changes nothing.)
SubmitLink(a) ==
  /\ loop = Idle
  /\ acct[a].link # 0 /\ ~acct[a].used
  /\ ~SsoOnly(a) /\ ~SsoEnforced(a)
  /\ loop' = Held("consume", None, a, None, acct[a].link, NoLink)
  /\ UNCHANGED records /\ UNCHANGED <<ssoOn, faults, session, pending, sender, invite>>

\* consume_reset_token: looks the link up again; the hash stays, marked used.
ConsumeLink ==
  /\ loop.at = "consume"
  /\ \/ \E a \in Addrs :
          /\ acct[a].link = loop.link /\ ~acct[a].used
          /\ NewGeneration(a)
          /\ acct' = [acct EXCEPT ![a] = Consumed(@, gens + 1)]
          /\ spent' = spent \cup LinksOf(a)
          /\ UNCHANGED minted
     \/ /\ \A a \in Addrs : acct[a].link = loop.link => acct[a].used
        /\ UNCHANGED records
  /\ Ends
  /\ UNCHANGED <<ssoOn, faults, session, pending, sender, invite>>
-----------------------------------------------------------------------------
(* Invitations and share placeholders.                                      *)

\* ensure_share_recipient, ensure_invited_user: the placeholder.
Share(a) ==
  /\ loop = Idle
  /\ \/ NewAccount(a) /\ IF ssoOn THEN Goes("mark_placeholder", None, a, None) ELSE Ends
     \/ OldAccount(a) /\ Ends
     \/ HalfAccount(a) /\ Ends
  /\ UNCHANGED <<minted, spent, ssoOn, session, pending, sender, invite>>

\* ensure_invited_user, its second lock section: the record is written
\* whether or not the account is still there.
MarkPlaceholder ==
  /\ loop.at = "mark_placeholder"
  /\ acct' = [acct EXCEPT ![loop.addr] = Marked(@)]
  /\ Ends
  /\ UNCHANGED <<cache, gens, minted, spent, ssoOn, faults, session, pending, sender, invite>>

\* invite_user up to the record read before the mint.
Invite(i, a) ==
  /\ loop = Idle /\ invite[i] = NoInvite
  /\ ~acct[a].pw /\ ~SsoOnly(a)
  /\ \/ NewAccount(a)
     \/ Exists(a) /\ UNCHANGED <<acct, cache, gens, faults>>
     \/ HalfAccount(a)
  /\ loop' = Held("mint", i, a, None, 0,
                  IF Exists(a) THEN [link |-> acct[a].link, used |-> acct[a].used]
                  ELSE NoLink)
  /\ UNCHANGED <<minted, spent, ssoOn, session, pending, sender, invite>>

\* create_reset_token, then the mail is awaited.
InviteMints ==
  /\ loop.at = "mint"
  /\ IF Exists(loop.addr)
     THEN /\ MintLink(loop.addr)
          /\ invite' = [invite EXCEPT ![loop.b] =
               [addr |-> loop.addr, link |-> Len(minted) + 1, prev |-> loop.prev]]
     ELSE UNCHANGED <<acct, minted, invite>>
  /\ Ends
  /\ UNCHANGED <<cache, gens, spent, ssoOn, faults, session, pending, sender>>

InviteMailed(i, delivered) ==
  /\ loop = Idle /\ invite[i] # NoInvite
  /\ acct' = IF delivered \/ ~Exists(invite[i].addr) THEN acct
             ELSE Restored(invite[i].addr, invite[i].link, invite[i].prev)
  /\ invite' = [invite EXCEPT ![i] = NoInvite]
  /\ UNCHANGED <<cache, gens, minted, spent, ssoOn, faults, session, pending, loop, sender>>
-----------------------------------------------------------------------------
(* Microsoft sign-in: the callback once the identity is proved.  An identity *)
(* may come with any address.                                               *)

BoundTo(i) == {a \in Addrs : acct[a].id = i}

\* Mutant: the address decides, the identity is not looked up.
CallbackByAddress(b, i, a) ==
  /\ loop = Idle /\ ssoOn
  /\ \/ Exists(a) /\ Goes("bind", b, a, i) /\ UNCHANGED <<acct, cache, gens, faults>>
     \/ a \in Approved /\ NewAccount(a) /\ Goes("bind", b, a, i)
  /\ UNCHANGED <<minted, spent, ssoOn, session, pending, sender, invite>>

\* microsoft_callback: the account bound to the identity, or the one of the
\* address, or a new one.
Callback(b, i, a) ==
  /\ loop = Idle /\ ssoOn
  /\ \/ /\ \E bound \in BoundTo(i) : Goes("mark", b, bound, i)
        /\ UNCHANGED <<acct, cache, gens, faults>>
     \/ /\ BoundTo(i) = {} /\ Exists(a)
        /\ Goes("bind", b, a, i)
        /\ UNCHANGED <<acct, cache, gens, faults>>
     \/ /\ BoundTo(i) = {} /\ a \in Approved
        /\ \/ NewAccount(a) /\ Goes("bind", b, a, i)
           \/ HalfAccount(a) /\ Ends
  /\ UNCHANGED <<minted, spent, ssoOn, session, pending, sender, invite>>

\* bind_sso_identity: bound and already go on; missing and conflict are refused.
Bind ==
  /\ loop.at = "bind"
  /\ IF Exists(loop.addr) /\ acct[loop.addr].id \in {None, loop.id}
     THEN /\ acct' = [acct EXCEPT ![loop.addr] = Bound(@, loop.id)]
          /\ Goes("mark", loop.b, loop.addr, loop.id)
     ELSE Ends /\ UNCHANGED acct
  /\ UNCHANGED <<cache, gens, minted, spent, ssoOn, faults, session, pending, sender, invite>>

\* mark_sso_login: a merge into the record of an account that exists.
MarkSso ==
  /\ loop.at = "mark"
  /\ acct' = IF Exists(loop.addr)
             THEN [acct EXCEPT ![loop.addr] = Marked(@)] ELSE acct
  /\ Goes("start", loop.b, loop.addr, loop.id)
  /\ UNCHANGED <<cache, gens, minted, spent, ssoOn, faults, session, pending, sender, invite>>

\* The administrator turns Microsoft sign-in on or off.
ToggleSso ==
  /\ loop = Idle
  /\ ssoOn' = ~ssoOn
  /\ UNCHANGED records /\ UNCHANGED flows /\ UNCHANGED faults

\* The process restarts: what it held in memory is gone, cookies and files stay.
Restart ==
  /\ Fault
  /\ cache' = [a \in Addrs |-> NoEntry]
  /\ pending' = [b \in Browsers |-> Out]
  /\ loop' = Idle /\ sender' = Asleep
  /\ invite' = [i \in Admins |-> NoInvite]
  /\ UNCHANGED <<acct, gens, minted, spent, ssoOn, session>>

-----------------------------------------------------------------------------
\* An install that was upgraded: accounts without a generation and cookies
\* without one may be left from before.
LegacyAccount == [Blank EXCEPT !.profile = TRUE]

Init ==
  /\ acct \in [Addrs -> {Blank, LegacyAccount}]
  /\ session \in [Browsers -> {Out} \cup
                   {[addr |-> a, gen |-> Legacy] : a \in {x \in Addrs : acct[x] # Blank}}]
  /\ cache = [a \in Addrs |-> NoEntry]
  /\ gens = 0 /\ minted = <<>> /\ spent = {} /\ faults = 0
  /\ ssoOn \in BOOLEAN
  /\ pending = [b \in Browsers |-> Out]
  /\ loop = Idle /\ sender = Asleep
  /\ invite = [i \in Admins |-> NoInvite]

Threads ==
  \/ \E a \in Addrs : RemoveUser(a) \/ RemoveUserFails(a) \/ BumpGeneration(a)
  \/ \E a \in Mailed : SenderChecks(a)
  \/ SenderMints
  \/ \E delivered \in BOOLEAN : SenderMails(delivered)

Begins ==
  \/ \E b \in Browsers :
       \/ Gate(b) \/ Logout(b) \/ ChangeBegins(b)
       \/ \E right \in BOOLEAN : ChangeChecks(b, right)
       \/ \E a \in Addrs : Login(b, a) \/ Register(b, a)
       \/ \E a \in Addrs, i \in Ids : Callback(b, i, a)
  \/ \E a \in Mailed : SubmitLink(a) \/ Share(a)
  \/ \E i \in Admins, a \in Mailed : Invite(i, a)
  \/ \E i \in Admins, delivered \in BOOLEAN : InviteMailed(i, delivered)
  \/ ToggleSso

Continues ==
  \/ RegisterSets \/ StartSession \/ TouchLogin \/ ChangeSets \/ ConsumeLink
  \/ MarkPlaceholder \/ InviteMints \/ Bind \/ MarkSso

Next == Threads \/ Begins \/ Continues \/ Restart

Spec == Init /\ [][Next]_vars
-----------------------------------------------------------------------------
Gens == 0..MaxGen
Links == 0..MaxLink
Accounts == [profile : BOOLEAN, auth : BOOLEAN, gen : Gens, pw : BOOLEAN, sso : BOOLEAN,
             id : Ids \cup {None}, link : Links, used : BOOLEAN]
Cookies == [addr : Addrs \cup {None}, gen : Gens]
Kept == [link : Links, used : BOOLEAN]
Places == {"idle", "setpw", "start", "touch", "change", "consume",
           "mark_placeholder", "mint", "bind", "mark"}
Handlers == [at : Places, b : Browsers \cup Admins \cup {None}, addr : Addrs \cup {None},
             id : Ids \cup {None}, link : Links, prev : Kept]
Invites == [addr : Addrs \cup {None}, link : Links, prev : Kept]

TypeOK ==
  /\ acct \in [Addrs -> Accounts]
  /\ cache \in [Addrs -> Gens \cup {NoEntry}]
  /\ gens \in Gens
  /\ minted \in Seq(Addrs) /\ Len(minted) <= MaxLink
  /\ spent \subseteq 1..MaxLink
  /\ ssoOn \in BOOLEAN
  /\ session \in [Browsers -> Cookies]
  /\ pending \in [Browsers -> Cookies]
  /\ loop \in Handlers
  /\ sender \in [at : {"idle", "mint", "mail"}, addr : Addrs \cup {None}]
  /\ invite \in [Admins -> Invites]
  /\ faults \in 0..MaxFaults

\* "the writers update the cache and remove_user drops it" (session_generation):
\* what is cached is the generation in the record of an account that exists,
\* whatever removals, re-creations and sign-ins overlap.
CacheIsRecord ==
  \A a \in Addrs : cache[a] # NoEntry => Exists(a) /\ cache[a] = acct[a].gen

\* "it can never match" (create_account): a cookie the gate would refuse now
\* is refused for good, through removals, accounts created again at the same
\* address, restarts and signed links.  A cookie of an install older than
\* generations carries none and is left out: what happens to it is
\* NotWrittenBack's question.
EndedStaysEnded ==
  [][\A b \in Browsers :
       session[b].gen # Legacy /\ ~Passes(session[b]) /\ session'[b] = session[b]
         => ~Passes(session[b])']_vars

\* A link that was used, or stood when a password was set on any path or the
\* account was removed, sets no password again: no rollback of a failed mail
\* and no account created later at the address brings it back.
SpentLinksStayDead ==
  \A a \in Addrs : acct[a].link \in spent => acct[a].used

\* The account is the Microsoft identity, not the address: an identity is
\* never bound to two accounts, whatever addresses it presents.
OneAccountPerIdentity ==
  \A i \in Ids : \A a, b \in BoundTo(i) : a = b

\* "Such an account must not obtain one" (is_sso_only): no link and no form
\* gives a password to an account that signs in with Microsoft only, not even
\* one that became such after the link was minted or the form was opened.
SsoOnlyStaysPasswordless ==
  [][\A a \in Addrs : SsoOnly(a) => ~acct'[a].pw]_vars

\* "The write guard of every writer except create_account: [...] so a request
\* still in flight when an administrator removes the account cannot write it
\* back" (_account_present).
NotWrittenBack ==
  [][\A a \in Addrs : ~Exists(a) /\ Exists(a)' => acct'[a].profile]_vars
=============================================================================
