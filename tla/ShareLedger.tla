---------------------------- MODULE ShareLedger ----------------------------
(***************************************************************************)
(* Who may open whose chat: the share records of ONE owner toward ONE      *)
(* recipient (local_store.py, routes/chat.py, routes/auth.py,              *)
(* routes/dashboards.py).  An address gets onto a chat's `shared_with` by  *)
(* three roads, a chat share, a conversation share and a dashboard share,  *)
(* and each road keeps a record of the access it created, so that taking   *)
(* the share back takes exactly that access away.                          *)
(*                                                                         *)
(* The routes run on one event loop, which gives way only at an await; the *)
(* removals marked as threads run beside it and meet it at `_LOCK`.  Every *)
(* step of this module is one section of that lock.                        *)
(*                                                                         *)
(* Access is decided by the meta of a chat and the doc of a dashboard      *)
(* alone.  The rows in the recipient's own indexes (sidebar, snapshot      *)
(* copies, dashboard pointers) are not modelled.                           *)
(***************************************************************************)
EXTENDS Naturals

CONSTANTS
  Chats,        \* the owner's chats
  Convs,        \* their conversations
  ChatOf,       \* the chat each conversation belongs to
  Dashes,       \* the owner's dashboards
  Removable     \* the dashboards the owner may delete

ASSUME ConvsHaveChats == ChatOf \in [Convs -> Chats]
ASSUME RemovableAreDashes == Removable \subseteq Dashes

VARIABLES
  listed,       \* chats whose sharing.shared_with holds the recipient
  convShared,   \* conversations recorded for the recipient (conv_shares)
  granted,      \* chats whose conv_granted holds the recipient
  docs,         \* dashboards whose doc exists
  tiles,        \* the chats each dashboard has a tile of
  dashShared,   \* dashboards whose sharing.shared_with holds the recipient
  grants,       \* sharing.chat_grants of each dashboard for the recipient
  opened,       \* share requests waiting for their body, with the chats read
  loop,         \* what the event loop is in the middle of
  purge,        \* what the removal of the recipient's account has still to visit
  madeBy        \* the road by which the recipient got on each list (history)

chatVars == <<listed, convShared, granted, madeBy>>
dashVars == <<docs, tiles, dashShared, grants>>
vars == <<chatVars, dashVars, opened, loop, purge>>

ConvsOf(c) == {v \in Convs : ChatOf[v] = c}

\* A request that has read no doc yet, and a loop between two handlers.
NotOpened == [open |-> FALSE, chats |-> {}]
Idle == [at |-> "idle", dash |-> {}, conv |-> {}, chats |-> {}, made |-> {}]

\* The owner's other dashboards that still show the recipient a tile of c.
Needing(c) == {d \in docs \cap dashShared : c \in tiles[d]}

-----------------------------------------------------------------------------
Init ==
  /\ listed = {} /\ convShared = {} /\ granted = {}
  /\ docs = Dashes /\ dashShared = {}
  /\ tiles = [d \in Dashes |-> {}]
  /\ grants = [d \in Dashes |-> {}]
  /\ opened = [d \in Dashes |-> NotOpened]
  /\ loop = Idle
  /\ purge = {}
  /\ madeBy = [c \in Chats |-> "none"]

-----------------------------------------------------------------------------
(* Getting off a list (remove_share_recipient): the chat's conversation     *)
(* records of the address go with its place.                                *)

TakeOff(S) ==
  /\ listed' = listed \ S
  /\ convShared' = convShared \ UNION {ConvsOf(c) : c \in S}
  /\ granted' = granted \ S
  /\ madeBy' = [c \in Chats |-> IF c \in S THEN "none" ELSE madeBy[c]]

-----------------------------------------------------------------------------
(* The chat share: share_post and, on a thread, share_delete.               *)

\* Mutant: the records of earlier dashboard shares are not forgotten.
ShareChatRemembering(c) ==
  /\ loop = Idle
  /\ listed' = listed \cup {c}
  /\ granted' = granted \ {c}
  /\ madeBy' = [madeBy EXCEPT ![c] = "chat"]
  /\ UNCHANGED <<convShared, dashVars, opened, loop, purge>>

\* A direct share makes the access deliberate: no dashboard and no
\* conversation share may take it away any more.
ShareChat(c) ==
  /\ loop = Idle
  /\ grants' = [d \in Dashes |-> IF d \in docs THEN grants[d] \ {c} ELSE grants[d]]
  /\ listed' = listed \cup {c}
  /\ granted' = granted \ {c}
  /\ madeBy' = [madeBy EXCEPT ![c] = "chat"]
  /\ UNCHANGED <<convShared, docs, tiles, dashShared, opened, loop, purge>>

UnshareChat(c) ==
  /\ c \in listed
  /\ TakeOff({c})
  /\ UNCHANGED <<dashVars, opened, loop, purge>>

-----------------------------------------------------------------------------
(* The conversation share: share_conversation and, on a thread,             *)
(* conv_share_delete.                                                       *)

\* Who is on the list already is read before the lock is taken.
ReadListed(v) ==
  /\ loop = Idle
  /\ loop' = [Idle EXCEPT !.at = "conv", !.conv = {v}, !.chats = listed]
  /\ UNCHANGED <<chatVars, dashVars, opened, purge>>

\* The grant and its record are one section.
ShareConversation ==
  /\ loop.at = "conv"
  /\ \E v \in loop.conv :
       LET c == ChatOf[v] IN
       /\ listed' = listed \cup {c}
       /\ convShared' = convShared \cup {v}
       /\ granted' = IF c \in listed \cup loop.chats THEN granted ELSE granted \cup {c}
       /\ madeBy' = IF c \in listed THEN madeBy ELSE [madeBy EXCEPT ![c] = "conv"]
  /\ loop' = Idle
  /\ UNCHANGED <<dashVars, opened, purge>>

\* Mutant: the other conversations of the chat are not looked at.
UnshareConversationAlone(v) ==
  LET c == ChatOf[v] IN
  /\ v \in convShared
  /\ \/ /\ c \notin granted
        /\ convShared' = convShared \ {v}
        /\ UNCHANGED <<listed, granted, madeBy, grants>>
     \/ /\ c \in granted
        /\ \E d \in Needing(c) : grants' = [grants EXCEPT ![d] = @ \cup {c}]
        /\ convShared' = convShared \ {v}
        /\ granted' = granted \ {c}
        /\ madeBy' = [madeBy EXCEPT ![c] = "dash"]
        /\ UNCHANGED listed
     \/ /\ c \in granted /\ Needing(c) = {}
        /\ TakeOff({c})
        /\ UNCHANGED grants
  /\ UNCHANGED <<docs, tiles, dashShared, opened, loop, purge>>

\* Chat access goes with the last shared conversation when a conversation
\* share created it, unless a dashboard needs it: then the grant is its.
UnshareConversation(v) ==
  LET c == ChatOf[v]
      mine == c \in granted /\ ConvsOf(c) \cap convShared = {v}
  IN
  /\ v \in convShared
  /\ \/ /\ ~mine
        /\ convShared' = convShared \ {v}
        /\ UNCHANGED <<listed, granted, madeBy, grants>>
     \/ /\ mine
        /\ \E d \in Needing(c) : grants' = [grants EXCEPT ![d] = @ \cup {c}]
        /\ convShared' = convShared \ {v}
        /\ granted' = granted \ {c}
        /\ madeBy' = [madeBy EXCEPT ![c] = "dash"]
        /\ UNCHANGED listed
     \/ /\ mine /\ Needing(c) = {}
        /\ TakeOff({c})
        /\ UNCHANGED grants
  /\ UNCHANGED <<docs, tiles, dashShared, opened, loop, purge>>

-----------------------------------------------------------------------------
(* The dashboard share: share_dashboard and unshare_dashboard, both on the  *)
(* loop and each of several sections, between which threads may run.        *)

\* The doc is read before the body of the request is awaited: the chats to
\* be granted are those of the tiles it has now.
OpenShare(d) ==
  /\ loop = Idle /\ d \in docs /\ ~opened[d].open
  /\ opened' = [opened EXCEPT ![d] = [open |-> TRUE, chats |-> tiles[d]]]
  /\ UNCHANGED <<chatVars, dashVars, loop, purge>>

\* add_dashboard_share; a doc that is gone by now changes nothing, and the
\* route goes on.
ShareDashboard(d) ==
  /\ loop = Idle /\ opened[d].open
  /\ dashShared' = IF d \in docs THEN dashShared \cup {d} ELSE dashShared
  /\ loop' = [Idle EXCEPT !.at = "granting", !.dash = {d}, !.chats = opened[d].chats]
  /\ opened' = [opened EXCEPT ![d] = NotOpened]
  /\ UNCHANGED <<chatVars, docs, tiles, grants, purge>>

\* add_share_recipients, chat by chat; only what it adds is remembered.
GrantChat(c) ==
  /\ loop.at = "granting" /\ c \in loop.chats
  /\ listed' = listed \cup {c}
  /\ madeBy' = IF c \in listed THEN madeBy ELSE [madeBy EXCEPT ![c] = "dash"]
  /\ loop' = [loop EXCEPT !.chats = @ \ {c}, !.made = @ \cup ({c} \ listed)]
  /\ UNCHANGED <<convShared, granted, dashVars, opened, purge>>

\* record_chat_grants.
RecordGrants ==
  /\ loop.at = "granting" /\ loop.chats = {}
  /\ grants' = [d \in Dashes |-> IF d \in loop.dash \cap docs THEN grants[d] \cup loop.made ELSE grants[d]]
  /\ loop' = Idle
  /\ UNCHANGED <<chatVars, docs, tiles, dashShared, opened, purge>>

\* Mutant: another dashboard's need is not looked at.
RevokeSelectAll(d) ==
  /\ loop = Idle /\ d \in docs
  /\ grants' = [grants EXCEPT ![d] = {}]
  /\ loop' = [Idle EXCEPT !.at = "revoking", !.dash = {d}, !.chats = grants[d]]
  /\ UNCHANGED <<chatVars, docs, tiles, dashShared, opened, purge>>

\* The first section of revoke_chat_grants: the record is emptied, and what
\* another dashboard needs is handed over to it.
RevokeSelect(d) ==
  LET kept == {c \in grants[d] : Needing(c) \ {d} # {}} IN
  /\ loop = Idle /\ d \in docs
  /\ \E heir \in [kept -> Dashes] :
       /\ \A c \in kept : heir[c] \in Needing(c) \ {d}
       /\ grants' = [e \in Dashes |-> IF e = d THEN {} ELSE grants[e] \cup {c \in kept : heir[c] = e}]
  /\ loop' = [Idle EXCEPT !.at = "revoking", !.dash = {d}, !.chats = grants[d] \ kept]
  /\ UNCHANGED <<chatVars, docs, tiles, dashShared, opened, purge>>

\* Its second section.
RevokeChats ==
  /\ loop.at = "revoking"
  /\ TakeOff(loop.chats)
  /\ loop' = [loop EXCEPT !.at = "unlisting", !.chats = {}]
  /\ UNCHANGED <<dashVars, opened, purge>>

\* remove_dashboard_share.
UnshareDashboard ==
  /\ loop.at = "unlisting"
  /\ dashShared' = dashShared \ loop.dash
  /\ loop' = Idle
  /\ UNCHANGED <<chatVars, docs, tiles, grants, opened, purge>>

\* The owner pins and unpins, and deletes a dashboard with all it records.
PinTile(d, c) ==
  /\ loop = Idle /\ d \in docs
  /\ \/ tiles' = [tiles EXCEPT ![d] = @ \cup {c}]
     \/ tiles' = [tiles EXCEPT ![d] = @ \ {c}]
  /\ UNCHANGED <<chatVars, docs, dashShared, grants, opened, loop, purge>>

\* Mutant: the doc goes, what it recorded stays.
DeleteDashboardKeepsShare(d) ==
  /\ loop = Idle /\ d \in docs \cap Removable
  /\ docs' = docs \ {d}
  /\ UNCHANGED <<chatVars, tiles, dashShared, grants, opened, loop, purge>>

DeleteDashboard(d) ==
  /\ loop = Idle /\ d \in docs \cap Removable
  /\ docs' = docs \ {d}
  /\ tiles' = [tiles EXCEPT ![d] = {}]
  /\ grants' = [grants EXCEPT ![d] = {}]
  /\ dashShared' = dashShared \ {d}
  /\ UNCHANGED <<chatVars, opened, loop, purge>>

-----------------------------------------------------------------------------
(* The administrator removes the recipient's account (a thread): the folder *)
(* first, then the address comes off every list, item by item.              *)

RemoveAccount ==
  /\ purge = {}
  /\ purge' = Chats \cup docs
  /\ UNCHANGED <<chatVars, dashVars, opened, loop>>

\* Mutant: the place on the list goes, its records stay.
PurgeChatKeepsRecords(c) ==
  /\ c \in purge
  /\ purge' = purge \ {c}
  /\ listed' = listed \ {c}
  /\ madeBy' = [madeBy EXCEPT ![c] = IF c \in listed THEN "none" ELSE @]
  /\ UNCHANGED <<convShared, granted, dashVars, opened, loop>>

\* Chats come before dashboards; a chat that does not list the address is
\* left as it is.
PurgeChat(c) ==
  /\ c \in purge
  /\ purge' = purge \ {c}
  /\ IF c \in listed THEN TakeOff({c}) ELSE UNCHANGED chatVars
  /\ UNCHANGED <<dashVars, opened, loop>>

PurgeDashboard(d) ==
  /\ d \in purge /\ purge \cap Chats = {}
  /\ purge' = purge \ {d}
  /\ dashShared' = dashShared \ {d}
  /\ UNCHANGED <<chatVars, docs, tiles, grants, opened, loop>>

-----------------------------------------------------------------------------
Next ==
  \/ \E c \in Chats : ShareChat(c) \/ UnshareChat(c) \/ GrantChat(c) \/ PurgeChat(c)
  \/ \E v \in Convs : ReadListed(v) \/ UnshareConversation(v)
  \/ \E d \in Dashes :
       \/ OpenShare(d) \/ ShareDashboard(d) \/ RevokeSelect(d)
       \/ DeleteDashboard(d) \/ PurgeDashboard(d)
       \/ \E c \in Chats : PinTile(d, c)
  \/ ShareConversation \/ RecordGrants \/ RevokeChats \/ UnshareDashboard \/ RemoveAccount

Spec == Init /\ [][Next]_vars

-----------------------------------------------------------------------------
TypeOK ==
  /\ listed \subseteq Chats /\ granted \subseteq Chats
  /\ convShared \subseteq Convs
  /\ docs \subseteq Dashes /\ dashShared \subseteq docs
  /\ tiles \in [Dashes -> SUBSET Chats]
  /\ grants \in [Dashes -> SUBSET Chats]
  /\ opened \in [Dashes -> [open : BOOLEAN, chats : SUBSET Chats]]
  /\ loop \in [at : {"idle", "conv", "granting", "revoking", "unlisting"},
               dash : SUBSET Dashes, conv : SUBSET Convs,
               chats : SUBSET Chats, made : SUBSET Chats]
  /\ purge \subseteq Chats \cup Dashes
  /\ madeBy \in [Chats -> {"none", "chat", "conv", "dash"}]

\* The records of conversation shares are never stale: who is recorded for a
\* conversation is on the chat's list, and access that a conversation share
\* created still has a recorded conversation to be taken back with.
ConvRecordsAreLive ==
  /\ \A v \in convShared : ChatOf[v] \in listed
  /\ granted \subseteq {ChatOf[v] : v \in convShared}

\* What the owner shared on purpose with Share Chat is taken away by its own
\* Remove or with the account, never by unsharing a dashboard or a
\* conversation, whatever was shared before and in whatever order.
ChatShareIsKept ==
  [][\A c \in listed \ listed' :
       madeBy[c] = "chat" => UnshareChat(c) \/ PurgeChat(c)]_vars

\* Unsharing one thing never closes a chat that a dashboard which is still
\* shared with the recipient shows a tile of.
NeededAccessIsKept ==
  [][\A c \in listed \ listed' :
       \/ UnshareChat(c) \/ PurgeChat(c)
       \/ Needing(c) \subseteq loop.dash]_vars

\* revoke_chat_grants: "Only grants that did not exist before the share are
\* recorded, so an unshare never revokes access the recipient had for another
\* reason".
UnshareRevokesItsOwnGrant ==
  [][RevokeChats => \A c \in listed \ listed' : madeBy[c] = "dash"]_vars

-----------------------------------------------------------------------------
(* The inductive invariant: what the records and the loop may hold.         *)

\* A chat shared on purpose is in no record by which another share could
\* take it away, not even in one a handler is about to write or to act on.
OnPurposeInv ==
  \A c \in Chats : madeBy[c] = "chat" =>
    /\ c \in listed /\ c \notin granted
    /\ \A d \in Dashes : c \notin grants[d]
    /\ c \notin loop.made
    /\ loop.at = "revoking" => c \notin loop.chats

\* What is about to be revoked is needed by no other dashboard.
RevokingInv ==
  loop.at = "revoking" => \A c \in loop.chats : Needing(c) \subseteq loop.dash

\* A doc that is gone records nothing.
GoneInv == \A d \in Dashes \ docs : grants[d] = {}

LedgerInv == TypeOK /\ ConvRecordsAreLive /\ OnPurposeInv /\ RevokingInv /\ GoneInv
=============================================================================
