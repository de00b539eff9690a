------------------------ MODULE ShareLedger_proofs -------------------------
(***************************************************************************)
(* Proofs about the share records, for every set of chats, conversations   *)
(* and dashboards.                                                         *)
(***************************************************************************)
EXTENDS ShareLedger, TLAPS

LoopStates ==
  [at : {"idle", "conv", "granting", "revoking", "unlisting"},
   dash : SUBSET Dashes, conv : SUBSET Convs,
   chats : SUBSET Chats, made : SUBSET Chats]

(* Getting off lists keeps the records in their types.                      *)
LEMMA TakeOffTypes ==
  ASSUME TypeOK, NEW S, TakeOff(S)
  PROVE  /\ listed' \subseteq Chats /\ granted' \subseteq Chats
         /\ convShared' \subseteq Convs
         /\ madeBy' \in [Chats -> {"none", "chat", "conv", "dash"}]
BY DEF TypeOK, TakeOff

(* Every step keeps the variables in their types.                           *)
LEMMA TypeStep == TypeOK /\ [Next]_vars => TypeOK'
<1> SUFFICES ASSUME TypeOK, [Next]_vars PROVE TypeOK'
  OBVIOUS
<1> USE ConvsHaveChats, RemovableAreDashes DEF TypeOK
<1>1. CASE UNCHANGED vars
  BY <1>1 DEF vars, chatVars, dashVars
<1>2. ASSUME NEW c \in Chats,
             ShareChat(c) \/ UnshareChat(c) \/ GrantChat(c) \/ PurgeChat(c)
      PROVE  TypeOK'
  <2>1. CASE ShareChat(c)
    BY <2>1 DEF ShareChat
  <2>2. CASE UnshareChat(c)
    BY <2>2, TakeOffTypes DEF UnshareChat, dashVars
  <2>3. CASE GrantChat(c)
    BY <2>3 DEF GrantChat, dashVars
  <2>4. CASE PurgeChat(c)
    BY <2>4, TakeOffTypes DEF PurgeChat, chatVars, dashVars
  <2> QED BY <1>2, <2>1, <2>2, <2>3, <2>4
<1>3. ASSUME NEW v \in Convs, ReadListed(v) PROVE TypeOK'
  BY <1>3 DEF ReadListed, Idle, chatVars, dashVars
<1>4. ASSUME NEW v \in Convs, UnshareConversation(v) PROVE TypeOK'
  <2> DEFINE c == ChatOf[v]
  <2>1. c \in Chats
    OBVIOUS
  <2>2. /\ listed' \subseteq Chats /\ granted' \subseteq Chats
        /\ convShared' \subseteq Convs
        /\ madeBy' \in [Chats -> {"none", "chat", "conv", "dash"}]
    BY <1>4, <2>1, TakeOffTypes DEF UnshareConversation
  <2>3. grants' \in [Dashes -> SUBSET Chats]
    BY <1>4, <2>1 DEF UnshareConversation
  <2>4. UNCHANGED <<docs, tiles, dashShared, opened, loop, purge>>
    BY <1>4 DEF UnshareConversation
  <2> QED BY <2>2, <2>3, <2>4
<1>5. ASSUME NEW d \in Dashes, OpenShare(d) \/ ShareDashboard(d) PROVE TypeOK'
  <2>1. CASE OpenShare(d)
    BY <2>1 DEF OpenShare, chatVars, dashVars
  <2>2. CASE ShareDashboard(d)
    <3>1. loop' \in LoopStates
      BY <2>2 DEF ShareDashboard, Idle, LoopStates
    <3>2. opened' \in [Dashes -> [open : BOOLEAN, chats : SUBSET Chats]]
      BY <2>2 DEF ShareDashboard, NotOpened
    <3> QED BY <2>2, <3>1, <3>2 DEF ShareDashboard, LoopStates, chatVars
  <2> QED BY <1>5, <2>1, <2>2
<1>6. ASSUME NEW d \in Dashes, RevokeSelect(d) PROVE TypeOK'
  <2>1. loop' \in LoopStates
    BY <1>6 DEF RevokeSelect, Idle, LoopStates
  <2>2. grants' \in [Dashes -> SUBSET Chats]
    BY <1>6 DEF RevokeSelect
  <2> QED BY <1>6, <2>1, <2>2 DEF RevokeSelect, LoopStates, chatVars
<1>7. ASSUME NEW d \in Dashes, DeleteDashboard(d) \/ PurgeDashboard(d) PROVE TypeOK'
  BY <1>7 DEF DeleteDashboard, PurgeDashboard, chatVars, dashVars
<1>8. ASSUME NEW d \in Dashes, NEW c \in Chats, PinTile(d, c) PROVE TypeOK'
  BY <1>8 DEF PinTile, chatVars
<1>9. CASE ShareConversation
  BY <1>9 DEF ShareConversation, Idle, dashVars
<1>10. CASE RecordGrants
  BY <1>10 DEF RecordGrants, Idle, chatVars
<1>11. CASE RevokeChats
  <2>1. loop' \in LoopStates
    BY <1>11 DEF RevokeChats, LoopStates
  <2> QED BY <1>11, <2>1, TakeOffTypes DEF RevokeChats, LoopStates, dashVars
<1>12. CASE UnshareDashboard \/ RemoveAccount
  BY <1>12 DEF UnshareDashboard, RemoveAccount, Idle, chatVars, dashVars
<1> QED
  BY <1>1, <1>2, <1>3, <1>4, <1>5, <1>6, <1>7, <1>8, <1>9, <1>10, <1>11, <1>12 DEF Next

-----------------------------------------------------------------------------
(* The records of conversation shares.                                      *)

(* Getting off lists takes the conversation records of those lists along.   *)
LEMMA TakeOffKeepsRecordsLive ==
  ASSUME TypeOK, ConvRecordsAreLive, NEW S, TakeOff(S)
  PROVE  ConvRecordsAreLive'
<1>1. ASSUME NEW v \in convShared' PROVE ChatOf[v] \in listed'
  <2>1. v \in Convs /\ v \in convShared /\ v \notin UNION {ConvsOf(c) : c \in S}
    BY <1>1 DEF TypeOK, TakeOff
  <2>2. v \in ConvsOf(ChatOf[v])
    BY <2>1 DEF ConvsOf
  <2>3. ChatOf[v] \notin S
    BY <2>1, <2>2
  <2> QED BY <2>1, <2>3 DEF ConvRecordsAreLive, TakeOff
<1>2. ASSUME NEW c \in granted' PROVE c \in {ChatOf[v] : v \in convShared'}
  <2>1. c \in granted /\ c \notin S
    BY <1>2 DEF TakeOff
  <2>2. PICK v \in convShared : c = ChatOf[v]
    BY <2>1 DEF ConvRecordsAreLive
  <2>3. v \notin UNION {ConvsOf(e) : e \in S}
    BY <2>1, <2>2 DEF ConvsOf
  <2>4. v \in convShared'
    BY <2>3 DEF TakeOff
  <2> QED BY <2>2, <2>4
<1> QED BY <1>1, <1>2 DEF ConvRecordsAreLive

(* Every step keeps the records live.                                       *)
LEMMA RecordsStep ==
  TypeOK /\ ConvRecordsAreLive /\ [Next]_vars => ConvRecordsAreLive'
<1> SUFFICES ASSUME TypeOK, ConvRecordsAreLive, [Next]_vars PROVE ConvRecordsAreLive'
  OBVIOUS
<1> USE ConvsHaveChats
<1>quiet. ASSUME UNCHANGED <<listed, convShared, granted>> PROVE ConvRecordsAreLive'
  BY <1>quiet DEF ConvRecordsAreLive
<1>1. CASE UNCHANGED vars
  BY <1>1, <1>quiet DEF vars, chatVars
<1>2. ASSUME NEW c \in Chats, ShareChat(c) \/ GrantChat(c) PROVE ConvRecordsAreLive'
  BY <1>2 DEF ShareChat, GrantChat, ConvRecordsAreLive
<1>3. ASSUME NEW c \in Chats, UnshareChat(c) \/ PurgeChat(c) PROVE ConvRecordsAreLive'
  <2>1. TakeOff({c}) \/ UNCHANGED chatVars
    BY <1>3 DEF UnshareChat, PurgeChat
  <2> QED BY <2>1, <1>quiet, TakeOffKeepsRecordsLive DEF chatVars
<1>4. ASSUME NEW v \in Convs, UnshareConversation(v) PROVE ConvRecordsAreLive'
  <2> DEFINE c == ChatOf[v]
             mine == c \in granted /\ ConvsOf(c) \cap convShared = {v}
  <2>1. CASE TakeOff({c})
    BY <2>1, TakeOffKeepsRecordsLive
  <2>2. CASE /\ ~mine
             /\ convShared' = convShared \ {v}
             /\ UNCHANGED <<listed, granted>>
    \* Another recorded conversation of the chat stays behind.
    <3>1. ASSUME NEW e \in granted PROVE \E w \in convShared \ {v} : e = ChatOf[w]
      <4>1. PICK w \in convShared : e = ChatOf[w]
        BY DEF ConvRecordsAreLive
      <4>2. CASE w = v
        <5>1. ConvsOf(c) \cap convShared # {v}
          BY <2>2, <4>1, <4>2
        <5>2. v \in ConvsOf(c) \cap convShared
          BY <4>1, <4>2 DEF ConvsOf
        <5>3. PICK u \in ConvsOf(c) \cap convShared : u # v
          BY <5>1, <5>2
        <5> QED BY <4>1, <4>2, <5>3 DEF ConvsOf
      <4> QED BY <4>1, <4>2
    <3> QED BY <2>2, <3>1 DEF ConvRecordsAreLive
  <2>3. CASE /\ mine
             /\ convShared' = convShared \ {v} /\ granted' = granted \ {c}
             /\ UNCHANGED listed
    <3>1. ASSUME NEW e \in granted, e # c PROVE \E w \in convShared \ {v} : e = ChatOf[w]
      BY <3>1 DEF ConvRecordsAreLive
    <3> QED BY <2>3, <3>1 DEF ConvRecordsAreLive
  <2> QED BY <1>4, <2>1, <2>2, <2>3 DEF UnshareConversation
<1>5. CASE ShareConversation
  <2>1. PICK v \in loop.conv :
          LET c == ChatOf[v] IN
          /\ listed' = listed \cup {c}
          /\ convShared' = convShared \cup {v}
          /\ granted' = IF c \in listed \cup loop.chats THEN granted ELSE granted \cup {c}
    BY <1>5 DEF ShareConversation
  <2> QED BY <2>1 DEF ConvRecordsAreLive
<1>6. CASE RevokeChats
  BY <1>6, TakeOffKeepsRecordsLive DEF RevokeChats
<1>7. ASSUME NEW d \in Dashes,
             \/ OpenShare(d) \/ ShareDashboard(d) \/ RevokeSelect(d)
             \/ DeleteDashboard(d) \/ PurgeDashboard(d)
             \/ \E c \in Chats : PinTile(d, c)
      PROVE  ConvRecordsAreLive'
  BY <1>7, <1>quiet DEF OpenShare, ShareDashboard, RevokeSelect, DeleteDashboard,
     PurgeDashboard, PinTile, chatVars
<1>8. ASSUME NEW v \in Convs, ReadListed(v) PROVE ConvRecordsAreLive'
  BY <1>8, <1>quiet DEF ReadListed, chatVars
<1>9. CASE RecordGrants \/ UnshareDashboard \/ RemoveAccount
  BY <1>9, <1>quiet DEF RecordGrants, UnshareDashboard, RemoveAccount, chatVars
<1> QED
  BY <1>1, <1>2, <1>3, <1>4, <1>5, <1>6, <1>7, <1>8, <1>9 DEF Next

-----------------------------------------------------------------------------
(* What the records and the loop may hold.                                  *)

(* A dashboard that is gone is written no record.                           *)
LEMMA GoneStep == TypeOK /\ GoneInv /\ [Next]_vars => GoneInv'
<1> SUFFICES ASSUME TypeOK, GoneInv, [Next]_vars PROVE GoneInv'
  OBVIOUS
<1>quiet. ASSUME UNCHANGED <<docs, grants>> PROVE GoneInv'
  BY <1>quiet DEF GoneInv
<1>1. CASE UNCHANGED vars
  BY <1>1, <1>quiet DEF vars, dashVars
<1>2. ASSUME NEW c \in Chats, ShareChat(c) PROVE GoneInv'
  BY <1>2 DEF ShareChat, GoneInv, TypeOK
<1>3. ASSUME NEW c \in Chats, UnshareChat(c) \/ GrantChat(c) \/ PurgeChat(c) PROVE GoneInv'
  BY <1>3, <1>quiet DEF UnshareChat, GrantChat, PurgeChat, dashVars
<1>4. ASSUME NEW v \in Convs, UnshareConversation(v) PROVE GoneInv'
  <2> DEFINE c == ChatOf[v]
  <2>1. /\ docs' = docs
        /\ \/ grants' = grants
           \/ \E d \in Needing(c) : grants' = [grants EXCEPT ![d] = @ \cup {c}]
    BY <1>4 DEF UnshareConversation
  <2> QED BY <2>1 DEF GoneInv, Needing, TypeOK
<1>5. ASSUME NEW d \in Dashes, RevokeSelect(d) PROVE GoneInv'
  <2> DEFINE kept == {c \in grants[d] : Needing(c) \ {d} # {}}
  <2>1. PICK heir \in [kept -> Dashes] :
          /\ \A c \in kept : heir[c] \in Needing(c) \ {d}
          /\ grants' = [e \in Dashes |-> IF e = d THEN {}
                                        ELSE grants[e] \cup {c \in kept : heir[c] = e}]
    BY <1>5 DEF RevokeSelect
  <2>2. \A c \in kept : heir[c] \in docs
    BY <2>1 DEF Needing
  <2>3. docs' = docs
    BY <1>5 DEF RevokeSelect
  <2> QED BY <2>1, <2>2, <2>3 DEF GoneInv, TypeOK
<1>6. ASSUME NEW d \in Dashes, DeleteDashboard(d) PROVE GoneInv'
  BY <1>6 DEF DeleteDashboard, GoneInv, TypeOK
<1>7. ASSUME NEW d \in Dashes,
             \/ OpenShare(d) \/ ShareDashboard(d) \/ PurgeDashboard(d)
             \/ \E c \in Chats : PinTile(d, c)
      PROVE  GoneInv'
  BY <1>7, <1>quiet DEF OpenShare, ShareDashboard, PurgeDashboard, PinTile, dashVars
<1>8. ASSUME NEW v \in Convs, ReadListed(v) PROVE GoneInv'
  BY <1>8, <1>quiet DEF ReadListed, dashVars
<1>9. CASE RecordGrants
  BY <1>9 DEF RecordGrants, GoneInv, TypeOK
<1>10. CASE ShareConversation \/ RevokeChats \/ UnshareDashboard \/ RemoveAccount
  BY <1>10, <1>quiet DEF ShareConversation, RevokeChats, UnshareDashboard, RemoveAccount, dashVars
<1> QED
  BY <1>1, <1>2, <1>3, <1>4, <1>5, <1>6, <1>7, <1>8, <1>9, <1>10 DEF Next

(* While chats wait to be revoked the loop is busy, and the threads that run *)
(* meanwhile can only take needs away.                                      *)
LEMMA RevokingStep == TypeOK /\ RevokingInv /\ [Next]_vars => RevokingInv'
<1> SUFFICES ASSUME TypeOK, RevokingInv, [Next]_vars PROVE RevokingInv'
  OBVIOUS
<1>elsewhere. ASSUME loop'.at # "revoking" PROVE RevokingInv'
  BY <1>elsewhere DEF RevokingInv
<1>fewer. ASSUME loop' = loop, docs' = docs, tiles' = tiles, dashShared' \subseteq dashShared
          PROVE  RevokingInv'
  BY <1>fewer DEF RevokingInv, Needing
<1>1. CASE UNCHANGED vars
  BY <1>1, <1>fewer DEF vars, dashVars
<1>2. ASSUME NEW c \in Chats, ShareChat(c) PROVE RevokingInv'
  BY <1>2, <1>elsewhere DEF ShareChat, Idle
<1>3. ASSUME NEW c \in Chats, UnshareChat(c) \/ PurgeChat(c) PROVE RevokingInv'
  BY <1>3, <1>fewer DEF UnshareChat, PurgeChat, dashVars
<1>4. ASSUME NEW c \in Chats, GrantChat(c) PROVE RevokingInv'
  BY <1>4, <1>elsewhere DEF GrantChat, TypeOK
<1>5. ASSUME NEW v \in Convs, UnshareConversation(v) PROVE RevokingInv'
  BY <1>5, <1>fewer DEF UnshareConversation
<1>6. ASSUME NEW v \in Convs, ReadListed(v) PROVE RevokingInv'
  BY <1>6, <1>elsewhere DEF ReadListed, Idle
<1>7. ASSUME NEW d \in Dashes, OpenShare(d) PROVE RevokingInv'
  BY <1>7, <1>elsewhere DEF OpenShare, Idle
<1>8. ASSUME NEW d \in Dashes, ShareDashboard(d) PROVE RevokingInv'
  BY <1>8, <1>elsewhere DEF ShareDashboard, Idle
<1>9. ASSUME NEW d \in Dashes, RevokeSelect(d) PROVE RevokingInv'
  <2> DEFINE kept == {c \in grants[d] : Needing(c) \ {d} # {}}
  <2>1. loop'.dash = {d} /\ loop'.chats = grants[d] \ kept
    BY <1>9 DEF RevokeSelect, Idle
  <2>2. \A c \in grants[d] \ kept : Needing(c) \subseteq {d}
    OBVIOUS
  <2>3. UNCHANGED <<docs, tiles, dashShared>>
    BY <1>9 DEF RevokeSelect
  <2> QED BY <2>1, <2>2, <2>3 DEF RevokingInv, Needing
<1>10. ASSUME NEW d \in Dashes, DeleteDashboard(d) \/ (\E c \in Chats : PinTile(d, c))
       PROVE  RevokingInv'
  BY <1>10, <1>elsewhere DEF DeleteDashboard, PinTile, Idle
<1>11. ASSUME NEW d \in Dashes, PurgeDashboard(d) PROVE RevokingInv'
  BY <1>11, <1>fewer DEF PurgeDashboard
<1>12. CASE ShareConversation \/ RecordGrants \/ UnshareDashboard
  BY <1>12, <1>elsewhere DEF ShareConversation, RecordGrants, UnshareDashboard, Idle
<1>13. CASE RevokeChats
  BY <1>13, <1>elsewhere DEF RevokeChats, TypeOK
<1>14. CASE RemoveAccount
  BY <1>14, <1>fewer DEF RemoveAccount, dashVars
<1> QED
  BY <1>1, <1>2, <1>3, <1>4, <1>5, <1>6, <1>7, <1>8, <1>9, <1>10, <1>11, <1>12, <1>13, <1>14
  DEF Next

(* Getting off lists ends what was shared on purpose, and nothing is added. *)
LEMMA TakeOffKeepsOnPurpose ==
  ASSUME TypeOK, OnPurposeInv, NEW S, TakeOff(S), grants' = grants,
         loop'.made = loop.made,
         loop'.at = "revoking" => loop.at = "revoking" /\ loop'.chats = loop.chats
  PROVE  OnPurposeInv'
BY DEF OnPurposeInv, TakeOff, TypeOK

(* Every step keeps what was shared on purpose out of all records.          *)
LEMMA OnPurposeStep ==
  TypeOK /\ GoneInv /\ OnPurposeInv /\ [Next]_vars => OnPurposeInv'
<1> SUFFICES ASSUME TypeOK, GoneInv, OnPurposeInv, [Next]_vars PROVE OnPurposeInv'
  OBVIOUS
<1> USE ConvsHaveChats
<1>same. ASSUME UNCHANGED <<chatVars, grants>>, loop'.made \subseteq loop.made,
                loop'.at = "revoking" => loop.at = "revoking" /\ loop'.chats = loop.chats
         PROVE  OnPurposeInv'
  BY <1>same DEF OnPurposeInv, chatVars
<1>1. CASE UNCHANGED vars
  BY <1>1, <1>same DEF vars, dashVars
<1>2. ASSUME NEW c \in Chats, ShareChat(c) PROVE OnPurposeInv'
  BY <1>2 DEF ShareChat, Idle, OnPurposeInv, GoneInv, TypeOK
<1>3. ASSUME NEW c \in Chats, UnshareChat(c) \/ PurgeChat(c) PROVE OnPurposeInv'
  <2>1. UNCHANGED <<grants, loop>> /\ (TakeOff({c}) \/ UNCHANGED chatVars)
    BY <1>3 DEF UnshareChat, PurgeChat, dashVars
  <2> QED BY <2>1, <1>same, TakeOffKeepsOnPurpose
<1>4. ASSUME NEW c \in Chats, GrantChat(c) PROVE OnPurposeInv'
  <2>1. /\ loop'.made = loop.made \cup ({c} \ listed) /\ loop'.at = "granting"
        /\ listed \subseteq listed' /\ UNCHANGED <<granted, grants>>
        /\ madeBy' = IF c \in listed THEN madeBy ELSE [madeBy EXCEPT ![c] = "dash"]
    BY <1>4 DEF GrantChat, TypeOK, dashVars
  <2> QED BY <2>1 DEF OnPurposeInv, TypeOK
<1>5. ASSUME NEW v \in Convs, UnshareConversation(v) PROVE OnPurposeInv'
  <2> DEFINE c == ChatOf[v]
  <2>1. loop' = loop
    BY <1>5 DEF UnshareConversation
  <2>2. CASE UNCHANGED <<listed, granted, madeBy, grants>>
    BY <2>1, <2>2 DEF OnPurposeInv
  <2>3. CASE /\ \E d \in Needing(c) : grants' = [grants EXCEPT ![d] = @ \cup {c}]
             /\ granted' = granted \ {c} /\ UNCHANGED listed
             /\ madeBy' = [madeBy EXCEPT ![c] = "dash"]
    <3>1. ASSUME NEW e \in Chats, madeBy'[e] = "chat" PROVE e # c /\ madeBy[e] = "chat"
      BY <2>3, <3>1 DEF TypeOK
    <3>2. \A e \in Chats \ {c}, d \in Dashes : e \in grants'[d] => e \in grants[d]
      BY <2>3 DEF TypeOK
    <3> QED BY <2>1, <2>3, <3>1, <3>2 DEF OnPurposeInv
  <2>4. CASE TakeOff({c}) /\ UNCHANGED grants
    BY <2>1, <2>4, TakeOffKeepsOnPurpose
  <2> QED BY <1>5, <2>2, <2>3, <2>4 DEF UnshareConversation
<1>6. ASSUME NEW v \in Convs, ReadListed(v) PROVE OnPurposeInv'
  BY <1>6, <1>same DEF ReadListed, Idle, dashVars
<1>7. CASE ShareConversation
  <2>1. PICK v \in loop.conv :
          LET c == ChatOf[v] IN
          /\ listed' = listed \cup {c}
          /\ granted' = IF c \in listed \cup loop.chats THEN granted ELSE granted \cup {c}
          /\ madeBy' = IF c \in listed THEN madeBy ELSE [madeBy EXCEPT ![c] = "conv"]
    BY <1>7 DEF ShareConversation
  <2>2. grants' = grants /\ loop'.made = {} /\ loop'.at = "idle"
    BY <1>7 DEF ShareConversation, Idle, dashVars
  <2>3. ChatOf[v] \in Chats
    BY DEF TypeOK
  <2>4. ASSUME NEW e \in Chats, madeBy'[e] = "chat"
        PROVE  madeBy[e] = "chat" /\ (e \in granted' => e \in granted)
    BY <2>1, <2>3, <2>4 DEF TypeOK, OnPurposeInv
  <2> QED BY <2>1, <2>2, <2>4 DEF OnPurposeInv
<1>8. ASSUME NEW d \in Dashes, OpenShare(d) PROVE OnPurposeInv'
  BY <1>8, <1>same DEF OpenShare, dashVars
<1>9. ASSUME NEW d \in Dashes, ShareDashboard(d) PROVE OnPurposeInv'
  BY <1>9, <1>same DEF ShareDashboard, Idle
<1>10. ASSUME NEW d \in Dashes, RevokeSelect(d) PROVE OnPurposeInv'
  <2> DEFINE kept == {c \in grants[d] : Needing(c) \ {d} # {}}
  <2>1. PICK heir \in [kept -> Dashes] :
          grants' = [e \in Dashes |-> IF e = d THEN {}
                                     ELSE grants[e] \cup {c \in kept : heir[c] = e}]
    BY <1>10 DEF RevokeSelect
  <2>2. \A e \in Dashes : grants'[e] \subseteq grants[e] \cup grants[d]
    BY <2>1
  <2>3. loop'.made = {} /\ loop'.chats \subseteq grants[d] /\ UNCHANGED chatVars
    BY <1>10 DEF RevokeSelect, Idle
  <2> QED BY <2>2, <2>3 DEF OnPurposeInv, chatVars
<1>11. ASSUME NEW d \in Dashes, \E c \in Chats : PinTile(d, c) PROVE OnPurposeInv'
  BY <1>11, <1>same DEF PinTile
<1>12. ASSUME NEW d \in Dashes, DeleteDashboard(d) PROVE OnPurposeInv'
  BY <1>12 DEF DeleteDashboard, OnPurposeInv, TypeOK, chatVars
<1>13. ASSUME NEW d \in Dashes, PurgeDashboard(d) PROVE OnPurposeInv'
  BY <1>13, <1>same DEF PurgeDashboard
<1>14. CASE RecordGrants
  BY <1>14 DEF RecordGrants, Idle, OnPurposeInv, TypeOK, chatVars
<1>15. CASE RevokeChats
  <2>1. TakeOff(loop.chats) /\ grants' = grants
        /\ loop'.made = loop.made /\ loop'.at = "unlisting"
    BY <1>15 DEF RevokeChats, TypeOK, dashVars
  <2> QED BY <2>1, TakeOffKeepsOnPurpose
<1>16. CASE UnshareDashboard \/ RemoveAccount
  BY <1>16, <1>same DEF UnshareDashboard, RemoveAccount, Idle, dashVars
<1> QED
  BY <1>1, <1>2, <1>3, <1>4, <1>5, <1>6, <1>7, <1>8, <1>9, <1>10, <1>11, <1>12, <1>13,
     <1>14, <1>15, <1>16 DEF Next

-----------------------------------------------------------------------------
(* Who loses access, and by which step.                                     *)

(* Only five steps take a chat off the recipient's list: the two that       *)
(* remove it by name, and three ends of another share.                      *)
LEMMA WhoTakesOff ==
  ASSUME TypeOK, [Next]_vars, NEW c \in listed \ listed'
  PROVE  \/ UnshareChat(c) \/ PurgeChat(c)
         \/ c \in granted /\ Needing(c) = {}
         \/ loop.at = "revoking" /\ c \in loop.chats
<1> USE ConvsHaveChats
<1> c \in Chats
  BY DEF TypeOK
<1>1. ASSUME NEW e \in Chats, UnshareChat(e) \/ PurgeChat(e)
      PROVE  UnshareChat(c) \/ PurgeChat(c)
  <2>1. TakeOff({e})
    BY <1>1 DEF UnshareChat, PurgeChat, chatVars
  <2>2. e = c
    BY <2>1 DEF TakeOff
  <2> QED BY <1>1, <2>2
<1>2. ASSUME NEW v \in Convs, UnshareConversation(v)
      PROVE  c \in granted /\ Needing(c) = {}
  <2>1. /\ TakeOff({ChatOf[v]})
        /\ ChatOf[v] \in granted /\ Needing(ChatOf[v]) = {}
    BY <1>2 DEF UnshareConversation
  <2>2. c = ChatOf[v]
    BY <2>1 DEF TakeOff
  <2> QED BY <2>1, <2>2
<1>3. CASE RevokeChats
  BY <1>3 DEF RevokeChats, TakeOff
<1>4. ASSUME NEW e \in Chats, ShareChat(e) \/ GrantChat(e) PROVE FALSE
  BY <1>4 DEF ShareChat, GrantChat
<1>5. CASE ShareConversation
  BY <1>5 DEF ShareConversation
<1>6. ASSUME NEW d \in Dashes,
             \/ OpenShare(d) \/ ShareDashboard(d) \/ RevokeSelect(d)
             \/ DeleteDashboard(d) \/ PurgeDashboard(d)
             \/ \E e \in Chats : PinTile(d, e)
      PROVE  FALSE
  BY <1>6 DEF OpenShare, ShareDashboard, RevokeSelect, DeleteDashboard,
     PurgeDashboard, PinTile, chatVars
<1>7. ASSUME NEW v \in Convs, ReadListed(v) PROVE FALSE
  BY <1>7 DEF ReadListed, chatVars
<1>8. CASE UNCHANGED vars \/ RecordGrants \/ UnshareDashboard \/ RemoveAccount
  BY <1>8 DEF vars, RecordGrants, UnshareDashboard, RemoveAccount, chatVars
<1> QED
  BY <1>1, <1>2, <1>3, <1>4, <1>5, <1>6, <1>7, <1>8 DEF Next

-----------------------------------------------------------------------------
(* In every reachable state the variables hold values of their types.       *)
THEOREM TypeCorrect == Spec => []TypeOK
<1>1. Init => TypeOK
  BY DEF Init, TypeOK, Idle, NotOpened
<1> QED
  BY <1>1, TypeStep, PTL DEF Spec

(* The records of the three kinds of share stay consistent with each other  *)
(* and with what a handler between two of its lock sections is about to     *)
(* write or to revoke.                                                      *)
THEOREM Invariance == Spec => []LedgerInv
<1>1. Init => LedgerInv
  <2>1. Init => TypeOK
    BY DEF Init, TypeOK, Idle, NotOpened
  <2>2. Init => ConvRecordsAreLive /\ OnPurposeInv /\ RevokingInv /\ GoneInv
    BY DEF Init, Idle, ConvRecordsAreLive, OnPurposeInv, RevokingInv, GoneInv
  <2> QED BY <2>1, <2>2 DEF LedgerInv
<1>2. LedgerInv /\ [Next]_vars => LedgerInv'
  BY TypeStep, RecordsStep, OnPurposeStep, RevokingStep, GoneStep DEF LedgerInv
<1> QED
  BY <1>1, <1>2, PTL DEF Spec

(* Nobody is recorded for a conversation of a chat that does not list them, *)
(* and access a conversation share created can always be taken back.        *)
THEOREM RecordsAreLive == Spec => []ConvRecordsAreLive
<1>1. LedgerInv => ConvRecordsAreLive
  BY DEF LedgerInv
<1> QED
  BY <1>1, Invariance, PTL

(* A chat shared on purpose is only taken away by its own Remove or with    *)
(* the account.                                                             *)
THEOREM ChatSharesAreKept == Spec => ChatShareIsKept
<1>1. ASSUME LedgerInv, [Next]_vars, NEW c \in listed \ listed', madeBy[c] = "chat"
      PROVE  UnshareChat(c) \/ PurgeChat(c)
  <2>1. c \in Chats /\ TypeOK
    BY <1>1 DEF LedgerInv, TypeOK
  <2>2. c \notin granted /\ ~(loop.at = "revoking" /\ c \in loop.chats)
    BY <1>1, <2>1 DEF LedgerInv, OnPurposeInv
  <2> QED BY <1>1, <2>1, <2>2, WhoTakesOff
<1>2. LedgerInv /\ [Next]_vars =>
        [\A c \in listed \ listed' :
           madeBy[c] = "chat" => UnshareChat(c) \/ PurgeChat(c)]_vars
  BY <1>1
<1> QED
  BY <1>2, Invariance, PTL DEF Spec, ChatShareIsKept

(* Unsharing a dashboard or a conversation never closes a chat that another *)
(* dashboard, still shared with the recipient, shows a tile of.             *)
THEOREM NeededAccessStays == Spec => NeededAccessIsKept
<1>1. ASSUME LedgerInv, [Next]_vars, NEW c \in listed \ listed'
      PROVE  UnshareChat(c) \/ PurgeChat(c) \/ Needing(c) \subseteq loop.dash
  <2>1. TypeOK /\ RevokingInv
    BY <1>1 DEF LedgerInv
  <2>2. c \in loop.chats /\ loop.at = "revoking" => Needing(c) \subseteq loop.dash
    BY <2>1 DEF RevokingInv
  <2> QED BY <1>1, <2>1, <2>2, WhoTakesOff
<1>2. LedgerInv /\ [Next]_vars =>
        [\A c \in listed \ listed' :
           \/ UnshareChat(c) \/ PurgeChat(c)
           \/ Needing(c) \subseteq loop.dash]_vars
  BY <1>1
<1> QED
  BY <1>2, Invariance, PTL DEF Spec, NeededAccessIsKept
=============================================================================
