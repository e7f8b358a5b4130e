-------------------------------- MODULE Chat --------------------------------
(***************************************************************************)
(* The chat of customers with the admin (src/modules/chat/chat.service.ts, *)
(* chat.controller.ts, src/modules/wss/socket.gateway.ts): conversations   *)
(* and messages, and what is announced to the admin.                       *)
(*                                                                         *)
(* Each action is one query, with the emits that follow it.  Nothing sets  *)
(* isClosed.  Of the root admin it matters whether there is one.           *)
(***************************************************************************)
EXTENDS Integers, FiniteSets

CONSTANTS
    Clients,
    ChatCalls,      \* numbers; a conversation is named by the call that created it,
                    \* and findOne takes the one with the lowest id
    Nobody

ASSUME ChatAssumption == ChatCalls \subseteq Nat /\ Nobody \notin ChatCalls /\ Nobody \notin Clients

VARIABLES
    rootAdmin,       \* there is an admin to chat with
    conversation,
    messages,        \* how many each conversation has
    chat,            \* the calls
    announced,       \* conversations announced to the admin's room
    \* history
    chatOverlapped,  \* calls to open a conversation have overlapped
    direct,          \* conversations a message was sent to over HTTP
    broken           \* conversations for which a call died or failed

chatVars == <<rootAdmin, conversation, messages, chat, announced, chatOverlapped, direct, broken>>

Conversation == [client : Clients \cup {Nobody}, hasAdmin : BOOLEAN]
NoConversation == [client |-> Nobody, hasAdmin |-> FALSE]
FreshChat == [pc |-> "idle", client |-> Nobody, id |-> Nobody, first |-> FALSE, socket |-> FALSE]
ChatEnded == [FreshChat EXCEPT !.pc = "ended"]

Busy(c) == chat[c].pc \notin {"idle", "ended"}
Opening == {c \in ChatCalls : chat[c].pc \in {"admin", "create"}}
Of(client) == {k \in ChatCalls : conversation[k].client = client}
Known == {k \in ChatCalls : conversation[k] # NoConversation}

ChatInit ==
    /\ rootAdmin \in BOOLEAN
    /\ conversation = [k \in ChatCalls |-> NoConversation]
    /\ messages = [k \in ChatCalls |-> 0]
    /\ chat = [c \in ChatCalls |-> FreshChat]
    /\ announced = {}
    /\ chatOverlapped = FALSE
    /\ direct = {}
    /\ broken = {}
-----------------------------------------------------------------------------
(* getOrCreateConversation *)

\* One that is there is answered; the admin is looked up all the same.
FindConversation(c) ==
    /\ chat[c].pc = "idle"
    /\ \E client \in Clients :
          chat' = [chat EXCEPT ![c] = IF Of(client) # {} THEN ChatEnded
                                      ELSE [FreshChat EXCEPT !.pc = "admin", !.client = client]]
    /\ chatOverlapped' = (chatOverlapped \/ Opening # {})
    /\ UNCHANGED <<rootAdmin, conversation, messages, announced, direct, broken>>

\* findRootAdmin: admin?.id may be undefined.
FindRootAdmin(c) ==
    /\ chat[c].pc = "admin"
    /\ chat' = [chat EXCEPT ![c] = [@ EXCEPT !.pc = "create", !.first = rootAdmin]]
    /\ UNCHANGED <<rootAdmin, conversation, messages, announced, chatOverlapped, direct, broken>>

CreateConversation(c) ==
    /\ chat[c].pc = "create"
    /\ conversation' = [conversation EXCEPT ![c] = [client |-> chat[c].client, hasAdmin |-> chat[c].first]]
    /\ chat' = [chat EXCEPT ![c] = ChatEnded]
    /\ UNCHANGED <<rootAdmin, messages, announced, chatOverlapped, direct, broken>>

\* The first admin is registered.
RootAdminCreated ==
    /\ ~rootAdmin
    /\ rootAdmin' = TRUE
    /\ UNCHANGED <<conversation, messages, chat, announced, chatOverlapped, direct, broken>>
-----------------------------------------------------------------------------
(* handleSendMessage, of the socket, and sendMessage, of the controller *)

CountMessages(c) ==
    /\ chat[c].pc = "idle"
    /\ \E k \in Known :
          chat' = [chat EXCEPT ![c] = [FreshChat EXCEPT !.pc = "touch", !.id = k,
                                                        !.first = messages[k] = 0, !.socket = TRUE]]
    /\ UNCHANGED <<rootAdmin, conversation, messages, announced, chatOverlapped, direct, broken>>

SendOverHttp(c) ==
    /\ chat[c].pc = "idle"
    /\ \E k \in Known :
          /\ chat' = [chat EXCEPT ![c] = [FreshChat EXCEPT !.pc = "touch", !.id = k]]
          /\ direct' = direct \cup {k}
    /\ UNCHANGED <<rootAdmin, conversation, messages, announced, chatOverlapped, broken>>

\* createMessage finds the conversation and the sender, and saves lastMessageAt.
TouchConversation(c) ==
    /\ chat[c].pc = "touch"
    /\ chat' = [chat EXCEPT ![c] = [@ EXCEPT !.pc = "insert"]]
    /\ UNCHANGED <<rootAdmin, conversation, messages, announced, chatOverlapped, direct, broken>>

\* Mutant: the messages are counted when this one is stored already.
Announces_CountedAfter(c) == chat[c].socket /\ messages[chat[c].id] + 1 = 0

\* The socket announces the conversation if it counted no message before.
Announces(c) == chat[c].socket /\ chat[c].first

\* The message is emitted to the room of its conversation once it is stored.
InsertMessage(c) ==
    /\ chat[c].pc = "insert"
    /\ messages' = [messages EXCEPT ![chat[c].id] = @ + 1]
    /\ chat' = [chat EXCEPT ![c] = IF Announces(c) THEN [@ EXCEPT !.pc = "announce"] ELSE ChatEnded]
    /\ UNCHANGED <<rootAdmin, conversation, announced, chatOverlapped, direct, broken>>

\* getConversationById fails without a root admin, or if the conversation is not his.
Announce(c) ==
    /\ chat[c].pc = "announce"
    /\ LET k == chat[c].id
       IN announced' = IF rootAdmin /\ conversation[k].hasAdmin THEN announced \cup {k} ELSE announced
    /\ chat' = [chat EXCEPT ![c] = ChatEnded]
    /\ UNCHANGED <<rootAdmin, conversation, messages, chatOverlapped, direct, broken>>

ChatDies(c) ==
    /\ Busy(c)
    /\ chat' = [chat EXCEPT ![c] = ChatEnded]
    /\ broken' = IF chat[c].id = Nobody THEN broken ELSE broken \cup {chat[c].id}
    /\ UNCHANGED <<rootAdmin, conversation, messages, announced, chatOverlapped, direct>>

ChatNext ==
    \/ RootAdminCreated
    \/ \E c \in ChatCalls :
          \/ FindConversation(c) \/ FindRootAdmin(c) \/ CreateConversation(c)
          \/ CountMessages(c) \/ SendOverHttp(c) \/ TouchConversation(c) \/ InsertMessage(c)
          \/ Announce(c) \/ ChatDies(c)

ChatSpec == ChatInit /\ [][ChatNext]_chatVars
-----------------------------------------------------------------------------
ChatTypeOK ==
    /\ rootAdmin \in BOOLEAN
    /\ conversation \in [ChatCalls -> Conversation]
    /\ messages \in [ChatCalls -> Nat]
    /\ chat \in [ChatCalls -> [pc : {"idle", "admin", "create", "touch", "insert", "announce", "ended"},
                           client : Clients \cup {Nobody}, id : ChatCalls \cup {Nobody},
                           first : BOOLEAN, socket : BOOLEAN]]
    /\ announced \subseteq ChatCalls /\ direct \subseteq ChatCalls /\ broken \subseteq ChatCalls
    /\ chatOverlapped \in BOOLEAN

\* getAllConversations: those of the root admin that have a message.
AllConversations == {k \in Known : rootAdmin /\ conversation[k].hasAdmin /\ messages[k] > 0}

(* When no call is under way, each conversation in the admin's list was     *)
(* announced, however the first messages overlapped, unless a call for it   *)
(* died or a message came over HTTP, which announces nothing.  And a client *)
(* has one conversation, unless two requests for it overlapped.             *)
ListedWereAnnounced ==
    (\A c \in ChatCalls : ~Busy(c)) =>
        /\ AllConversations \ (direct \cup broken) \subseteq announced
        /\ ~chatOverlapped => \A client \in Clients : Cardinality(Of(client)) <= 1
=============================================================================
