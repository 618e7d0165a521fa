----------------------------- MODULE MCServices -----------------------------
(***************************************************************************)
(* The services around the receptionist for TLC.  Services that share no   *)
(* state are checked one at a time: the initial state chooses one, and the *)
(* others stand still.                                                     *)
(***************************************************************************)
EXTENDS CustomerMemory, HomepageChat, ApprovedFaqs, BookingJobs, TLC

CONSTANTS
  b1,  \* the conversation that the customer has had
  w1   \* the call that the customer is in

\* The start of the memory's service has room for both on the first day.
ASSUME StartAssumption ==
  /\ b1 \in Browsers /\ w1 \in WhatsAppCalls
  /\ {"first", "second", "third"} \subseteq Challenges
  /\ DailyLimit >= 2

VARIABLES
  service  \* the service that is at work

servicesVars ==
  <<conversationVars, leadsVars, accessVars, memoryVars, chatVars, faqsVars, jobsVars, now, service>>

Services == {"conversations", "desk", "access", "memory", "chat", "faqs", "jobs"}

\* A customer who has enrolled, has one recovery code and is signing in again.
Enrolment ==
  /\ factor = [secret |-> "first", version |-> 2, counter |-> 0, failed |-> 0,
               lockedUntil |-> 0]
  /\ challenges = [ch \in {"first", "second"} |->
       IF ch = "first"
       THEN [purpose |-> "ENROLL", version |-> 1, attempts |-> 0, expires |-> ChallengeTicks,
             open |-> FALSE]
       ELSE [purpose |-> "VERIFY", version |-> 2, attempts |-> 0, expires |-> ChallengeTicks,
             open |-> TRUE]]
  /\ logins = [ch \in {"first"} |->
       [version |-> 2, code |-> <<"first", 0>>, expires |-> LoginTicks, revoked |-> FALSE]]
  /\ recoveryCodes = {"first"} \X RecoveryCodes

\* The customer has had a conversation in the browser and speaks on WhatsApp now.
Conversing ==
  /\ conversations = [c \in {b1, w1} |->
       IF c = b1
       THEN [status |-> "CONFIRMED", created |-> 0, expires |-> SessionLength,
             window |-> ConfirmWindow, authorized |-> 0, ended |-> TRUE]
       ELSE [status |-> "AUTHORIZED", created |-> 0, expires |-> SessionLength,
             window |-> SessionLength, authorized |-> 0, ended |-> FALSE]]
  /\ bindings = [w \in {w1} |->
       [initialized |-> 0, expires |-> SessionLength, finalized |-> FALSE]]
  /\ confirmedAt = [c \in {b1} |-> 0]
  /\ phones = Nothing

\* The lead that a conversation has left.
OldLead ==
  /\ leads = [c \in {b1} |-> "NEW"]
  /\ handoffs = Nothing

Init ==
  /\ service \in Services
  /\ now = 0
  /\ IF service \in {"desk", "memory"} THEN OldLead ELSE LeadsInit
  /\ IF service = "memory" THEN Conversing /\ Enrolment ELSE ConversationsInit /\ AccessInit
  /\ MemoryInit
  /\ ChatInit
  /\ FaqsInit
  /\ JobsInit

\* The bound of the queues: rows get no time later than one tick after the clock's last.
LastJobTick == 1

Advance ==
  /\ service \notin {"desk", "faqs"}
  /\ service = "jobs" => now < LastJobTick
  /\ Tick
  /\ UNCHANGED <<conversationVars, leadsVars, accessVars, memoryVars, chatVars, faqsVars,
                 jobsVars, service>>

\* The bound of the conversations: so many of the two in the browser, the call on WhatsApp and the
\* one on the phone.
MostConversations == 3

ConversationsWork ==
  /\ service = "conversations"
  /\ ConversationsNext
  /\ Cardinality(DOMAIN conversations' \cup DOMAIN bindings' \cup DOMAIN phones')
       <= MostConversations
  /\ UNCHANGED <<accessVars, memoryVars, chatVars, faqsVars, jobsVars, service>>

DeskWork ==
  /\ service = "desk"
  /\ Desk
  /\ UNCHANGED <<conversationVars, accessVars, memoryVars, chatVars, faqsVars, jobsVars, now, service>>

AccessWork ==
  /\ service = "access"
  /\ AccessNext
  /\ UNCHANGED <<conversationVars, leadsVars, memoryVars, chatVars, faqsVars, jobsVars, service>>

\* The memory, while the call on WhatsApp goes on and the customer may lose the authenticator.
MemoryWork ==
  /\ service = "memory"
  /\ \/ MemoryNext
     \/ /\ ConfirmIntake(w1) \/ EndSession(w1) \/ Finalize(w1)
        /\ UNCHANGED <<accessVars, memoryVars>>
     \/ /\ \E code \in recoveryCodes : Recover("second", "third", code)
        /\ UNCHANGED <<conversationVars, leadsVars, memoryVars>>
  /\ UNCHANGED <<chatVars, faqsVars, jobsVars, service>>

ChatWork ==
  /\ service = "chat"
  /\ ChatNext
  /\ UNCHANGED <<conversationVars, leadsVars, accessVars, memoryVars, faqsVars, jobsVars, service>>

FaqsWork ==
  /\ service = "faqs"
  /\ FaqsNext
  /\ UNCHANGED <<conversationVars, leadsVars, accessVars, memoryVars, chatVars, jobsVars, service>>

JobsWork ==
  /\ service = "jobs"
  /\ JobsNext
  /\ \A r \in DOMAIN waiting' : waiting'[r].due <= LastJobTick + 1
  /\ UNCHANGED <<conversationVars, leadsVars, accessVars, memoryVars, chatVars, faqsVars, service>>

Next ==
  \/ Advance \/ ConversationsWork \/ DeskWork \/ AccessWork \/ MemoryWork \/ ChatWork
  \/ FaqsWork \/ JobsWork

Spec == Init /\ [][Next]_servicesVars

\* Every row has the values the tables allow, and rows refer to rows that exist.
TypeOK ==
  /\ ConversationsTypeOK /\ LeadsTypeOK /\ AccessTypeOK /\ MemoryTypeOK
  /\ ChatTypeOK /\ FaqsTypeOK /\ JobsTypeOK

\* Two with the same words, one that adds a word, and a short one.
SomeQuestions ==
  {<<"new", "boiler", "price">>, <<"price", "of", "new", "boiler">>,
   <<"new", "boiler", "price", "today">>, <<"price">>}

\* Three bindings and a connection.
SomeQueues == (1 :> Bindings) @@ (2 :> Bindings) @@ (3 :> Bindings) @@ (4 :> Connections)

\* Nothing tells one runner from another.
RunnersAlike == Permutations(Runners)
=============================================================================
