# Formal models of the HVAC receptionist's backend

TLA+ models of `apps/backend` of this repository, checked with TLC and proved with TLAPS.
They cover three parts of the system: the booking of technicians with its calendars and
e-mail; inbound phone calls with their receptionist, leads and handoffs; and the services
around them (conversations in the browser and on WhatsApp, customers' sign-in, memory,
homepage chat, approved answers, batches of background work).

Paths below are relative to `src/apps/backend/src/insurance_operations/`.

## The system

| component | state | operations | how it interacts |
|---|---|---|---|
| Scheduling service `hvac/service.py` | `business_schedules`, `hvac_service_requests`, `hvac_appointments`, audit rows | configure, create_request, get_availability, reserve, confirm, release_hold, flag_hazard, cancel, reschedule | called by staff routes, customer routes, the browser conversation and the phone agent; calls calendar synchronisation and the outbox inside its transactions |
| Availability `hvac/availability.py` | none | candidate_slots, overlaps | pure |
| Booking limits `hvac/booking_limits.py` | none; counts appointments and audit rows | capacity and change checks | called by the scheduling service |
| Calendar synchronisation `hvac/calendar_sync.py`, `hvac/calendar.py` | `calendar_bookings`, events at Google | check a slot, bind, publish, reconcile | called by handlers, jobs and deliveries |
| Google connections `hvac/google_connection.py`, `hvac/integration_routes.py` | `calendar_connections`, `calendar_authorizations` | authorize, launch, callback, disconnect, probe | staff; OAuth at Google |
| Booking e-mail `notifications/booking.py` | `booking_notifications` | enqueue, suppress, deliver in two transactions | queued by handlers, delivered by jobs through Resend |
| Delivery events `notifications/email_events.py` | `booking_email_events` | receive a webhook, apply the worst report | Resend; reminders depend on the outcome |
| Jobs `booking_jobs.py`, `job_execution.py`, `worker.py`, `job_api.py` | an advisory lock, deadlines | collect a batch, run it | a worker that polls, or HTTP calls |
| Customer routes `customer_access/bookings.py`, conversations' `booking.py`, `hvac/phone.py` | proposals of a conversation | the handlers of the scheduling service | browser, voice, phone |
| Conversation sessions `conversations/service.py` | `conversation_sessions`, confirmed intakes, leads | authorize in three steps, end, confirm the intake | browser; the voice provider between two transactions |
| Inbound calls `telephony/service.py` | `inbound_calls`, events, policy, number | receive, apply events, link a lead | ingress, phone receptionist; staff, who simulate calls and send events and leads to any call |
| Phone receptionist `telephony/phone_service.py` | phone sessions, receipts, dialed transfers | consent, readback, callback, transfer, transfer result, post-call report | tools called by the voice agent; webhooks of Twilio and ElevenLabs |
| Ingress `telephony/ingress.py`, `telephony/sip.py`, `telephony/providers/` | a cache of TwiML | verify and translate webhooks | calls the two above |
| WhatsApp `whatsapp/` | `whatsapp_conversations` | initialize, consent, intake, callback, finalize | shares limits with the sessions of browser and phone |
| Leads `leads/service.py` | leads, handoff requests, idempotency records | status, handoff | staff; written by every confirmed conversation and call |
| Approved FAQs `approved_faqs/service.py` | `agency_approved_faqs` | create, update, set status, match | staff; looked up by browser, phone and WhatsApp |
| Receptionist settings `receptionist/` | one row | replace | staff |
| Customer login and MFA `customer_access/` | sessions, factors, challenges, recovery codes, attempt windows | sign in, enrol, verify, recover, cancel, log out | browser; a WhatsApp link needs the present factor |
| Customer memory `customer_memory/` | policy, facts, summaries, WhatsApp identity, pairings | consent, erase, save, remember, view, purge, pair, recognise | reads confirmed intakes; browser and WhatsApp |
| Homepage chat `homepage_chat/` | visitors, daily usage | reserve, answer, settle | guests; a language model |
| Voice relay, application shell, database, web frontend | | | |

What is hard in it:

* Rows keep saying what is no longer so: a hold that lapsed is `HELD`, a session past its time
  `AUTHORIZED`.
* A reschedule, a transfer, an authorization, a delivery are several transactions with a
  provider between them, and everything else runs there too.
* Google, Twilio and the e-mail provider take no part in the database's transactions: an event
  stays when the handler that wrote it rolls back, a transfer may be commanded or not when the
  process dies.
* Webhooks come late, twice, in any order or never: the transfer result before or after the
  post-call report, the post-call report before or after the session expired.
* People work on the same rows: they edit calendars, complete handoffs, save policies, send events
  to calls that the provider reports of.
* Counters and limits are shared: calls at a time, sessions a day, wrong codes of two browsers.
* A runner may lose its lock without noticing.

`PROJECT.json` lists these hazards at their lines, with the properties that guard them.

What makes each component correct: no team twice at a time, one appointment per request, no
booking of a dangerous request, limits kept (scheduling); every future booking of a connected
team is bound, its event can be found, nothing is deleted that a person has changed, nothing is
left behind (calendars); each message at most once, only while it is true, and every row settles
(e-mail); a confirmed caller becomes exactly one lead, a promised callback is in the handoffs, a
call that is over stays over and returns its place (calls); starts within the limits and a closed
session never opens (conversations); one login per code, none for an older factor, every wrong
code counted (sign-in); what was forgotten stays forgotten (memory); one answer per guest (chat);
a question asked in an answer's own words gets it or, if others are as near, none (FAQs); a row
that is due is not overtaken (jobs).

## Modules

```
BookingData            rows of the scheduling tables, availability, limits
  CalendarSync         connections, bindings, Google's events; jobs, routes, people
    BookingNotifications   outbox, delivery, provider, webhooks
      Scheduling       handlers of SchedulingService, the clock
        BookingSystem  everything interleaved; the properties   --> Bookings (abstract)
          MCBooking    small instances for TLC
          BookingSystem_proofs       types, no double booking, what a step does to appointments
            BookingCalendar_proofs   bindings and events
            BookingMail_proofs       the outbox
            BookingPromises_proofs   limits; BookingSystem implements Bookings

Tables                 tables as functions, the clock
  Leads                leads and handoffs, the desk
    InboundCalls       policy, reception, the state machine of a call
      PhoneReceptionist    tools, transfers, post-call reports
        PhoneSystem    everything interleaved with staff; the properties
          MCPhone      small instances for TLC
          PhoneSystem_proofs     theorems
    Conversations      browser and WhatsApp conversations
      CustomerMemory   (also extends CustomerAccess) consent, facts, summaries, WhatsApp link
        Conversations_proofs     (also extends CustomerAccess_proofs) theorems about both
  CustomerAccess       sign-in with a second factor
    CustomerAccess_proofs   theorems
  HomepageChat         one answer per guest
  ApprovedFaqs         which answer a question is given
  BookingJobs          queues, batches, the advisory lock
    MCServices         all services put together, one at work at a time; instances for TLC
      Services_proofs  (also extends Conversations_proofs) theorems about these three and all
```

The modules extend one another in the direction of the data: what a handler calls inside its
transaction (`ExternalSlotFree`, `CanPublish`, `Enqueued`, `ApplyEvent`, `AddLead`, ...) is an
operator of the module of the callee, and the handler is one action with all its effects.

State and code:

| variable | code |
|---|---|
| `now` | wall-clock time, in ticks |
| `schedule` | the agency's `business_schedules` row; version 0 stands for no row |
| `requests` | `hvac_service_requests`: status and `hazardous_condition` |
| `appointments` | `hvac_appointments`, named by the idempotency key, which is unique per agency |
| `rescheduled` | appointments named by `HVAC_APPOINTMENT_RESCHEDULED` audit rows |
| `connections`, `exchanging` | `calendar_connections` by team; callbacks between their two transactions |
| `bindings` | `calendar_bookings` by appointment |
| `events`, `outside` | Google: the events the program wrote, other people's busy periods |
| `notifications` | `booking_notifications` by appointment and kind, which is a unique constraint |
| `mailed`, `receipts` (booking) | what the e-mail provider has sent; `booking_email_events` |
| `moves` | reschedules between their two transactions: the local variables of running calls |
| `leads`, `handoffs` | `agency_leads`, `lead_handoff_requests` |
| `policy` (calls), `numberActive` | `agency_call_policies`, `agency_inbound_numbers` |
| `calls`, `callEvents` | `inbound_calls` with its policy snapshot, `inbound_call_events` by key |
| `sessions`, `receipts` (calls) | `conversation_sessions` of phone calls; the confirmed readback kept in a session's metadata |
| `requests` | requests for a person between the transaction that checks the session and the one that applies the event |
| `dials`, `reconciling` | transfers Twilio was asked for; transfer results between their two transactions |
| `conversations`, `bindings`, `confirmedAt` (services) | `conversation_sessions` of browser and WhatsApp, `whatsapp_conversations`, `conversation_intakes` |
| `phones` | `conversation_sessions` of the phone, as far as the limits count them: when they began and how long they hold the place |
| `factor`, `challenges`, `logins`, `recoveryCodes` | the tables of `database/models/customer_mfa.py`, login sessions |
| `policy` (memory), `facts`, `summaries`, `link`, `pairings`, `linkedCalls` | the tables of `database/models/customer_memory.py` |
| `visitors`, `generations`, `handlers` | `homepage_chat_visitors`, daily usage, requests that talk to the model |
| `faqs` | `agency_approved_faqs` |
| `waiting`, `batches` | rows of the three job queries with the time they wait for; batches under way |

`forgotten`, `messages` and the fields `passed` and `served` are history variables: no guard reads
them.

### What an action stands for

A transaction that holds a lock which all its rivals take is one action. In the booking part that
is the agency's `business_schedules` row, in reception the policy's row, for events the row of the
call, for starts of conversations the agency's row, in sign-in the factor's row, in the memory the
policy's row. A handler that makes several transactions is one action for each, and what it knows
in between is kept in a variable (`moves`, `requests`, `dials`, `reconciling`, `REQUESTING`,
`handlers`, `batches`). Its death is that nothing continues, or an action of its own
(`LoseTransferCommand`, `Die`, `BreakOff`, the actions named `...Lost` and `...Crashed`). Agencies
share no rows, so one is modelled; of customers, one, since accounts share none either.

The calls to Google inside a transaction belong to its action. People are not held off by the
lock; `publish_confirmation` looks at the calendar again after writing, and the actions named
`...Lost` are the runs in which a write to Google survives and the transaction does not.

A refused call is a step that changes nothing, and a replayed call returns what is there:
neither is an action, save where a replay has effects of its own (a repeated inbound webhook
registers the call again, `RegistrationFails`; a repeated transfer result reconciles again,
`Reconcile`).

The routes for staff under `/api/v1/development` ask for the agency of a call, not for its
adapter, so `StaffEvent` and `LinkLead` reach calls on the phone as well as simulated ones.
`request_handoff()` is `AskForPerson`, which checks the session, and `RequestCallback` or
`RequestTransfer`, which applies the event whatever happened in between; a request that is slow,
or whose handler died, stays in `requests`.

A job that takes its row out of the queue or gives it a later time is `ServeRow`. `LeaveRow` is one
that changes nothing: the row is not due any more, the job raises, or the agency's row is locked
(`skip_locked` in the jobs of bindings and connections, the lock timeout of 250 ms in a delivery).
Handlers add and re-time rows (`Schedule`), connect a calendar (`Connect`), and suppress messages or
disconnect a calendar (`WithdrawRow`). A connection that was never checked comes before all
others.

Conversations on the phone begin without the checks of the two limits (`accept_consent()`), and the
checks of the others count them. `Conversations` has them as `PhoneBegins` and `PhoneEnds`, with the
time for which they hold the place; what is said in them is the matter of `PhoneReceptionist`.

### Abstractions

* Times are ticks. A slot is `[team, start, end]`, and a configuration says which slots its
  business hours and buffers produce (`grid`) and which requests its postal codes cover
  (`served`). `CandidateSlots` keeps the conditions that depend on when one asks. The
  availability windows of a call policy are the ticks they contain (`staffed`).
* In the booking modules `next_attempt_at` and back-off are left out: a job may run whenever the
  rest of its condition holds. The due time of a reminder is kept. `BookingJobs` has the times and
  leaves out what the jobs do.
* A call and its lead and handoff bear one name, as they are unique to it in the database.
* Staff give their events keys of their own; the model has one key for all of them, which is never
  answered from the store, so that any number of them may come. Of staff's events only those
  are kept that `requested_handoff_kind()`, `transfer_was_attempted()` or
  `successful_transfer_event()` read later: four types, on calls on the phone (`ReadAfterCall`).
* A secret is the challenge it was made for and a code the pair of secret and tick; other digits
  are a wrong code. Two secrets whose digits agree by chance are left out.
* A question is the sequence of its normalised words; scores are compared as fractions.
* A batch of jobs is a set, of which each member knows its turn among its kind; `Precedes` is the
  order in which `zip_longest()` puts them. That a batch leaves a row out is kept with the time
  at which the row was due (`PassedOver`), which no two rows of a queue share (`Distinct`).
* Message texts, addresses, tokens, transcripts, digests and audit rows other than the ones the
  limits count are left out; so is the throttling of sign-in, which only refuses.
* An outage of a provider before it has done anything changes nothing and is a stuttering step.

### Bounds

`MaxTime` stops the clock and `MaxVersion` the saving of settings; both are guards (`Tick`,
`Configure`). In `services` the jobs get no time after `LastJobTick` + 1, and of the conversations
(two browsers, WhatsApp, phone) `MostConversations` begin, any three of the four. In `calls` the
constraint `OneBusyCall` stops a branch where two calls are in the table and one of them has kept
an event of staff or has asked for a person; a call that is alone, and one that the other joins
before that, have no such bound. All other sets are constants. A state at the end of the clock,
with all names used, has nothing left to do, so the configurations say `CHECK_DEADLOCK FALSE`.

## Runs

| run | instance | question |
|---|---|---|
| `scheduling` | 2 requests (one owned by a customer), 2 keys, 2 teams, overlapping slots, two settings | is a team ever promised twice; does the service implement `Bookings` |
| `rescheduling` | 2 requests, 3 keys, 1 slot | do retries and competing reschedules leave one appointment and one replacement; does a lapsed hold come back |
| `customer_limit` | one customer with 2 requests, 3 keys, adjacent slots, website only | are both limits kept |
| `staff_reschedule` | the same with staff | **violation**, see below |
| `calendar` | 2 keys, 1 team, 2 calendars, people editing | are bindings, events and connections consistent |
| `cleanup` | 2 keys, 1 calendar, fairness of the jobs | are events of dead appointments removed |
| `calendar_mail` | 1 key, 1 calendar with a busy period, mail | confirmation together with its event; mail waits for the calendar |
| `mail` | 1 key, mail and reports, fairness of deliveries | at most once, reminders after receipts, every row settles |
| `mail_move` | 2 keys, mail | nothing false is sent when an appointment moves |
| `calls` | one phone call (Twilio or SIP) and one simulated call, two policies, 3 ticks, a maximum duration of one, staff events and leads on both | are leads, handoffs, results and places in the limits consistent |
| `handled` | 1 Twilio call, a policy with transfer and callback | **violation**, see below |
| `services` | per service: 2 browser, 1 WhatsApp and 1 phone conversations; 3 challenges and 2 attempts; a customer with memory and both of the former; 2 guests with 2 requests; 3 answers of 4 questions; 3 bindings and a connection, 2 runners and batches of 2 | the promises of each service |

Why the bounds are enough for what they ask. Bookings: a collision takes two appointments, a
reschedule a third that interferes; a hold lasts one tick and three ticks pass, so a hold can
lapse, be replaced and the replacement lapse; two slots that overlap without starting together
and a second team tell apart the ways in which a conflict test can be wrong; a saved
configuration can withdraw a slot while it is held. A calendar is told from the next by two of
them. The retry window (1) is shorter than the provider's memory (2) as in the code (23 and 24
hours), and a job can die in between. Keys are symmetric: no action compares them. Liveness runs
use no symmetry.

Calls: calls meet only in the limits, in which two suffice: one that waits and one that comes.
Three ticks let a call be within its duration and beyond it, and days of two ticks put calls on
the same day and on different ones. What staff do to a call on the phone touches that call alone, so
one call is enough for it (`OneBusyCall`); the limits are counted with both. The run has 1.9 million
states. The inductive invariant of the proofs was checked on it as well.

Services: a limit of one conversation at a time is met by two, a third comes from WhatsApp.
Challenges: one that enrols, one that answers, one that recovery opens; a lock lasts as long as a
challenge at least, as in the code. For the memory the run begins with a customer who has enrolled,
has a confirmed conversation and speaks on WhatsApp, a state the other services reach. Three
bindings and a batch of two are the fewest of which one is left out, and a connection puts the jobs
of two queues into one batch; any job may leave its row. `services` has two million states. It
chooses one service in its initial state, because those that share no state need not be
interleaved.

`staff_reschedule`: `_reserve()` does not check the customer's limit for a replacement, on the
grounds that the original already uses a place (`docs/customer-booking-limits.md`). A hold that
has expired uses none, and `_allow_change()` lets staff reschedule it. So: a hold of the first
request expires, the second request takes the place, staff reschedule the first. Customers
cannot get there themselves, since their route wants a confirmed appointment
(`customer_access/bookings.py`); `customer_limit` shows that.

`handled`: `_reconcile_materialized_transfer()` writes kind, status and times of a call's handoff
whatever its status is. When the post-call report has made the handoff, staff cancel or complete
it, and Twilio's result of the transfer comes then, the handoff is `REQUESTED` again, or
`COMPLETED` although it was cancelled. `docs/lead-handoff-api.md` says that both are terminal.

### Observations that are not violations

* Cancelling a left-over or expired hold sets its request to `OPEN` even while another
  appointment of the request is confirmed, and cancelling after a danger was reported turns
  `HANDOFF_REQUESTED` into `OPEN`. No booking follows from it, because bookings look at the
  hazard flag and at other appointments of the request (`DangerIsNotBooked`,
  `OneBookingPerRequest`); `OneBookingPerRequest` for that reason says only that a request that
  is `BOOKED` has an appointment and not the converse.
* `reschedule()` does not ask in its second transaction whether the new time has passed, as
  `confirm()` does; with a hold of five minutes it matters only when no notice is required.
* `flag_hazard()` leaves a confirmed appointment in place.
* Delivering a cancellation reconciles a binding that is already final, which can turn a
  disconnected calendar into one that asks for authorisation.
* A call whose transfer was attempted may occupy a place for ever: the process dies between
  storing the request and commanding the transfer, or the post-call report comes before a
  transfer result that failed. `PlaceIsReturned` therefore excepts calls with a transfer.
* `finish_call()` fails a call that lasted too long even when it had ended as `TRANSFERRED`,
  and the failure of an initiation overwrites any status; `EndedStaysEnded` says only
  that no ended call becomes active and that a failed one stays failed.
* A recovery code ends every login at once, but the lost authenticator's secret stays valid for
  signing in until the replacement is enrolled.
* A handler of the homepage chat that dies before it sends anything leaves its visitor without
  an answer for thirty days; the model allows it, since `AnsweredOnce` is an upper bound.
* A job that raises, or finds the row of its agency locked, leaves its row where it was, before
  those that became due later. While the lock is held a batch may serve nobody and still be
  "completed"; and if as many rows keep failing as a batch holds, the others of the queue wait for
  ever. Nothing in the code bounds either. `TurnsCome` therefore counts only the batches that serve
  some row of the queue, and says that these overtake no row more often than the queue has rows
  beyond a batch.
* A connection that was never checked comes before all others, and one that is connected again
  keeps its old time of checking: handlers can put rows in front. `TurnsCome` is about messages and
  bindings, where no handler can.
* Staff may link a lead to a call on the phone that collects a callback. That writes the call's
  handoff; the post-call report of a confirmed intake writes another and collides with it
  (`inbound_call_id` is unique), however often it is repeated. The receipt then never becomes a
  lead. `ReceiptsBecomeLeads` holds all the same, since the report is never stored.
* Staff may say of a call on the phone that its transfer succeeded after Twilio has reported that
  it failed, or the other way round. Twilio's result is in the handoff all the same
  (`ResultReachesHandoff`). A success that staff report completes the handoff which the post-call
  report makes later, and is not carried over to one that exists.
* A conversation on the phone begins whatever the limits of conversations say: it may run beside a
  browser's, and be one more than the day's number. `ConversationLimits` is about the conversations
  that are checked.

## Fairness

* `CalendarJobsRun`: for each booking, weak fairness of the job's successful clean-up. The
  worker polls for ever, and a calendar that is connected answers in the end. What the job
  cannot do (a person has moved the event, access is revoked) disables the action, and
  `OrphansAreRemoved` excuses it. The fairness takes for granted that the job of the booking is
  served in the end: that its queue is not full of rows that keep failing, and the agency not always
  locked when its turn comes. `TurnsCome` needs no fairness: it counts the completed batches that
  serve a queue and leave a row of it out.
* `DeliveryJobsRun`: time passes; for each message, weak fairness of the delivery's outcomes:
  drop, stamp, an answer of the provider (accepted or rejected), give up, and of applying
  reports. Losing an answer and crashing are never required and never ruled out.
  `EveryNoticeSettles` is checked without calendars: a message whose calendar needs attention
  waits for a person, by design.
* The phone and the services have none: nothing in the code makes a provider's webhook come or a
  customer go on, so there is nothing that must eventually happen.

## Proofs

Eight modules hold theorems, for all values of the constants under the assumptions named in the
modules.

| theorem | statement |
|---|---|
| *BookingSystem_proofs* | |
| `TypeCorrect` | `Spec => []TypeOK` |
| `NeverDoubleBooked` | `Spec => []NoDoubleBooking` |
| `OneBookingAlways` | `Spec => []OneBookingPerRequest` |
| `LapsedHoldsStayLapsed` | `Spec => HoldsDoNotRevive` |
| `DangerNeverBooked` | `Spec => DangerIsNotBooked` |
| *BookingCalendar_proofs* | |
| `BookingsAreAlwaysBound` | `Spec => []BookingsAreBound` |
| `DisconnectedMeansDone` | `Spec => []DisconnectedIsDone` |
| `EventsAreWhereTheyAreLookedFor` | `Spec => []EventsCanBeFound` |
| `ClosedBindingsLeaveNothing` | `Spec => ClosedMeansGone` |
| `OnlyOwnEventsAreDeleted` | `Spec => DeletesOnlyItsOwn` |
| `ConfirmedTogetherWithEvents` | `Spec => ConfirmedWithItsEvent` |
| *BookingMail_proofs* | |
| `MailsAreSentOnce` | `Spec => []MailedOnce` |
| `RemindersFollowReceipts` | `Spec => []ReminderFollowsReceipt` |
| `MailsAreTrue` | `Spec => MailsOnlyTruth` |
| `NothingIsQueuedAfterEnd` | `Spec => []NothingQueuedAfterEnd` |
| *BookingPromises_proofs* | |
| `HoldsDoNotPileUp` | `Spec => []AtMostOneReplacement` |
| `ChangesStayLimited` | `Spec => []ChangeLimit` |
| `OnlyLapsedMovesExceedTheLimit` | `Spec /\ [][MovedWhileBusy]_vars => []CustomerLimit` |
| `CustomersStayWithinLimits` | `Spec => []CustomerLimit` if staff are not among `Routes` |
| `ServiceKeepsPromise` | `Spec => KeepsPromise`: BookingSystem implements Bookings |
| *PhoneSystem_proofs* | |
| `PhoneIsTyped` | `Spec => []TypeOK` |
| `CallsStayEnded` | `Spec => EndedStaysEnded` |
| `LimitsAlwaysKept` | `Spec => LimitsAreKept` |
| `ReceiptsAreNotLost` | `Spec => []ReceiptsBecomeLeads` |
| `CallbacksAreBooked` | `Spec => []CallbackIsBooked` |
| `ResultsReachHandoffs` | `Spec => []ResultReachesHandoff` |
| `PlacesAreReturned` | `Spec => []PlaceIsReturned` |
| `PlacesAreBounded` | `Spec => []PlacesFit(most, perDay)` if no policy allows more than `most` calls at a time or `perDay` on a day |
| `OnlyResultsReopenHandoffs` | `Spec /\ [][ResultsMeetOpenHandoffs]_allVars => HandledStaysHandled` |
| *Conversations_proofs* | |
| `ConversationsAreTyped` | `ConversationsSpec => []ConversationsTypeOK` |
| `ConversationsStayWithinLimits` | `ConversationsSpec => []ConversationLimits` |
| `ClosedConversationsStayClosed` | `ConversationsSpec => ClosedStaysClosed` |
| `ForgottenIsNeverRemembered` | `MemorySpec => []ForgottenStaysForgotten` |
| `MemoryImplementsConversations` | `MemorySpec => ConversationsSpec` |
| `MemoryImplementsAccess` | `MemorySpec => AccessSpec` |
| `MemoryIsTyped` | `MemorySpec => [](MemoryTypeOK /\ LeadsTypeOK)` |
| *CustomerAccess_proofs* | |
| `AccessIsTyped` | `AccessSpec => []AccessTyped` |
| `LoginsAreOfTheFactor` | `AccessSpec => []LoginsMatchFactor` |
| `WrongCodesCount` | `AccessSpec => []GuessesAreCounted` |
| `CodesAreSingleUse` | `AccessSpec => []CodesWorkOnce` |
| *Services_proofs* | |
| `ChatIsTyped` | `ChatSpec => []ChatTypeOK` |
| `VisitorsAreAnsweredOnce` | `ChatSpec => []AnsweredOnce` |
| `FaqsAreTyped` | `FaqsSpec => []FaqsTypeOK` |
| `ExactQuestionsAreAnswered` | `FaqsSpec => []ExactQuestionIsAnswered` |
| `JobsAreTyped` | `JobsSpec => []JobsTypeOK` |
| `TurnsAlwaysCome` | `JobsSpec => []TurnsCome` |
| `ServicesAreTyped` | `Spec => []TypeOK`, of `MCServices` |
| `ServicesKeepPromises` | `Spec =>` every property of the run `services`, of `MCServices` |

`ConversationsSpec`, `MemorySpec`, `AccessSpec`, `ChatSpec`, `FaqsSpec` and `JobsSpec` are the
services by themselves with an unbounded number of steps. `MemorySpec` interleaves the memory with
all steps of the conversations, the sign-in and the desk. `Spec` of `MCServices` chooses one of the
services at the start; it is the specification of the run `services`, so the last two theorems are
about what TLC checks there, for all values of the constants.

### Bookings

`BookingSystem_proofs`. Most steps leave appointments alone or only end holds. `StepKinds` shows
that every step is either of that kind (`Quiet`) or one of four: a hold is placed, a hold is
confirmed, an appointment is cancelled, an appointment is swapped for its replacement. Each
safety property needs the quiet case once (`BusyWhenHoldsEnd`: nothing becomes busy, nothing
becomes confirmed) and the four cases one by one.

`BookingInv` is the conjunction of `DataTypeOK`, `MovesOK`, `NoDoubleBooking` and
`OneBookingPerRequest`. The two properties need each other and neither is inductive alone: that
an appointment may overlap its own replacement is harmless only if the two are never both
confirmed, and the swap keeps that because the two sides of a reschedule are different
appointments of one request (`MovesOK`), which no later step can change (`RowsStay`: an
appointment is never deleted, nor given to another request or time).

Types need an invariant of their own, `TypeInv`: a reconciliation writes to the connection of
the appointment's team, so the tables stay typed only because a binding belongs to a team that
has a connection (`BoundTeams`).

`BookingCalendar_proofs`. `CalendarKind` says what a step does to connections, bindings and
events, as the kinds of `StepKinds` do for appointments. `BindingsInv` is the three invariants of
the calendars and `FinalIsFinal`: a binding is cancelled only if its appointment is over, and
completed only if its time is. Without it an event could be looked for again after its calendar
was given up. `DisconnectedIsDone` and `EventsCanBeFound` need each other: another calendar is
accepted only when nothing is left to do in the old one. The three action properties need only
the types, save `DeletesOnlyItsOwn`, which needs `BindingsInv` for the calendar a job looks into.

`BookingMail_proofs`. Rows of the outbox stay, and what has left the queue does not come back
(`NoticesStay`). `MailedOnce` needs `SentOnce`: the provider was first asked after the time that
the row holds, so while retries last it still knows the key. This is where `DedupAssumption`
enters: deliveries are tried again for a shorter time (23 hours) than the provider remembers a key
(24). `ReminderFollowsReceipt` needs that the delivery status of a row is one that was reported
(`DeliveryIsReported`). `NothingQueuedAfterEnd` needs `QueueIsCurrent`: there is no message about
a hold, so the clean-up of holds, which does not look at the outbox, leaves nothing behind in it.

`BookingPromises_proofs`. `FewHolds` states `AtMostOneReplacement` without a cardinality (of
three appointments that a request occupies, two are the same), which is what the steps preserve.
The two limits are counted for every owner of a request, also of requests that are not taken yet
(`ChangesInv`, `PlacesInv`). `CustomerLimit` does not follow from the specification with staff:
the run `staff_reschedule` shows it violated. `OnlyLapsedMovesExceedTheLimit` says that there is
no other way, namely than that a customer's hold that has lapsed is moved, and
`CustomersStayWithinLimits` derives from it what the run `customer_limit` checks.

`ServiceKeepsPromise` is the refinement. Bookings has a table of booked slots by request; the
mapping is `BookedSlot` over the confirmed appointments, which is a function because a request has
at most one of them (`OneBookingPerRequest`). Confirming maps to `Book`, the second transaction of
a reschedule to `Move`, cancelling a confirmed appointment to `Drop`, reporting a danger to
`Flag`, and everything else to a stutter.

### Phone

Most of the properties of a call are about its events, session, transfer, lead and handoff at the
same time. `PhoneInv` says of each call on the phone (`PhoneCallSound`) that its status is backed
by its events (`StatusSound`): a transfer that was attempted and of which no failure is stored
leaves the call pending, transferred or failed, whoever sent the events, so a callback that is
collected is also what the events ask for; that it is dialled for once and the stored result is
Twilio's (`TransferSound`); that it has a lead exactly when it has a receipt and the post-call
report, after which no receipt can come since the session is over (`LeadSound`); and that the
handoff has the result of the transfer unless it is being written between two transactions
(`ResultSound`). Of every call, also of one that is simulated, it says that a callback that was
promised is booked (`Booked`): staff book one by linking a lead, and `NoLeadAssumption` keeps the
call without a lead apart from one whose lead is its own. Keys are unique only among the provider's
events; of the events of staff the invariant uses types and actions. The four invariants follow
from it. A step touches one call at most (`SameView` for the others), so each handler is looked at
for one call. TLC checked `PhoneInv` on the run `calls` before.

`LimitsAreKept` and `EndedStaysEnded` are properties of steps and need only the types and, for
counting, that there are finitely many calls at any time. `PlacesAreBounded` draws the consequence
for states. The policy may have been replaced since a call came, so its present limit is no bound;
the most generous policy is one. Besides the step that takes a place this needs that no other step
adds to the calls under way or to those of a day, since a call that is over stays over and no
event changes when a call came (`TimesStay`).

`HandledStaysHandled` does not follow from the specification, as the run `handled` shows.
`OnlyResultsReopenHandoffs` says that there is no other way than the one shown there: a transfer
result is written to a handoff that is dealt with, and says otherwise. Staff at the desk, their
events and links on calls, and the post-call report never open one again
(`HandledUnlessReconciled`): a link and the report write a handoff only where there is none.

### Conversations and memory

`authorize_session()` counts in its first transaction and writes the authorization in its third.
`ConversationsInv` bridges the gap: one conversation at a time holds the agency's place
(`OneAtATime`), and while it waits for the provider (`REQUESTING`) nobody else is authorized, so
the day still has room for it (`PlaceIsKept`). That holds over midnight as well: the answer counts
for the day on which it comes, and a new day has room since the limit is not zero, which the first
count has made sure of. `ConversationLimits` is `OneAtATime` and `DaysKeepLimit` in numbers.

`MemoryInv` adds that what is forgotten was confirmed before the history begins that consent
covers (`CoverBegins`): consent that is given again sets the beginning to now. `NoSource` stands
for a fact without a source and is assumed not to be the name of a conversation.

The memory reads the tables of conversations and sign-in and writes its own. That is a refinement:
`MemorySpec` implements `ConversationsSpec` and `AccessSpec` with each variable mapped to itself, a
step of the memory to a stutter. What is proved of the two holds with the memory for that reason
and is not proved again. `MemoryIsTyped` uses it: `WholeInv` is the invariants of conversations,
sign-in and memory and the types of the tables of memory and desk. Types of the memory are about
other services' rows (a fact or a summary names a confirmed intake, a pairing a binding of
WhatsApp), and they last because intakes and bindings are never deleted
(`BesideKeepsMemoryTypes`).

### Sign-in

* `LoginsMatchFactor` is inductive with the types. Enrolment and recovery raise the version and
  revoke all logins in the same transaction; everything else keeps the version.
* `GuessesAreCounted` needs `CountInv`. Signing in again resets the attempts of the challenge but
  not those of the factor, and only because opening a challenge closes the others (`OneOpen`) do
  the two counters stay in step. A lock that has run out resets the factor's counter alone; it
  lasts as long as a challenge at least (`AccessAssumption`, 900 and 600 seconds in the code), so
  by then no challenge is left that had counted more (`Counted`).
* `CodesWorkOnce` needs `CodesInv`: a used code of the present secret is not later than the
  counter, and the secrets of older codes are challenges that are closed, which a new enrolment
  can therefore not reuse (`ClosedChallengesStayClosed`). A recovery changes the version and neither
  secret nor counter, so a code seen before it is spent after it too.

### Chat, FAQs and jobs

`AnsweredOnce` needs that a handler's reservation stands as long as the handler is at work
(`HandlersOwn`). The lease plays no part in it: a visitor whose lease has run out stays taken,
because the handler may still be talking to the model.

`ExactQuestionIsAnswered` is about one state, and its proof about `select_faq_match()`: scores are
fractions of at most one (`ScoresAreFractions`), comparing them orders the rows
(`FractionsChain`), so there is a best row among the active ones (`BestIsActive`); a row with the
very words scores one, and if another is best, the exact one is close enough to be its rival.

`TurnsCome` bounds how often a row is passed over by batches that serve its queue. `JobsInv` gives
the reason: for every message or binding and every moment since when it may wait, the batches
counted and the rows that still come before it are together no more than the other rows of its
queue (`TurnsAreCounted`). A batch that leaves a row out holds, of its queue, only rows before it
(`CollectedComeBefore`); until it has served one of those it counts for nothing, and once it has,
the sum has room for one more (`BatchesServe`), because a row that is served gets a later time than
any that is due. Rows that are left as they are change neither side. A row that is added, or given
another time, comes after all that are due (`ScheduleEases`). The batch that counts first was full,
which takes the rows beside it off the bound (`BatchesAreFull`). All this goes on when a runner
loses the lock in the middle of a batch, since a second runner can only take rows away earlier
(`Eases`). No assumption says which rows fail.

`ServicesInv` is `WholeInv` and the invariants of chat, FAQs and jobs. Every step of the
composition is a step of the service that is at work and leaves the tables of the others alone, so
each part is kept by the lemma of its own service (`StepKeepsWhole`, `StepKeepsChat`,
`StepKeepsFaqs`, `StepKeepsJobs`). The start in the middle of a customer's call has to satisfy all
of them (`ServicesStart`), for which `StartAssumption` names what it takes for granted: names that
exist, and a limit that leaves room for the conversation and the call on the first day.

`FiniteFirst`, that a finite ordered set has a first element, is proved by a smallest
counterexample, from the well-foundedness of the natural numbers: an induction principle would
take an operator as its parameter.

### What the proofs changed in the models

* `Score` was a CASE whose conditions overlapped: for a question asked in its own words, all of
  them ignored ones, it was undetermined. It asks for the same words first now, as
  `faq_match_score()` does.
* A batch of jobs was a sequence built by recursion over positions. It is a set now, in the order
  of `Precedes`.
* `NoSource` could have been the name of a conversation, `NoLead` that of a lead, and the words of
  a question and the rows of work could have been infinitely many. The assumptions now exclude it;
  no more is assumed than that names differ and tables are finite.
* The run `services` begins with a customer's history if the memory is at work. Nothing said that
  this history was one the services can produce: with a limit of one conversation a day it is not.
  `StartAssumption` says so now.

### Left to TLC

* Liveness: `OrphansAreRemoved`, `EveryNoticeSettles` and `ReportsReachTheRow`. They rest on
  fairness, and so on ENABLED, which is out of the provers' reach.

Every other property of every run that passes is a theorem. `CustomerLimit` where staff take part
and `HandledStaysHandled` are false, as the runs `staff_reschedule` and `handled` show, and the
theorems about them are conditional.

## Not modelled

* Local browser voice relay: copies audio between two sockets and keeps no state that another
  part reads.
* Receptionist settings: one row written whole under a version check.
* Application shell and web frontend: routing, settings, error formatting, pages.
* Spoken confirmations, proposal digests, signatures, encryption, password hashing: they compare
  or transform texts.
* The throttling of sign-in: it only refuses.
* Contact data and summaries of leads: nothing else depends on them.
* Refresh tokens of Google: no other state depends on them; a lost one shows as a calendar that
  must be connected again, which `CalendarSync` has.
* Who was told what on WhatsApp: `callback()` confirms the intake and creates the handoff in two
  transactions, which are actions of their own in `Conversations`, and a call that ends in between
  leaves a lead without a handoff. No property forbids that, since the caller has been promised
  nothing by then.
* The development user, in whose name the phone's sessions are written, could end one, or confirm
  its intake, with the browser's routes: `end_session()` and `confirm_intake()` look at the owner
  and not at the channel.
* Agencies other than one, seeding, migrations.

## Running

```
tlc -workers 2 -config scheduling.cfg MCBooking
tlc -workers 2 -config calls.cfg MCPhone
tlc -workers 2 -config services.cfg MCServices
tlapm BookingSystem_proofs.tla
tlapm PhoneSystem_proofs.tla
tlapm Services_proofs.tla
```
