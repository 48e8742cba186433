# Verification of Telegram Detox

TLA+ models of the concurrent core of this repository, the TLC instances that
check them, and TLAPS proofs of what matters most.  Line numbers are those of the
commit the models were written from.  `PROJECT.json` holds the details: every
definition with the lines it translates (`map`), every run, the faulty variant of
the code that breaks each property (`mutants`), the hazards of the code, the
theorems and the findings.

1. The system - 2. Reading the models - 3. The modules - 4. Runs and bounds -
5. Fairness and timing - 6. Proofs - 7. Where the code and its documents disagree -
8. What is not modelled - 9. Plan

## 1. The system

One asyncio process (`app/main.py`) runs a Telethon listener, an APScheduler and
an aiohttp server.  Blocking work runs in threads.  All durable state is one
SQLite file used through SQLAlchemy (`app/db`): every function of
`db/repository.py` and `inbox/store.py` commits by itself, and between two
commits any other thread may run.  Operators run commands (`app/cli`) as
processes of their own on the same file.

| Component | State | Operations | Talks to |
| --- | --- | --- | --- |
| Alert outbox (`db/repository.py` 910-1177, `services/p0.py` 715-739, `main.py` 61-73) | `alert_jobs`, `messages.alert_sent` | create, claim, send, mark sent/pending, release stale, cancel legacy, retry run | mail server, ingestion, cancel command |
| Intake (`telegram/client.py`, `telegram/backfill.py`, `services/p0.py`) | `messages`, `backfill_states`, the hourly LLM budget | live event, startup backfill by chat and cursor, classification | Telegram, LLM, alert outbox |
| Daily digest (`services/digest.py`, `db/repository.py` 394-907, `cli/digest_now.py`) | `digests`, `messages.claimed_digest_id`, `digested_at` | claim rows, summarise, send, finalize, retry, cancel unsafe | LLM, mail server |
| Birthdays (`app/birthdays`, `db/repository.py` 41-211) | contact cache, notification claims | poll, daily reminder, claim, attempt, sent, release | Telegram, mail server |
| Inbox store (`inbox/store.py`, `db/session.py`) | conversations, notifications, library, manual-open usage | activate, open/close leases, extend, quarantine, acknowledge, cleanup; merge of duplicate rows at every start | inbox service |
| Inbox service (`inbox/service.py`, `inbox/web.py`) | sessions in memory, send records, peers | observe events, history, send, media, library edit | Telegram, browser, store |
| Web push (`inbox/push.py`) | subscriptions, deliveries | subscribe, unsubscribe, deliver pending | push service |
| Notification feed and Mac notifier (`inbox/web.py`, `tools/macos/notifier`) | a cursor and a switch in a file, banners | poll, consume, enable, disable, snooze | inbox store, Notification Center |
| Morning digest (`inbox/digest.py`) | `morning_digests` | exact job, 15-minute reconciliation, history | Telegram, LLM |
| E-mail transport (`email/sender.py`) | Gmail token file | send by SMTP or Gmail API | mail server |
| LLM client (`llm/client.py`) | none | classify, summarise, one repair retry | LLM provider |
| Browser client (`inbox/static`) | cursor, open view, one draft | poll, send, playback | web server |
| Operations (`deploy`, `scripts`, `docker`, `tools`) | none of the service's | backup, configure | - |

What is hard: threads and processes that interleave between commits; claims that
expire while their owner is still in the mail transport; outcomes written later
by primary key; sends that raise although the mail was taken; crashes between a
claim and its outcome; an asyncio task that suspends between a check and its
write; snapshots that are stale when they are used; leases of browser views; two
time bases (the message's and the present).

What makes each component correct:

- outboxes (alerts, digests, birthdays, push): a thing is sent once unless nobody
  can know whether it was sent; nobody sends what another is sending; what is
  recorded as sent was sent; nothing stays queued for ever; what became forbidden
  meanwhile is not sent;
- inbox: counters are exact under replay and reordering, what the owner has not
  seen does not vanish, not at a restart either; a draft reaches Telegram once, its
  answer is true, and nothing he wrote disappears unsent;
- feeds and digests of a period: no row and no message is shown twice or skipped,
  whatever fails while they are read;
- intake: the cursor is behind what is stored, every message is stored,
  classified and, if strict, alerted; the model is not called beyond its budget.

## 2. Reading the models

All modules are written alike.  A step is what the code does between two points
at which something else may run: one committed statement or transaction for code
in threads and commands, the code between two awaits for code on the event loop.
Where two statements are taken together a comment says why nothing can tell the
difference.  Local variables of a thread or handler are functions of the worker
(`pc`, `hold`, `rows`, ...).  Time is relative where rows have no horizon (`age`,
`due`, `wait`, `left` count from now and saturate) and absolute with a bound where
days matter.  The instant a run *calls* now is kept (`late`, `lag`), because the
code writes it into rows long after it was read.  The mail server, Telegram and
the push service accept, refuse, or accept and lose the answer.  History
variables (`accepted`, `mailed`, `delivered`, `pushed`, `shown`, `doubt`,
`unsure`, `torn`, `unread`, ...) record what left the process; no action's guard reads
them.  Operators marked "Faulty" are not used by any specification: they are the
plausible bugs that show that a property can fail.

`TypeOK` documents the variables of the modules; it is proved where section 6 says
so.

## 3. The modules

### Outbox (AlertOutboxProofs)

What the outboxes of the program promise, whatever their rows, leases and threads: a
thing is open, being tried, taken or closed; it is tried by one sender at a time; it
never leaves `closed`; and the receiver takes it twice only if the outcome of a try was
lost (`doubt`).  The module models no code of its own.  Three modules implement it:

| Module | A thing is | Tried, taken and closed are | In doubt is |
| --- | --- | --- | --- |
| AlertOutbox | a message | a thread at the mail server, past it, a row that is sent or cancelled and that no thread holds | `unsure`: a sender that raised after the mail was taken, or died before it wrote so |
| DigestOutbox | a message | a worker mailing a digest it still owns with the message in it, past it, `digested_at` | a message carried by a digest in doubt, or withdrawn while it was mailed |
| WebPush | a notification and a device | the pair the pass is at, (at once) the delivery row done | a lost answer, or a crash |

Each states `ImplementsOutbox == Abstract!Spec` with these as the refinement mapping.
It says more than the invariant that nothing is sent twice: no path of the code leads
from a closed thing back to a try, two tries never overlap, and every second delivery
is accounted for by an outcome that was lost.

### AlertOutbox (AlertOutboxProofs, MCAlertOutbox)

The outbox of attention e-mails.  `status`, `token`, `attempts`, `due`, `age` are
the columns of `alert_jobs`; `message` and `alerted` what the outbox reads and
writes of `messages`; `pc`, `msg`, `late`, `spent` the locals of the threads.

| Action | Code |
| --- | --- |
| Receive, Classify, CreateJob | `save_message` and `handle_p0_candidate`, `create_alert_job` |
| ClaimFirst, BeginSend | `send_alert_job`, `claim_pending_alert`, head of `send_claimed_alert` |
| Accept, Raise | the mail server during `email_sender.send` |
| MarkSent, MarkPending, FlagMessage | `_mark_alert_sent`, `_mark_alert_pending`, `mark_alert_sent` |
| StartRun, CancelRead, CancelCommit, Select, ClaimNext, EndRun | `retry_alerts_job` and `retry_pending_alerts` statement by statement |
| CancelRead(Cli), CancelCommit(Cli), StopCli | `cli/cancel_legacy_alerts.py` |
| Stop, Cleanup, EditIgnored, Tick | crash, `cleanup_old`, the owner, time |

`OneSender`, `SentIsFinal` and `NoNeedlessDuplicate` are about outcomes being
written by primary key: nothing but the age of a claim protects them.
`LegacyIsNeverMailed` is about `cancel_legacy_alerts` judging rows that move.
`JobsAreSettled` is the liveness of the queue.

### InboxAttention (InboxAttentionProofs, MCInboxAttention)

The rows of `inbox_conversations` of one peer: `row[thread]` with `seen`, `unread`,
`opened`, `left`, `closed`; the notes of which message went to which row
(`inbox_notifications`); the leases of open views; the handlers under way
(`observed`), and the library source.  `peer` is a forum, or a private dialog that may
start as an older version left it, with a row for each thread of replies.

| Action | Code |
| --- | --- |
| Observe, Activate | `service.observe` up to its await, `store.activate` after it |
| Open, Close, RefreshLease, ReleaseLease, ManualOpen, OpenLibrary | the `/open`, `/close`, lease and manual-open handlers |
| SendStart, SendDone, SendFails, ReadFails | what a send extends, acknowledges or quarantines |
| Select, Deselect, DropDeadSource | the library |
| Restart, Command | `init_db` (`_merge_inbox_duplicates`), then `seed_library` if the service starts; a command opens the database beside the running service |
| EditIgnored, Cleanup, Tick | the owner, maintenance, time |

`UnreadIsExact` relates the counter, changed in nine places, to the messages it
counts; `ReplayChangesNothing` is about updates Telegram delivers again;
`StartKeepsAttention` says what the merge must keep of each group of rows: it is visible
iff one of them was, waits without a countdown iff a visible one did, and a row that is
alone loses no unread message.

What the model shows of the merge beyond its properties: the merged row takes the
greatest watermark, so that an unseen message of one thread counts as seen if a later one
of another thread was; rows that are all closed become seen; a row whose newest message
was never noted for it gets an unread message at the next start (`extended` excepts it);
a row that counts down, merged with a closed one that has unread messages, counts down
with unread messages.

### InboxSend (BrowserProofs, MCInboxSend)

`send`, `send_saved` and `send_library`: handlers that hold `action_lock`, the
journal `inbox_sends` (`record`), and what Telegram has (`delivered`).  A post is
new, known to be sent, known to be in doubt, or of another conversation; a
definite rejection forgets the record, an ambiguous one keeps it.  `purged` are
the requests whose record cleanup removed after `Retention`; the properties do
not speak of them, because the code has nothing left to know them by.

### BrowserDraft (BrowserProofs, MCInboxSend)

The composer of one tab (`inbox/static/app.js`) in front of InboxSend, which it extends:
its posts are the posts of that module.  A version is what the owner wrote; `parts` says
which of text, file and reply it has.  A change of text or file makes a new one and drops
the request id.

| Action | Code |
| --- | --- |
| Change, ChooseReply | `oninput`, `chooseFile`, `remove-image`; the reply button, which keeps the id |
| Submit | `onsubmit`: the id is made once and kept (`requestId \|\|= randomUUID()`), the post reaches a handler or the network fails |
| Heard, Unheard | an answer; a connection that breaks, while the handler goes on |
| Reload | the text comes back from `sessionStorage`; file, reply and id do not (`draft`), so that what had more than a text is another version, and what had none is gone |
| PostOfAny | any other client, one that may use an id in two conversations |

`DraftIsSentOnce` is the purpose of the request ids, seen by the owner: a version becomes
one message, however often he submits it.  `NothingWrittenIsLost` is its counterpart: the
no part of a version leaves the composer before Telegram has the version, unless the owner
changes it.  Both have exceptions, which are described in section 7.

### BirthdayNotices (NoticeProofs, MCBirthdayNotices)

The daily job, the poll and `check_birthdays`: contacts stored, pruned and read;
claims (`notice`, with age, attempt and outcome); the e-mail.  A person has two
keys (Telegram, file), which `Check` merges; the poll waits for Telegram with the
time it was started at (`lag`).

### WebPush (BrowserProofs, MCWebPush)

`deliver_pending` (`StartPass`, `Visit`, `Outcome`) over a snapshot, with
subscriptions that come and go, conversations read, closed, muted or ignored
meanwhile, and deliveries with attempts and a wait.  A pass looks at the newest rows only
(`Recent`, `Window`: 200 in the code, `push.py:163`), and of each conversation at the newest
of these.  The wait is kept rather than
`since`, so that the model permits a little more than the code.  Its specification is called
`PushSpec` (with fairness `PushLiveSpec`): BrowserProofs extends it beside BrowserDraft.

### MacNotifier (NoticeProofs, MCMacNotifier)

The notifier's saved state (cursor, switch, snooze), the page on its way, banners,
and the feed (`store.notifications`).  The main queue serialises its handlers, so
each is a step; `PollFeed` and `Answer` or `Lose` are separate.  `Enable`, `Disable` and
`Snooze` are the requests of the bridge: each saves the new state (`Set`), or the save
throws and the old state is taken back (`SetFails`), with the file replaced or not;
`ConsumeFails` is the same of a page.  `silent` are the rows raised while the notifier was
silent (`Silenced`): off or snoozed, with a file that would not speak either.  The
specification is
`NotifierSpec`: NoticeProofs extends this module beside BirthdayNotices, so that what both
would call `Spec`, `Next` or `Poll` has the notifier's name here.

### MorningDigest (MorningDigestProofs, MCMorningDigest)

The cron job and the reconciliation share a lock.  `Reconcile` chooses the
earliest missing day and takes the lock or waits for it, `Wake` goes on with it, `List`,
`Fetch` and `Refused` read the history, `Rows` asks the model, and `Pending`,
`ModelRefuses` and `Store` are its answer.  `Restart` forgets everything but the records.
The lock is `asyncio.Lock`: whoever releases it wakes the job that waits (`woken`), and a
job that comes before that one runs waits behind it (`Queued`).  The properties need this
order: a job that is overtaken again and again would make the day it came for days later.

### DigestHistory (MorningDigestProofs, MCMorningDigest)

What `service.digest_rows` reads for it, page by page.  MorningDigest extends the module.

| Action | Code |
| --- | --- |
| ListDialogs, ListFails | `iter_dialogs`; a dialog that is left or deactivated loses its library source |
| FetchPage | one turn of the loop of `_digest_source_rows`: rows of the window, the next `offset_id` |
| Probe | `reconcile_missing`: a library source that is no dialog |
| PeerGone | status 410: the peer is dropped, its rows so far stay, its source is switched off |
| CallFails, PassFails | any other refusal: `asyncio.gather` raises the first and cancels none of the others |
| OrphanEnds | what the others then do: nothing is read of them, but sources are switched off and a flood wait holds up every later call |
| Lose, Regain, Unblock | Telegram, and the end of a flood wait |

`EveryMessageOnce` is the promise of the digest across days, failures and second
readings: each message that a dialog served is in the digest of its period and in no
other.  A message stands at its date; `offset_date` is taken to include the instant
itself, as `tests/test_inbox.py:2414` has it.

### MessageIntake (MessageIntakeProofs, MCMessageIntake)

The listener (a thread with a lock) and the backfill of a start (event loop,
without it), both storing and classifying (`Handle`), with `backfill_states`, the
rounds over the chats, their limits, and the budget of the model.

| Action | Code |
| --- | --- |
| Send, Start, Crash, Tick | Telegram, the process, time; the ignored chats are read once, by `Start` |
| Ignore | the early returns of `ingest_event`: ignored chats, login codes of 777000 |
| Lose | `get_chat` or `get_sender` raises in `event_to_stored_message`, and the update with it |
| Deliver | `ingest_event` up to the thread that stores |
| Scan, BeginPass, SkipChat, CompleteChat, Fetch, EndBackfill | `run_startup_backfill` |
| Resume, Look, Save, Review, Policy, Budget, Mark, Ask, Strict, Alert, Advance | `insert_message_if_missing`, `save_message` and `handle_p0_candidate`, statement by statement |

What comes while the process is down is in `missed`, what `Lose` drops in `unread`, what a
crash interrupts in `torn`: only these may stay unsettled (`EveryUpdateIsSettled`).  The
backfill makes up for some of them; the property does not count on it.  `kind` is what
AlertPolicy makes of each message under `Rules`; the messages are chosen at the start from
`Contents`.

### AlertPolicy (MessageIntakeProofs)

The rules of `services/p0.py` over the signals of a message: what is strict
(`DeterministicStrict`), what is classified at all (`ShouldClassify`), what an answer
of the model takes (`QualifiesForStrict`), together `Kind`.  The code holds the rule
twice more, for the daily digest (`UrgentUnclassified`) and for the `p0_check` command
(`DebugIsP0`); the theorems say where the three agree.  A signal is what one pattern,
or the list of user names, finds in a text: the patterns are left out, so that a
theorem holds for every set of them.

### DigestOutbox (DigestOutboxProofs, MCDigestOutbox)

The daily digest as a persistent job: pipelines (`digest_now`, the daily job), the
retry and the cancel command.

| Action | Code |
| --- | --- |
| Begin, Check, Gather | `send_daily_digest_pipeline` up to the claim: the newest open digest of the day, or the free messages |
| ClaimRows | `claim_digest_run_for_rows`, one transaction |
| Persist | `generate_digest`, then `update_digest_payload` (only of a digest still building) |
| Deliver, BeginSend, Accept, Raise, Finalize, MarkPending | `_deliver_after_payload_update`, `claim_pending_digest`, `send_claimed_digest`, its two outcomes |
| StartSweep, Select, Sweep, EndSweep | `retry_pending_digests` and `cancel_unsafe_pending_digests` |
| Arrive, EditIgnored, Tick, Crash | the world |

What the model shows of the code beyond its properties: outcomes are written by
primary key, so a digest cancelled while it is mailed leaves its messages to be
mailed again (`ImplementsOutbox` counts them as in doubt), and one finalised between the
selection and the check of the cancel command or the retry is turned from sent to
cancelled, losing its payload; a digest that is still building and whose claims
are all of ignored chats keeps the day's other messages waiting; a pipeline that
lost the race for the payload delivers the other's without comparing it with its
own ignored chats; `digest_key` is unique, so that after a cancellation the same
set of messages meets the cancelled row again.

### DigestContent (DigestContentProofs, MCDigestContent)

What the digest that DigestOutbox persists says: `generate_digest` over a window
of rows, and `daily_digest` of the LLM client for each chunk.

| Operator or action | Code |
| --- | --- |
| Analyzed, Entry, Payload, Chars, Weight, Chunks, Fits | `build_structured_payload`, `_chat_chunks`, the two comparisons with MAX_INPUT_TOKENS |
| Prepare, TooLarge, Ask, Finish, Nothing | `generate_digest` |
| Raise, Unjoinable | the error of `_merge_items_by_chat` (`digest.py:661`), which leaves `generate_digest`: no digest is made |
| Refuse, Fail, Answer | `_json_completion`, `_validated_json` (one repair), `_call_daily_digest` |
| Observed, Valid | `observe_document`, `validate_response` |
| Fallback, Merged, Drop, Ensure, Attach, MergeByChat, Enrich, Route | the functions of the same names, in this order; Gathered is those before the merge, Section those between the parts and the routing |

An item is the chat and the messages it refers to, its counts, the messages whose
media it mentions, and who wrote it; the texts are left out.  Titles are numbers in
the order of the database, which sorts by title.  Whether a row is urgent is given
with the row.  Selections go through `At` (the elements at a set of positions) and sums
through `Total`, both recursive functions, so that they can be reasoned about.  The
properties are the reference: they say directly, from the rows,
what the item of each chat must be, whatever the pipeline of functions went through.

## 4. Runs and bounds

| Run | Question | Bounds, and why they are enough |
| --- | --- | --- |
| AlertOutbox | safety of the alert queue in the legacy mode, the abstract outbox; every job is settled | one message handled by two threads, one row of an older version, retry and command; lease 2, send 1: a third actor can be in the middle of each window; crashes at will before some point |
| InboxAttention | counters, countdowns, replay, starts | two messages, the peer-wide and a thread row, one observer beside the handlers of the browser, any number of starts and commands, every pair of rows an older version may have left; a replay needs two messages, a merge two rows |
| InboxSend | idempotent sends, with the composer | either a tab: three versions, two request ids, two of its posts under way; or any client: one id, two conversations, three posts; one crash. One handler is inside, one waits, one comes later; a second id is what a changed draft or a reload takes; a version has any of text, file and reply |
| BirthdayNotices | one mail | one person with both keys, daily job and poll, two days, one crash or edit; a wait shorter than a claim |
| BirthdayNotices_merged | see section 7 | the same person, known from the file only, no crash |
| WebPush | once, the abstract outbox, ends | one device, two notifications of a conversation, a window of one, three attempts, one crash |
| MacNotifier | once, no backlog, catches up | two rows, a page of two, snoozes of one and two ticks, any two uses of the switch, each saved or not: off and on again, on during a snooze, a snooze after a snooze. A second page does not occur |
| MorningDigest | every message once, no gap, catches up | four days of three ticks, a limit of two days for the seven of the code, one dialog in pages of two (a period takes two or three), one library source beside it, two faults of Telegram, one restart with the same digest time (section 7); days beyond the limit and orphans that meet a later pass occur |
| MessageIntake | cursor, completeness, alerts, budget, liveness | one chat, ignored or not, two messages, four pairs that share the budget or the cursor (strict and open, open and own, media and strict, quiet and strict) and two login codes, limits of one and two messages, one crash; any update may be lost |
| MessageIntake_missed | see section 7 | one message |
| DigestOutbox | the abstract outbox for each message, none lost | two messages of two chats, two digests, any three runs of two pipelines, retry and command, one crash or edit; three runs are what a race (two) and its consequence (one) take |
| DigestContent | one place, all messages, true counts | three rows of two chats, of five kinds (two titles, media, urgent, unwanted), two messages or three characters of a chat, chunks of a chat, answers of at most two items: limits, chunks too large with the date, chats renamed with one part that falls back or several, and every wrong answer occur |

Every passing run visits its whole state space.  Deadlock is not checked where the
bounds on events, time or crashes let a behaviour stop.

## 5. Fairness and timing

Fairness is given to what the code schedules and nothing else: the threads and
tasks of the process, jobs of the scheduler, calls with a time-out
(`WF` of the step), and waiters of `asyncio.Lock`, which is first come first
served (`SF` of the step that takes it).  A service that is asked again and again
answers sometime (`SF` of accepting; of the morning digest, `SF` of storing what the
model answered: it fails only so often).  Faults of Telegram are bounded, and a flood wait
ends (`WF` of `BlockEnds`).  Nothing is assumed of the owner, of
Telegram's updates, or of crashes; `JobsAreSettled` has the premise that crashes
stop.  No liveness is claimed of the daily digest: the job that would retry a
failed one (`main.py:75`, `retry_digests_job`) is defined and never scheduled.

Assumptions on time, each named in the module:

- a mail is sent or refused within less than a lease: `MaxSend < StaleAfter`
  (AlertOutbox: `LeaseOutlivesSend`; DigestOutbox).  With messages that are older
  than the lease when they are handled, the legacy mode does not meet it, because
  a claim is dated with the message (`repository.py:1056`): `OneSender` then fails.
  The mention-only mode dates it with the present and does;
- one instance of each scheduled job (`max_instances=1`): one `Retrier`;
- `MaxLag < StaleAfter` (BirthdayNotices): the poll waits for Telegram less than the
  ten minutes of a claim.  A wait beyond it lets a second mail out;
- `MaxRun` (MorningDigest): two runs in a row hold the lock for a day at most
  (`2 * MaxRun <= Slots`).  The calls of a run have time-outs, which a flood wait can
  exceed.  Beyond a day a day can be skipped before the first digest: a run of the first
  day fails, the job that waited for it makes up that day and ends two days later, and
  the job that came meanwhile for that day stores it next, because without a digest only
  the latest day is looked at.  With the digest at midnight it takes little more than a
  day (three ticks a day, two a run);
- a tab that posts does so within the day the server keeps a record (BrowserDraft:
  `Cleanup` is for other clients only);
- `Skew = 0` (MacNotifier): the two clocks agree within the tolerance of a minute.

## 6. Proofs

The eight `...Proofs` modules prove for any number of messages, chats, threads, requests,
handlers, devices, notifications, digests, dialogs, days, people and rows of the feed, and
for every value of the times that the named assumption admits, and of the limits on what
the model is given.  AlertOutboxProofs also holds what is proved of Outbox, MorningDigestProofs
what is proved of DigestHistory, MessageIntakeProofs of AlertPolicy; NoticeProofs is about
BirthdayNotices and MacNotifier, BrowserProofs about InboxSend, BrowserDraft and WebPush:

| Theorem | Says | Argument |
| --- | --- | --- |
| AlertOutboxProofs!TypeCorrect | `[]TypeOK` | each kind of step changes rows and locals within their types; relative time saturates at `Horizon` |
| ClaimsKept, SingleSender | `LeaseOutlivesSend => (Spec => []OneSender)` | `ClaimInv`: a thread is never late enough (`InTime`) for its claim (`ClaimAge`) to be stale, so `RetryRun` cannot release it; most steps are `Mild`: they touch rows nobody holds |
| SentForGood | `SentIsFinal` | only the holder of a claim writes an outcome, and while it holds the row says sending or cancelled |
| LegacySilenced | `[]LegacyIsNeverMailed` | `LegacyInv`: the retry may hold a legacy row between claim and check, nobody reaches the transport with it; needs no assumption on time |
| MailedOnce | `[]NoNeedlessDuplicate` | `DeliveryInv`: after a mail whose sender remembers it the row is out of the queue |
| Refinement | `LeaseOutlivesSend => (Spec => ImplementsOutbox)` | `ClaimInv` and `DeliveryInv` decide which step of the outbox each action is; what is not about a message leaves its stage alone |
| BrowserProofs!SentOnce, OkIsTrue, FailedIsTrue, TypeCorrect | the three properties of the journal | `Guarded`: `action_lock` is held by who is inside, what the holder knows of its own request, and `JournalIsTrue` |
| BrowserProofs!Bounded, Once, PushTypeCorrect | attempts, single push | `PushSafe`: no outcome is recorded of the push under way, and the counts of each pair are right; shown pair by pair |
| BrowserProofs!Refinement | `PushSpec => ImplementsOutbox` | from `PushSafe`: an action is one step of the pair at hand and rest for the others |
| AlertOutboxProofs!OnceUnlessInDoubt, OverForGood, OutboxTypeCorrect | what the abstract outbox promises, hence every implementation | `TakenIsOut`: what was taken and is not in doubt is no more within reach of a try |
| BrowserProofs!Sound, WrittenIsSent, DraftOnce | the composer, for any drafts, tabs' posts, handlers and conversations | `BrowserInv`: the invariant of the journal, and `OneRequest` (a version has one id, which the tab keeps), `AwaitedPost`, `OneClient`; an answer of success then tells of the version in hand (`OkMeansDelivered`), and one id is one message (`SentOnce`). Of the steps that take a part away only that answer, a change and a reload are left, and a reload keeps the text |
| BrowserProofs!SendsHold | the properties of the journal hold under the composer | every step of it is one of the journal, or takes an answer |
| DigestOutboxProofs!NoneIsStranded | `[]ClaimedIsLive` | a step leaves claims and states of digests alone, moves a digest among the live states, or ends it and frees its messages at once; needs no assumption on time |
| DigestOutboxProofs!SingleSender | `LeaseOutlivesSend => (Spec => []OneSender)` | `LeaseInv`: what a worker holds is its own or was withdrawn, and then has no payload to be sent again (`HoldersOwn`); a pipeline is in time (`InTime`) and its claim is no older than its delivery (`ClaimAge`), so the release of stale claims is never of a held one; most steps are `Calm`: nobody begins to hold a digest |
| DigestOutboxProofs!TypeCorrect, DigestedOnlyIfMailed, RetryMailsNothingIgnored | `[]TypeOK`, `[]DigestedWasMailed`, `[]RetryRespectsIgnored` | `Contents`: what a digest claims, what its payload was made of, what a worker carries and what was mailed, side by side; with it each outcome marks what was mailed, or what was omitted; needs no assumption on time |
| DigestOutboxProofs!Refinement | `LeaseOutlivesSend => (Spec => ImplementsOutbox)` | `OutboxInv`: at most one mail under way carries a message, and one that was mailed and is not digested yet is in the hands of its carrier or in doubt; with `LeaseInv` each action is then a step of the abstract outbox for the messages of one digest and rest for the others |
| DigestOutboxProofs!OnceUnlessInDoubt, DigestedForGood | `LeaseOutlivesSend`: `[]MailedOnce`, `[][DigestedStays]_vars` | what Outbox promises, for mails: from the steps of the refinement (`StepKeepsOut`, `ClosedStays`) and `MailedIsOut`; of the other two implementations `NoNeedlessDuplicate`, `SentIsFinal` and `PushedOnce` say it |
| MessageIntakeProofs!StrictReachesTheOutbox | `[]StrictIsAlerted` | `Carried`: a strict message without an alert is in the hands of an actor whose next step creates it, or was when the process died; most steps are `Gentle`: they make nothing strict and take nobody from that step |
| MessageIntakeProofs!TypeCorrect, NothingIsPassedOver, CompletedHasAll | `[]TypeOK`, `[]CursorIsBehindStored`, `[]CompleteIsComplete` | `Cursor`: time is ahead of every message and window (`Clock`), and the message in hand of the backfill is the next one after its cursor that is not stored (`NextInHand`), so that the cursor may move to it |
| MessageIntakeProofs!TwiceTheCapAtMost | `[]WithinTwiceTheCap` | `Budgeted`: what one actor has called or holds after its count is within the cap of any hour (`WithinTheCap`); there are two actors |
| InboxAttentionProofs!CounterIsExact, NoCountdownOverUnread, TypeCorrect | `[]UnreadIsExact`, `[]UnreadDoesNotExpire`, `[]TypeOK` | `AttentionInv`: each row is in step with the messages noted for it (`Good`): its watermark and every note are at or below its newest message, what is quarantined is closed, and the counter is the number of notes above the watermark; a lemma for each way a row changes, and one for the merge |
| InboxAttentionProofs!MergeKeepsAttention | `[]StartKeepsAttention` | of any group of rows: the merged one is visible, and counts down, as it must (`MergedShows`); of a single row from `Good` (`MergedAlone`) |
| InboxAttentionProofs!ReplayIsHarmless | `Spec => ReplayChangesNothing` | a noted message is no newer than its row, which is where `activate` returns |
| MorningDigestProofs!StoredIsComplete, OneDigestForADay, TypeCorrect | for every digest time and restart: what is stored is complete, and stored once | `Inv`: one job holds the lock or is about to (`OneAtATime`), for a day without a digest (`Fresh`); each dialog that was served is complete above the page it is at (`Pass`), and the last page is what is left (`LastPage`, by cardinality) |
| MorningDigestProofs!EachMessageOnce | one digest time: `[]EveryMessageOnce` | `Aligned`: ends are whole days apart, so that periods do not overlap |
| MorningDigestProofs!EachDayInTurn | one digest time, `2 * MaxRun <= Slots`: `Spec => NoDayIsSkipped` | `NoGap`: no day between the first digest and one that is stored or under way is missing; while there is no digest at all, `Recent`: who waits for the lock is at the day of its predecessor or the next, because it waits for one run at most |
| NoticeProofs!OneMailEach, TypeCorrect | `NobodyChangesKey`, `MaxLag < StaleAfter`: `Spec => []OneMail` | `KeysInv`: who reads the contacts finds a person under one key (`TheKey`), the same for every run (`KeysAreSame`): of a person in the file from the start no contact from Telegram is added, and of another no manual contact gets past `Prune` without the one from Telegram; `ItemsInv` and `ClaimsInv`: what a run holds to be mailed has a row of its own, two runs hold different rows (`Apart`), and what was mailed has a row that was attempted, which no release and no claim touches |
| NoticeProofs!BannerOnce, BannerTypeCorrect | `NotifierSpec => []AtMostOnce` | `CursorInv`: a row that is queued or was shown is behind the cursor in memory and in the file (`NeverAgain`), and a cursor never moves back over one |
| NoticeProofs!SilenceIsKept | `Skew = 0`: `NotifierSpec => []NoMutedBacklog` | `SilenceInv`: for each silent row, the state in memory and the one in the file would pass over it (`Spared`: off, beginning anew, muted after it, or past it), so that a page on its way and a restart both do, and a save that fails leaves one of the two behind |
| DigestContentProofs!EveryChatInItsPlace, EveryCountIsWhole, ContentInvariant, NoMessageIsLost | the three properties of a digest that is made | `ContentInv`: whoever made a part, its items are of its own chats, sit in the section of their type and refer to messages of their chat only (`ItemsIn`), and chunks are made of the rows (`Asked`); no part need be complete.  Then function by function: `Ensure` gives each chat an item with all its messages, `Attach` the media, `MergeByChat` leaves one item for a chat (`OnePerChat`) with all of them, `Enrich` counts them (`SectionIsWhole`), and `Route` takes the urgent chats out (`Routed`) |
| DigestContentProofs!NoMessageIsLost | when none is made, a group or channel was renamed and a part that fell back has an item of it | `LossInv`: a chat is in one part or one chunk only, and a part has one item of a chat unless it fell back on a chat with two titles; hence two items of one chat after the merge of the parts come from such a part (`Once`, function by function up to `Gathered`) |
| DigestContentProofs!CountsAddUp | expected, repeated and unknown chats are those returned and missing, in every chunk, part and digest; a part of the model's own names each chat once | `CountsInv`: an observation balances, by cardinality of the chats named and asked about (`ObservedBalance`; chats of a chunk are distinct, `ChunksDistinct`), and sums of what balances do (`SumsBalance`); a digest whose parts were never asked about has zeros only (`TotalOfZeros`) |
| DigestContentProofs!ChunksAreThePayload, OneChunkWithinTheLimit | chunks put end to end are the payload, none is empty, one of several chats is within MAX_INPUT_TOKENS; what is within it is not cut | position by position: what was cut so far is the payload so far (`FlattenPrefix`) |
| DigestContentProofs!AnalyzedWithinLimits, AnalyzedIsAllWithinLimits | what is given of a chat is within both limits and its own; nothing is left out of a chat within them | position by position, sums of prefixes being smaller (`TotalOfPrefix`) |
| MessageIntakeProofs!ModelPromotesNothing | an answer of the model never makes a message strict | the condition it would have to meet is that of the deterministic rule |
| AlertedIsUrgent, UrgentWasAlerted, CheckTellsTheTruth | intake, digest and `p0_check` agree, with named exceptions | by cases of the type of chat |

What a run checks is inductive in none of these state machines: `OneSender` needs
the ages of claims, the journal needs the lock, the push needs the pair under way,
`StrictIsAlerted` the step of who has the message, the cursor what the backfill has in
hand, the cap what each actor has counted, the unread counter the newest message of the
row, the morning digest the pages of the pass and the age of a wait, the composer the ids
it has used, the birthdays the rows behind what the runs hold, the banners the cursor of
the file, the digest what each part may refer to.

The steps of the digest content are few; the work is in the functions between rows and
digest, which are recursive functions over sequences.  They are followed by the least
position at which a claim would fail (`Induction` in DigestContentProofs, from `WFMin` on
sets of positions), and `Walk` shows that such a function has the values of its equation.

The constants are assumed to be what the code makes them: besides numbers and disjoint
sets of names, that there are finitely many threads (`InboxAttention`), and that the
values standing for "none" are no instant, row, notice or job (`ConstantsAssumption`,
`NoRowAssumption`, `NoNoticeAssumption`, `NotifierAssumption`).  `LeaseOutlivesSend`, one
digest time, `2 * MaxRun <= Slots`, `MaxLag < StaleAfter`, `Skew = 0` and
`NobodyChangesKey` are hypotheses of the theorems that need them, and of no other.  None is
there for the sake of the proof: with a send as long as the lease, with messages that are a
tick old and claimed in the legacy mode, with two digest times, with the digest at midnight
and `MaxRun = 2`, `Slots = 3`, with a wait for Telegram as long as a claim, or with clocks
that differ, TLC finds the properties of those theorems violated.  `NobodyChangesKey` says
that no person whom the file names from the start is in Telegram too.  Those it leaves out
are the persons of `BirthdayNotices_merged`, who are mailed twice, be their contacts cached
or not (section 7).

Only model-checked: all liveness (`JobsAreSettled`, `EveryPostIsAnswered`,
`EveryPushEnds`, `EveryRowIsConsumed`, `CatchesUp`, `BackfillEnds`,
`EveryUpdateIsSettled`), which the prover cannot treat.

## 7. Where the code and its documents disagree

Two disagreements have a run.

- `MessageIntake_missed`: the window of a chat is fixed by its first start
  (`repository.py:283`), and a complete chat is not visited again, so that what
  arrives while the process is down later is not stored.  README.md:43 says that
  private messages are never silently dropped.
- `BirthdayNotices_merged`: the daily job claims by the key of the file, the poll
  by the key of Telegram; a run compares the keys before it claims
  (`birthdays/service.py:210`), so that two runs that overlap mail one person
  twice.  README.md:114 says that such records are merged without a second e-mail.

Others met while modelling; the runs are kept off them by their bounds or by a
named exception in a property:

- a send extends a row nobody opened and starts its countdown (`inbox/store.py:310`;
  `docs/mention_inbox.md:95`): `extended` in `UnreadIsExact` and `UnreadDoesNotExpire`;
- request ids are said to make sends idempotent and drafts to survive in `sessionStorage`
  (`docs/mention_inbox.md:165`); the id does not survive (`app.js:155`), so that a draft
  whose answer a reload lost is sent again under another id: `unsure` in
  `DraftIsSentOnce`;
- of those drafts a reload gives back the text only, the chosen file and the reply are null
  (`app.js:152-157`): the draft is another one, or none if it was a file.
  `NothingWrittenIsLost` excepts what a reload takes beside the text;
- a file dropped on the composer while a send is awaited is wiped by its success
  (`app.js:1330`), and a reply chosen between two attempts of one id is never sent if
  the first had arrived (`app.js:648`): exceptions of `NothingWrittenIsLost`;
- a source selected while an event awaits Telegram gets a topic row beside the
  peer-wide one (`inbox/service.py:397`; `docs/mention_inbox.md:102`);
- a conversation muted during a pass is still pushed in it (`inbox/push.py:168`;
  `tests/test_web_push.py:181`);
- a page answered after a conversation was opened brings its banner back
  (`main.swift:98`; `docs/mention_inbox.md:180`), and a clock that is ahead shows rows
  older than documented (`Core.swift:99`);
- when the save of the switch throws, the notifier answers 503 and takes the state back
  (`main.swift:239`), but the file may have been replaced: after a restart it follows the
  file.  What was raised after such an attempt, while the state in memory was silent and the
  file was not, may then be shown: `Silenced` excepts it from `NoMutedBacklog`;
- a digest time moved between two starts leaves a period that is not a day, or
  overlaps the one before
  (`inbox/digest.py:396`; `tests/test_morning_digest.py:289`); a day the model refuses
  for good holds up the days after it until a restart or the limit;
- a live message that arrives before its chat is listed fixes the cursor beyond
  what was missed (`backfill.py:108`; `tests/test_backfill.py:385`): `base` in
  `CursorIsBehindStored`;
- an update whose chat or sender Telegram does not tell (`mapper.py:84-85`) is lost while
  the process lives: `event_to_stored_message` raises out of the handler and nothing takes it
  up again, although README.md:43 says never silently dropped.  `unread` in
  `EveryUpdateIsSettled`;
- login codes are not mapped "into the durable message/email/LLM pipeline" by the listener
  (`client.py:82-83`), but the backfill of a start knows no such rule and stores and
  classifies those it fetches (`backfill.py:131-239`);
- joining two items of one group or channel assigns `needs_reply` (`services/digest.py:661`),
  a field `DigestGroupUpdate` does not have (`models/schemas.py:136-159`), and pydantic
  raises.  It takes a group or channel renamed in the window and a part that fell back, which
  makes an item of each title (`digest.py:333`).  `generate_digest` fails, the digest stays
  "building" with its messages claimed, and the next run of the day fails alike unless the
  model answers: `Raise`, and the second half of `NothingIsLost`.  Of a private chat the items
  are joined;
- of a chat renamed in the window the digest tells the media of one title only
  (`services/digest.py:270-294`): exception in `CountsAreWhole`;
- a private reply to the owner, and a photo in reply to the owner, are urgent in the
  digest and are not alerted by the intake (`digest.py:781`, `p0.py:611` and `904`): the
  two exceptions of `UrgentWasAlerted`;
- in the legacy mode the alert of an old message may be sent twice (section 5).

## 8. What is not modelled

`PROJECT.json` lists every component with what is left out and why.  In short:
parsing, rendering, wording, logs and settings; the ALTER TABLE statements of
migrations; the cryptography of push and the authorisation of mail; interactive
commands; and, for now, the components of the plan below.  Hazards without a
property: a digest that is never retried (`main.py:75`); a poll of the browser asked for
before the owner opened a conversation, whose answer closes it again (`app.js:1252`); a
crash right after `ADD COLUMN opened_at` (`db/session.py:217`), which SQLite commits
before the UPDATE that goes with it, so that the next start finds nothing to do and
every old row waits to be opened again.  Of the modelled parts:
errors of the database in the intake (a statement that raises ends the handler as a lost
sender does); cleanup of digests older than the retention; the daily quota of manual opens (one may
always happen in the model); the Mac notifier's unreadable state
file; birthdays whose Telegram contact is not cached while the file is edited; the
mention-only mode of intake; the mention-only mode of the alert outbox has no run of
its own, the theorems hold for both modes.

## 9. Plan

Done, in this order: AlertOutbox, InboxAttention, InboxSend, BirthdayNotices,
WebPush, MacNotifier, MorningDigest, MessageIntake, DigestOutbox, DigestContent,
AlertPolicy; then Outbox with its three refinements, the starts of InboxAttention,
DigestHistory, BrowserDraft.

Next, models:

1. Polling against navigation in the browser (`app.js` 1231-1268), beside BrowserDraft.
2. Cached media (`inbox/service.py` 1924-2097): files that are downloaded, served, and
   evicted by number, size and age while they are read; a restart cleans up all.
3. The library page (`inbox/service.py` 989-1260): dialog tokens, search, pins, media of a
   source that was switched off.
4. The mention-only mode of intake, and `classify_p0` of the LLM client.
5. The quota of manual opens (`inbox/store.py` 600-642).

Next, theorems: those of the models above, once they are written.
