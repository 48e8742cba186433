---------------------------- MODULE BrowserDraft ----------------------------
(***************************************************************************)
(* The composer of the browser (inbox/static/app.js) before the sends of   *)
(* InboxSend: the draft of one conversation in one tab, the request id it  *)
(* goes under, and what the tab makes of an answer, of no answer and of a  *)
(* reload.  A draft whose text or file changes gets a new id; one that is  *)
(* posted again after an error, or gets a reply, keeps it.                 *)
(*                                                                         *)
(* What the owner wrote is a version; each change of it is a new one, of   *)
(* which the model knows whether it has a text, a file and a reply.  The   *)
(* posts are those of the tab, or else those of any client: an id under    *)
(* way in several conversations at once is none of this tab's doing.  What *)
(* the tab does takes less than the day the server keeps a record.         *)
(***************************************************************************)
EXTENDS InboxSend

CONSTANTS
    Target,    \* the conversation, or library source, of the tab
    MaxEdits,  \* bound on the versions of the draft
    Tab,       \* bound on the posts of the tab that are under way: their handlers
    Foreign,   \* request ids of any client
    NoRequest

ASSUME BrowserAssumption ==
    /\ Target \in Scopes /\ Tab \subseteq Handlers /\ Foreign \subseteq Requests
    /\ MaxEdits \in Nat /\ NoRequest \notin Requests

VARIABLES
    client,    \* who posts: "tab" or "any"
    draft,     \* what the composer holds, 0 if nothing
    edits,     \* versions so far
    parts,     \* what the version in the composer consists of
    request,   \* requestId of the draft
    waiting,   \* sending: the handler whose answer the tab awaits
    meant,     \* history: the version a request id was made for
    unsure     \* history: versions with an id that a reload forgot

browser == <<client, draft, edits, parts, request, waiting, meant, unsure>>

Parts == {"text", "file", "reply"}

BrowserTypeOK ==
    /\ client \in {"tab", "any"}
    /\ draft \in 0..edits /\ edits \in 0..MaxEdits /\ parts \subseteq Parts
    /\ request \in Requests \cup {NoRequest}
    /\ waiting \in Handlers \cup {NoHandler}
    /\ meant \in [Requests -> 0..edits]
    /\ unsure \subseteq 1..edits

BrowserInit ==
    /\ Init
    /\ client \in {"tab", "any"}
    /\ draft = 0 /\ edits = 0 /\ parts = {}
    /\ request = NoRequest /\ waiting = NoHandler
    /\ meant = [r \in Requests |-> 0]
    /\ unsure = {}

\* The draft becomes another version.
NewVersion ==
    /\ edits < MaxEdits
    /\ edits' = edits + 1
    /\ draft' = edits + 1

\* The owner writes or deletes, or attaches or removes a file.  While the draft is being
\* sent he can do no more than drop a file on it.
Change ==
    /\ client = "tab" /\ NewVersion
    /\ \E written \in SUBSET {"text", "file"} :
         /\ draft = 0 => written # {}
         /\ waiting # NoHandler => written = (parts \cap {"text"}) \cup {"file"}
         /\ parts' = written \cup (parts \cap {"reply"})
    /\ request' = NoRequest
    /\ UNCHANGED <<vars, client, waiting, meant, unsure>>

\* The owner picks a message to reply to, or none: the draft is another one, under the
\* id it had.
ChooseReply ==
    /\ draft # 0 /\ NewVersion
    /\ \/ parts' = parts \cup {"reply"}
       \/ "reply" \in parts /\ parts' = parts \ {"reply"}
    /\ UNCHANGED <<vars, client, request, waiting, meant, unsure>>

\* crypto.randomUUID.
Fresh == {r \in Requests : meant[r] = 0}

\* Faulty: a new id for each attempt.
RequestIdsAnew == Fresh

\* value.requestId ||= ...
RequestIds == IF request = NoRequest THEN Fresh ELSE {request}

\* A new post has a handler of its own.
FreeHandler == CHOOSE h \in Tab : pc[h] = "idle"

\* The form is submitted: the post reaches a handler, or the network fails at once.
Submit ==
    /\ draft # 0 /\ waiting = NoHandler /\ parts \cap {"text", "file"} # {}
    /\ \E r \in RequestIds :
         /\ request' = r
         /\ meant' = [meant EXCEPT ![r] = IF @ = 0 THEN draft ELSE @]
         /\ \/ /\ \E h \in Tab : pc[h] = "idle"
               /\ Post(FreeHandler, [request |-> r, scope |-> Target])
               /\ waiting' = FreeHandler
            \/ UNCHANGED <<vars, waiting>>
    /\ UNCHANGED <<client, draft, edits, parts, unsure>>

\* Faulty: any answer empties the composer.
HeardAnyAnswer ==
    /\ waiting # NoHandler
    /\ pc[waiting] = "idle" /\ answer[waiting] # "none"
    /\ draft' = 0 /\ parts' = {} /\ request' = NoRequest
    /\ waiting' = NoHandler
    /\ post' = [post EXCEPT ![waiting] = NoPost]
    /\ answer' = [answer EXCEPT ![waiting] = "none"]
    /\ UNCHANGED <<record, lock, pc, delivered, purged, crashes>>
    /\ UNCHANGED <<client, edits, meant, unsure>>

\* Success empties the composer, whatever it holds by now; after an error the draft
\* and its id stay.
Heard ==
    /\ waiting # NoHandler
    /\ pc[waiting] = "idle" /\ answer[waiting] # "none"
    /\ IF answer[waiting] = "ok" THEN draft' = 0 /\ parts' = {} /\ request' = NoRequest
       ELSE UNCHANGED <<draft, parts, request>>
    /\ waiting' = NoHandler
    /\ post' = [post EXCEPT ![waiting] = NoPost]
    /\ answer' = [answer EXCEPT ![waiting] = "none"]
    /\ UNCHANGED <<record, lock, pc, delivered, purged, crashes>>
    /\ UNCHANGED <<client, edits, meant, unsure>>

\* The connection breaks before the answer, which the handler still makes.
Unheard ==
    /\ waiting # NoHandler
    /\ waiting' = NoHandler
    /\ UNCHANGED <<vars, client, draft, edits, parts, request, meant, unsure>>

\* sessionStorage keeps the text of the draft, and nothing else of it: without its file
\* or its reply it is another version, without a text there is none.
Reload ==
    /\ draft # 0
    /\ parts' = parts \cap {"text"}
    /\ \/ parts' = parts /\ parts # {} /\ UNCHANGED <<draft, edits>>
       \/ parts' # parts /\ parts' # {} /\ NewVersion
       \/ parts' = {} /\ draft' = 0 /\ UNCHANGED edits
    /\ request' = NoRequest /\ waiting' = NoHandler
    /\ unsure' = IF request = NoRequest THEN unsure ELSE unsure \cup {draft}
    /\ UNCHANGED <<vars, client, meant>>

PostOfAny(h, p) ==
    /\ client = "any" /\ p.request \in Foreign
    /\ Post(h, p)
    /\ UNCHANGED browser

BrowserNext ==
    \/ Change \/ ChooseReply \/ Submit \/ Heard \/ Unheard \/ Reload
    \/ \E h \in Handlers : \/ Step(h) /\ UNCHANGED browser
                           \/ \E p \in Posts : PostOfAny(h, p)
    \/ Crash /\ UNCHANGED browser
    \/ client = "any" /\ (Tick \/ Cleanup) /\ UNCHANGED browser

BrowserSpec == BrowserInit /\ [][BrowserNext]_<<vars, browser>> /\ Fairness

------------------------------------------------------------------------------
\* Properties.

\* The requests made for a version, and the messages they became.
RequestsOf(v) == {r \in Requests : meant[r] = v}
MessagesOf(v) == {m \in RequestsOf(v) \X Scopes : delivered[m] > 0}

\* What the owner wrote becomes one message at most, in one conversation, however
\* often he submits it and whatever is lost, refused or dies between his tab and
\* Telegram, as long as the tab is not reloaded.
DraftIsSentOnce ==
    \A v \in 1..edits : v \notin unsure =>
        /\ Cardinality(MessagesOf(v)) <= 1
        /\ \A m \in MessagesOf(v) : delivered[m] = 1

\* Nothing that was written disappears from the composer, unless Telegram has the whole
\* version it holds, in the conversation of the tab: the owner takes it away himself, or
\* the page is reloaded, which keeps the text.  (A draft that got a file while it was
\* being sent, or a reply after it was posted, is the exception.)
NothingWrittenIsLost ==
    [][\/ parts \subseteq parts'
       \/ Change \/ ChooseReply
       \/ Reload /\ ("text" \in parts => "text" \in parts')
       \/ \E m \in MessagesOf(draft) : m[2] = Target
       \/ waiting # NoHandler /\ meant[Request(waiting)] # draft]_<<vars, browser>>

------------------------------------------------------------------------------
\* Why they hold: the inductive invariant in BrowserProofs, beside that of
\* InboxSend.

\* Either the tab posts, and no record of its posts is forgotten, or the others do.
OneClient ==
    /\ client = "tab" => purged = {}
    /\ client = "any" => /\ draft = 0 /\ edits = 0 /\ waiting = NoHandler
                         /\ request = NoRequest

AwaitedPost == waiting # NoHandler => post[waiting] \in Posts /\ Scope(waiting) = Target

\* A version goes under one id, the one the tab keeps as long as it holds the version.
OneRequest ==
    /\ request # NoRequest => draft # 0 /\ meant[request] # 0
    /\ \A q \in Requests : meant[q] # 0 /\ meant[q] \notin unsure =>
         /\ meant[q] = draft => request = q
         /\ \A r \in Requests : meant[r] = meant[q] => r = q

BrowserInv == Safe /\ BrowserTypeOK /\ OneClient /\ AwaitedPost /\ OneRequest
=============================================================================
