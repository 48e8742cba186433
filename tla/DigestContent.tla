---------------------------- MODULE DigestContent ----------------------------
(***************************************************************************)
(* What a daily digest says (services/digest.py generate_digest) and how   *)
(* the model is asked for it (llm/client.py): the rows are cut to limits   *)
(* and into chunks, each chunk is put to the model with one repair and     *)
(* falls back to local summaries, and the parts are merged, completed and  *)
(* routed.  Texts are left out: an item is the chat and the messages it    *)
(* refers to, a title is a number, a size stands for characters and for    *)
(* tokens.                                                                 *)
(***************************************************************************)
EXTENDS Integers, Sequences, FiniteSets, SequencesExt

CONSTANTS
    Chats, Stranger,    \* the chats; one the model makes up
    Kinds,              \* what a row can be, apart from its chat
    MaxRows,
    MaxPerChat,         \* MAX_MESSAGES_PER_CHAT
    MaxChars,           \* MAX_CHARS_PER_GROUP
    MaxTokens,          \* MAX_INPUT_TOKENS
    Dated,              \* what the date adds to the weight of a payload
    MaxItems,           \* items in an answer
    None

Sections == {"private", "group", "channel"}

ASSUME ConstantsAssumption ==
    /\ Stranger \notin Chats /\ None \notin Nat
    /\ MaxPerChat \in Nat \ {0} /\ MaxChars \in Nat /\ MaxTokens \in Nat /\ Dated \in Nat
    /\ MaxRows \in Nat /\ MaxItems \in Nat
    /\ \A k \in Kinds : /\ k.title \in Nat /\ k.size \in 0..MaxChars
                        /\ {k.media, k.urgent, k.wanted} \subseteq BOOLEAN

VARIABLES
    type,       \* of each chat; a supergroup is a group
    rows,       \* the messages by title, then by time
    step,
    chunks,     \* the payloads still to be asked about
    seen,       \* LLMValidationState of the chunk in hand
    parts,      \* the digests of the chunks
    digest      \* the result

vars == <<type, rows, step, chunks, seen, parts, digest>>

\* A row is wanted if it is incoming and its chat is not ignored.
Init ==
    /\ type \in [Chats -> Sections]
    /\ \E n \in 1..MaxRows : \E c \in [1..n -> Chats], k \in [1..n -> Kinds] :
         rows = [i \in 1..n |-> [id |-> i, chat |-> c[i], title |-> k[i].title,
                                 size |-> k[i].size, media |-> k[i].media,
                                 urgent |-> k[i].urgent, wanted |-> k[i].wanted]]
         /\ \A i, j \in 1..n : i < j => k[i].title <= k[j].title
    /\ step = "start" /\ chunks = <<>> /\ seen = None /\ parts = <<>> /\ digest = None

------------------------------------------------------------------------------
\* Rows and what is asked about them.

\* The elements of s at the positions of I, in their order.
At(s, I) ==
    LET got[i \in 0..Len(s)] ==
          IF i = 0 THEN <<>> ELSE IF i \in I THEN Append(got[i - 1], s[i]) ELSE got[i - 1]
    IN got[Len(s)]

Of(s, c) == At(s, {i \in DOMAIN s : s[i].chat = c})
Titled(s, g) == At(s, {i \in DOMAIN s : <<s[i].chat, s[i].title>> = g})
Media(s) == At(s, {i \in DOMAIN s : s[i].media})
Urgent(s) == At(s, {i \in DOMAIN s : s[i].urgent})
Ids(s) == {s[i].id : i \in DOMAIN s}

\* The keys of a dict that is filled in the order of the sequence.
Firsts(s) == {i \in DOMAIN s : \A j \in 1..(i - 1) : s[j] # s[i]}
Keys(s) == At(s, Firsts(s))

ChatSeq(s) == [i \in DOMAIN s |-> s[i].chat]
ChatsOf(s) == Keys(ChatSeq(s))
TitlesOf(s) == Keys([i \in DOMAIN s |-> <<s[i].chat, s[i].title>>])

Total(s) ==
    LET sum[i \in 0..Len(s)] == IF i = 0 THEN 0 ELSE sum[i - 1] + s[i]
    IN sum[Len(s)]

Chars(s) == Total([i \in DOMAIN s |-> s[i].size])

\* The messages of a chat the model gets: one that does not fit is left out, those after
\* it may fit.
Analyzed(s) ==
    LET got[i \in 0..Len(s)] ==
          IF i = 0 THEN <<>>
          ELSE LET acc == got[i - 1] IN
               IF Len(acc) >= MaxPerChat \/ Chars(acc) + s[i].size > MaxChars
                 THEN acc ELSE Append(acc, s[i])
    IN got[Len(s)]

Entry(s, c) == [chat |-> c, messages |-> Analyzed(Of(s, c))]
Payload(s) == LET cs == ChatsOf(s) IN [i \in DOMAIN cs |-> Entry(s, cs[i])]

Weight(chunk) == Total([i \in DOMAIN chunk |-> 1 + Chars(chunk[i].messages)])

\* A payload within the limit is one chunk.
Chunks(payload) ==
    LET cut[i \in 0..Len(payload)] ==
          IF i = 0 THEN <<>>
          ELSE LET acc == cut[i - 1] IN
               IF acc # <<>> /\ Weight(Append(acc[Len(acc)], payload[i])) <= MaxTokens
                 THEN [acc EXCEPT ![Len(acc)] = Append(@, payload[i])]
                 ELSE Append(acc, <<payload[i]>>)
    IN cut[Len(payload)]

\* A chunk is weighed again with the date, the payload that was not cut is not.
Fits(chunk) == Weight(Payload(rows)) <= MaxTokens \/ Weight(chunk) + Dated <= MaxTokens

ChunkChats(chunk) == {chunk[i].chat : i \in DOMAIN chunk}
ChunkRows(chunk) == At(rows, {i \in DOMAIN rows : rows[i].chat \in ChunkChats(chunk)})

------------------------------------------------------------------------------
\* Items.

Item(c, refs, count, by) ==
    [chat |-> c, refs |-> refs, count |-> count, analyzed |-> None, media |-> {}, by |-> by]

InSection(cs, x) == At(cs, {i \in DOMAIN cs : type[cs[i]] = x})

\* The media of a chat are counted by title: the last title counts.
Attach(items, s) ==
    LET media == Media(s)
        counted(item, own) ==
          IF own = <<>> THEN item
          ELSE [item EXCEPT !.media = Ids(Titled(own, Last(TitlesOf(own))))]
    IN [i \in DOMAIN items |-> counted(items[i], Of(media, items[i].chat))]

\* One item for each title of each chat, of all its messages.
Fallback(s) ==
    LET titles == TitlesOf(s)
        groups(x) == At(titles, {i \in DOMAIN titles : type[titles[i][1]] = x})
        item(g, own) == Item(g[1], Ids(own), Len(own), "local")
        items(gs) == [i \in DOMAIN gs |-> item(gs[i], Titled(s, gs[i]))]
    IN [x \in Sections |-> Attach(items(groups(x)), s)]

\* One item for each chat of the answer, of the messages the model was given.
Answered(chunk, cs) ==
    LET given(c) == CHOOSE p \in ToSet(chunk) : p.chat = c
        item(c, ms) == Item(c, Ids(ms), Len(ms), "model")
        items(own) == [i \in DOMAIN own |-> item(own[i], given(own[i]).messages)]
    IN [x \in Sections |-> items(InSection(cs, x))]

Merged(ds, x) == FlattenSeq([i \in DOMAIN ds |-> ds[i][x]])

\* Items that refer to no chat are dropped; none is made that refers to several.
Drop(items) == At(items, {i \in DOMAIN items : items[i].refs # {}})

Missing(items, cs) == At(cs, {i \in DOMAIN cs : \A j \in DOMAIN items : items[j].chat # cs[i]})

\* Faulty: an item the model made keeps to the messages the model got.
EnsureMissing(items, s, x) ==
    LET missing == Missing(items, InSection(ChatsOf(s), x))
    IN items \o [i \in DOMAIN missing |-> Item(missing[i], Ids(Of(s, missing[i])), 0, "local")]

\* The first item of a chat gets all its messages, a chat without one gets an item.
Ensure(items, s, x) ==
    LET all(c) == Ids(Of(s, c))
        missing == Missing(items, InSection(ChatsOf(s), x))
    IN [i \in DOMAIN items |->
          IF i \in Firsts(ChatSeq(items)) THEN [items[i] EXCEPT !.refs = @ \cup all(items[i].chat)]
          ELSE items[i]]
       \o [i \in DOMAIN missing |-> Item(missing[i], all(missing[i]), 0, "local")]

\* Faulty: the items a fallback makes for the titles of a renamed chat stay apart.
MergeNothing(items) == items

\* The item of a chat: the first of them with all their messages; the media are those of
\* the first that has any.
Joined(own) ==
    LET withMedia == At(own, {i \in DOMAIN own : own[i].media # {}})
    IN [own[1] EXCEPT !.refs = UNION {own[i].refs : i \in DOMAIN own},
                      !.media = IF withMedia = <<>> THEN {} ELSE withMedia[1].media]

MergeByChat(items) ==
    LET cs == ChatsOf(items) IN [i \in DOMAIN cs |-> Joined(Of(items, cs[i]))]

\* Messages are counted, and chats of which the model was not given all are told so.
Enrich(items, s) ==
    LET counted(item, own, given) ==
          [item EXCEPT !.count = Cardinality(item.refs),
                       !.analyzed = IF given < Len(own) THEN given ELSE @]
        own(i) == Of(s, items[i].chat)
    IN [i \in DOMAIN items |-> counted(items[i], own(i), Len(Analyzed(own(i))))]

ItemsOf(d) == UNION {ToSet(d[x]) : x \in Sections}

\* The items of the chats that are not among cs.
Without(items, cs) == At(items, {i \in DOMAIN items : items[i].chat \notin ToSet(cs)})

\* Faulty: an alert counts its own messages.
RouteCounting(d, s) ==
    LET cs == ChatsOf(Urgent(s))
        alert(c) == Item(c, Ids(Of(Urgent(s), c)), Len(Of(Urgent(s), c)), "local")
    IN [sections |-> [x \in Sections |-> Without(d[x], cs)],
        alerts |-> [i \in DOMAIN cs |-> alert(cs[i])]]

\* A chat with an urgent message leaves its section for the alerts, which refer to its
\* urgent messages only and take the counts of its item.
Route(d, s) ==
    LET cs == ChatsOf(Urgent(s))
        item(c) == CHOOSE i \in ItemsOf(d) : i.chat = c
        alert(c) == [item(c) EXCEPT !.refs = Ids(Of(Urgent(s), c)), !.media = {}, !.by = "local"]
    IN [sections |-> [x \in Sections |-> Without(d[x], cs)],
        alerts |-> [i \in DOMAIN cs |-> alert(cs[i])]]

\* Items are made in the section of their chat, so that none is reclassified.
Gathered(ds, s, x) == Attach(Ensure(Drop(Merged(ds, x)), s, x), s)

\* Joining two items assigns needs_reply, a field only those of private chats have: pydantic
\* raises for a group or a channel.
Unjoinable(ds, s) ==
    \E x \in Sections \ {"private"} :
      LET items == Gathered(ds, s, x)
      IN \E i, j \in DOMAIN items : i # j /\ items[i].chat = items[j].chat

Section(ds, s, x) == Enrich(MergeByChat(Gathered(ds, s, x)), s)

Assembled(ds, s) == Route([x \in Sections |-> Section(ds, s, x)], s)

------------------------------------------------------------------------------
\* Asking the model.

Fresh(chunk) ==
    [expected |-> Len(chunk), returned |-> 0, missing |-> Len(chunk), duplicate |-> 0,
     unknown |-> 0]

\* An answer is text that is no JSON object, an object of another shape, a list of items
\* with a field amiss or a summary that is only a count, or well formed.
Answers ==
    {[form |-> f, items |-> <<>>] : f \in {"text", "shape"}}
    \cup {[form |-> f, items |-> cs] : f \in {"amiss", "good"},
                                       cs \in BoundedSeq(Chats \cup {Stranger}, MaxItems)}

\* observe_document: what was returned is counted before it is validated.
Observed(a, chunk, s) ==
    LET expected == ChunkChats(chunk)
        returned == ToSet(a.items)
    IN IF a.form = "text" THEN s
       ELSE [expected |-> s.expected, returned |-> Len(a.items),
             missing |-> Cardinality(expected \ returned),
             duplicate |-> Len(a.items) - Cardinality(returned),
             unknown |-> Cardinality(returned \ expected)]

Valid(a, chunk) ==
    /\ a.form = "good"
    /\ Len(a.items) = Cardinality(ToSet(a.items))
    /\ ToSet(a.items) = ChunkChats(chunk)

\* The part of the chunk in hand is there.
Settle(items, used, counts) ==
    /\ parts' = Append(parts, [items |-> items, used |-> used, counts |-> counts])
    /\ chunks' = Tail(chunks) /\ step' = "next" /\ seen' = None
    /\ UNCHANGED <<type, rows, digest>>

Zero == [expected |-> 0, returned |-> 0, missing |-> 0, duplicate |-> 0, unknown |-> 0]

Prepare ==
    LET wanted == At(rows, {i \in DOMAIN rows : rows[i].wanted}) IN
    /\ step = "start"
    /\ rows' = wanted
    /\ chunks' = Chunks(Payload(wanted))
    /\ step' = "next"
    /\ UNCHANGED <<type, seen, parts, digest>>

TooLarge ==
    /\ step = "next" /\ chunks # <<>> /\ ~Fits(Head(chunks))
    /\ Settle(Fallback(ChunkRows(Head(chunks))), FALSE, Zero)

Ask ==
    /\ step = "next" /\ chunks # <<>> /\ Fits(Head(chunks))
    /\ seen' = Fresh(Head(chunks))
    /\ step' = "schema"
    /\ UNCHANGED <<type, rows, chunks, parts, digest>>

\* The service refuses the schema (OpenAIError): it is asked again without.
Refuse ==
    /\ step \in {"schema", "repair"}
    /\ step' = IF step = "schema" THEN "plain" ELSE "repair plain"
    /\ UNCHANGED <<type, rows, chunks, seen, parts, digest>>

\* Any other error, any error of the second try, an empty answer.
Fail ==
    /\ step \in {"schema", "plain", "repair", "repair plain"}
    /\ Settle(Fallback(ChunkRows(Head(chunks))), FALSE,
              IF step \in {"schema", "plain"} THEN Zero ELSE seen)

Answer(a) ==
    LET chunk == Head(chunks)
        now == Observed(a, chunk, seen)
    IN
    \/ /\ step \in {"schema", "plain", "repair", "repair plain"} /\ Valid(a, chunk)
       /\ Settle(Answered(chunk, a.items), TRUE, now)
    \/ /\ step \in {"schema", "plain"} /\ ~Valid(a, chunk)
       /\ step' = "repair" /\ seen' = now
       /\ UNCHANGED <<type, rows, chunks, parts, digest>>
    \/ /\ step \in {"repair", "repair plain"} /\ ~Valid(a, chunk)
       /\ Settle(Fallback(ChunkRows(chunk)), FALSE, now)

\* The counts of the parts; a digest the model had no part in misses all its chats.
Totals ==
    LET summed == [f \in DOMAIN Zero |-> Total([i \in DOMAIN parts |-> parts[i].counts[f]])]
        expected == IF summed.expected = 0 THEN Len(ChatsOf(rows)) ELSE summed.expected
        unasked == /\ \A p \in ToSet(parts) : ~p.used
                   /\ summed.returned = 0 /\ summed.missing = 0
    IN [summed EXCEPT !.expected = expected,
                      !.missing = IF unasked THEN expected ELSE summed.missing]

PartItems == [i \in DOMAIN parts |-> parts[i].items]

Finish ==
    /\ step = "next" /\ chunks = <<>> /\ rows # <<>>
    /\ ~Unjoinable(PartItems, rows)
    /\ digest' = [content |-> Assembled(PartItems, rows),
                  fallback |-> \E p \in ToSet(parts) : ~p.used,
                  counts |-> Totals]
    /\ step' = "done"
    /\ UNCHANGED <<type, rows, chunks, seen, parts>>

\* The error leaves generate_digest: the window has no digest.
Raise ==
    /\ step = "next" /\ chunks = <<>> /\ rows # <<>>
    /\ Unjoinable(PartItems, rows)
    /\ step' = "failed"
    /\ UNCHANGED <<type, rows, chunks, seen, parts, digest>>

Nothing ==
    /\ step = "next" /\ rows = <<>>
    /\ step' = "done"
    /\ UNCHANGED <<type, rows, chunks, seen, parts, digest>>

Next ==
    \/ Prepare \/ TooLarge \/ Ask \/ Refuse \/ Fail
    \/ \E a \in Answers : Answer(a)
    \/ Finish \/ Raise \/ Nothing

Spec == Init /\ [][Next]_vars

------------------------------------------------------------------------------
\* What a digest must be, whatever the model answers and however the rows are cut.

Ready == step = "done" /\ digest # None
Sectioned == digest.content.sections
Alerts == digest.content.alerts
Places(items, c) == {i \in DOMAIN items : items[i].chat = c}
UrgentIds(c) == {r.id : r \in {x \in ToSet(Of(rows, c)) : x.urgent}}
Renamed(c) == Len(TitlesOf(Of(rows, c))) > 1

\* Every chat with a message has one item and nothing else has: among the alerts if one
\* of its messages is urgent, otherwise in the section of its type.  It is about
\* generate_digest (services/digest.py:931-954), whose items are made in four places.
EachChatInItsPlace ==
    Ready => \A c \in Chats \cup {Stranger} :
      LET place == IF UrgentIds(c) # {} THEN "alerts" ELSE
                   IF c \in ToSet(ChatsOf(rows)) THEN type[c] ELSE "nowhere"
      IN /\ Cardinality(Places(Alerts, c)) = IF place = "alerts" THEN 1 ELSE 0
         /\ \A x \in Sections :
              Cardinality(Places(Sectioned[x], c)) = IF place = x THEN 1 ELSE 0

\* An item says how many messages its chat has and, if the model got fewer, how many it
\* got; so does an alert, which refers to a part of them (services/digest.py:716-736,
\* 841-851).  Media are all there, except of a chat that was renamed in the window.
CountsAreWhole ==
    Ready => \A item \in ItemsOf(Sectioned) \cup ToSet(Alerts) :
      LET own == Of(rows, item.chat)
          given == Len(Analyzed(own))
          media == Of(Media(rows), item.chat)
      IN /\ item.count = Len(own)
         /\ item.analyzed = IF given < Len(own) THEN given ELSE None
         /\ item \in ItemsOf(Sectioned) /\ Len(TitlesOf(media)) = 1
              => item.media = Ids(media)

\* The items refer to all messages of their chats, those the model never got included,
\* the alerts to the urgent ones, and to nothing else (services/digest.py:563-591,
\* 829-838).  A window is lost as a whole only by what line 661 raises: a group or channel
\* was renamed in it, and a part that fell back has an item of that chat.
NothingIsLost ==
    /\ Ready => /\ \A item \in ItemsOf(Sectioned) : item.refs = Ids(Of(rows, item.chat))
                /\ \A item \in ToSet(Alerts) : item.refs = UrgentIds(item.chat)
    /\ step = "failed" =>
         \E c \in Chats, p \in ToSet(parts) :
           /\ type[c] # "private" /\ Renamed(c)
           /\ ~p.used /\ \E item \in ItemsOf(p.items) : item.chat = c
=============================================================================
