-------------------------- MODULE GenerationDetails --------------------------
(***************************************************************************)
(* The recall details of a chat's replies: what was recalled for a reply    *)
(* and the prompt it was generated from, kept by the place the reply has in *)
(* the chat.  The chat belongs to the host.  When its user deletes messages, *)
(* edits one or deletes one of its swipes, an event lets the details follow: *)
(* some are moved to their new place, others invalidated and their prompt    *)
(* deleted.  The handlers of events run at the same time, each reads the     *)
(* details first and writes them at the versions it read.                   *)
(*                                                                         *)
(* A reply is a number, in the order of generation.  The host gives its      *)
(* messages neither stable ids nor times, so a place is all there is.        *)
(***************************************************************************)
EXTENDS Naturals, Sequences

CONSTANTS
    Words,        \* texts of replies
    MaxReplies,   \* bound: replies generated
    MaxChanges    \* bound: changes by the user

ASSUME ReplyBound == MaxReplies \in Nat

VARIABLES
    replies,     \* the chat: a message is its swipes and the one shown
    details,    \* the rows of generation-recall-details, by reply
    prompts,    \* replies with a manifest and chunks in the snapshot collections
    commits,    \* completed generations, waiting to be stored
    followers,  \* handlers of the events of changes
    changes,
    crossed     \* history: handlers or commits overlapped, or a write failed

detailVars == <<replies, details, prompts, commits, followers, changes, crossed>>

Swipe(reply, word) == [reply |-> reply, word |-> word, edited |-> FALSE]
SwipesOf(i) == replies[i].swipes
Made == Len(commits.done) + Len(commits.queue)

DetailInit ==
    /\ replies = <<>> /\ details = <<>> /\ prompts = {}
    /\ commits = [queue |-> <<>>, done |-> <<>>]
    /\ followers = {} /\ changes = 0 /\ crossed = FALSE

\* What the preview of a reply finds: matchDetail, among the rows of the place.
Matching(i, v) ==
    {r \in DOMAIN details :
        /\ ~details[r].invalid
        /\ details[r].floor = i /\ details[r].variant = v
        /\ details[r].word = SwipesOf(i)[v].word}

-----------------------------------------------------------------------------
(* Replies and their details. *)

\* A reply is a new message, or a swipe of the last one.
Reply ==
    /\ Made < MaxReplies
    /\ \E word \in Words, again \in BOOLEAN :
          /\ again => replies # <<>>
          /\ LET swipe == Swipe(Made + 1, word)
                 last == Len(replies)
             IN  /\ replies' = IF again
                              THEN [replies EXCEPT ![last] = [swipes |-> Append(@.swipes, swipe), at |-> Len(@.swipes) + 1]]
                              ELSE Append(replies, [swipes |-> <<swipe>>, at |-> 1])
                 /\ commits' = [commits EXCEPT !.queue = Append(@,
                        [reply |-> Made + 1, word |-> word, floor |-> Len(replies'),
                         variant |-> replies'[Len(replies')].at])]
    /\ crossed' = (crossed \/ followers # {})
    /\ UNCHANGED <<details, prompts, followers, changes>>

Row(c) == [floor |-> c.floor, variant |-> c.variant, word |-> c.word, invalid |-> FALSE, version |-> 1]

\* Mutant: a commit that is sent again overwrites the row.
WrittenAgain(reply) == FALSE

\* The commit of a reply that has a row is answered without a write, or refused
\* when its prompt has gone since.
AlreadyStored(reply) == reply \in DOMAIN details

\* commitMainChatGenerationForScope: usage, detail and prompt in one apply.  Its
\* answer may be lost, and the commit is sent again.
CommitDetail ==
    /\ commits.queue # <<>>
    /\ LET c == Head(commits.queue)
       IN  /\ IF AlreadyStored(c.reply)
              THEN UNCHANGED <<details, prompts>>
              ELSE /\ details' = [r \in DOMAIN details \cup {c.reply} |-> IF r = c.reply THEN Row(c) ELSE details[r]]
                   /\ prompts' = prompts \cup {c.reply}
           /\ \E answered \in BOOLEAN :
                 /\ ~answered => c.reply \notin DOMAIN details
                 /\ commits' = IF answered THEN [queue |-> Tail(commits.queue), done |-> Append(commits.done, c.reply)]
                               ELSE commits
    /\ UNCHANGED <<replies, followers, changes, crossed>>

-----------------------------------------------------------------------------
(* Changes of the chat, each with the event that tells of it. *)

Event(what, i, n, word) ==
    [what |-> what, floor |-> i, n |-> n, word |-> word, id |-> changes + 1, step |-> "scan",
     rows |-> <<>>, purge |-> {}]

Tell(event) ==
    /\ changes < MaxChanges
    /\ changes' = changes + 1
    /\ followers' = followers \cup {event}
    /\ crossed' = (crossed \/ followers # {} \/ commits.queue # <<>>)
    /\ UNCHANGED <<details, prompts, commits>>

\* n members from place i on are taken out.
Cut(members, i, n) == SubSeq(members, 1, i - 1) \o SubSeq(members, i + n, Len(members))

DeleteMessages ==
    \E i \in DOMAIN replies, n \in 1..Len(replies) :
        /\ i + n - 1 <= Len(replies)
        /\ replies' = Cut(replies, i, n)
        /\ Tell(Event("deleted", i, n, "none"))

EditMessage ==
    \E i \in DOMAIN replies, word \in Words :
        LET v == replies[i].at
        IN  /\ word # SwipesOf(i)[v].word
            /\ replies' = [replies EXCEPT ![i].swipes[v] = [@ EXCEPT !.word = word, !.edited = TRUE]]
            /\ Tell(Event("edited", i, v, word))

DeleteSwipe ==
    \E i \in DOMAIN replies, v \in 1..MaxReplies :
        /\ Len(SwipesOf(i)) > 1 /\ v \in DOMAIN SwipesOf(i)
        /\ replies' = [replies EXCEPT ![i] =
              [swipes |-> Cut(@.swipes, v, 1), at |-> IF v = Len(@.swipes) THEN v - 1 ELSE v]]
        /\ Tell(Event("swipe_deleted", i, v, "none"))

-----------------------------------------------------------------------------
(* The handlers. *)

Invalid(row) == [row EXCEPT !.invalid = TRUE]

\* Mutant: what follows a deletion moves up by one.
MovedByOne(e, row) == IF row.floor < e.floor + e.n THEN Invalid(row) ELSE [row EXCEPT !.floor = @ - 1]

AfterDeletion(e, row) == IF row.floor < e.floor + e.n THEN Invalid(row) ELSE [row EXCEPT !.floor = @ - e.n]

AfterSwipeDeletion(e, row) == IF row.variant = e.n THEN Invalid(row) ELSE [row EXCEPT !.variant = @ - 1]

Concerned(e, row) ==
    CASE e.what = "deleted" -> row.floor >= e.floor
      [] e.what = "edited" -> ~row.invalid /\ row.floor = e.floor /\ row.variant = e.n /\ row.word # e.word
      [] e.what = "swipe_deleted" -> row.floor = e.floor /\ row.variant >= e.n

Changed(e, row) ==
    CASE e.what = "deleted" -> AfterDeletion(e, row)
      [] e.what = "edited" -> Invalid(row)
      [] e.what = "swipe_deleted" -> AfterSwipeDeletion(e, row)

Steps(e, changed) == followers' = (followers \ {e}) \cup {changed}

\* The rows an event concerns are read; a handler that finds none is done.
ScanDetails ==
    \E e \in followers :
        /\ e.step = "scan"
        /\ LET rows == {r \in DOMAIN details : Concerned(e, details[r])}
           IN  IF rows = {} THEN followers' = followers \ {e}
               ELSE Steps(e, [e EXCEPT !.step = "read", !.rows = [r \in rows |-> details[r]]])
        /\ UNCHANGED <<replies, details, prompts, commits, changes, crossed>>

\* The prompts of the rows that are invalidated.
Purged(e) == {r \in DOMAIN e.rows : Changed(e, e.rows[r]).invalid /\ ~e.rows[r].invalid} \cap prompts

ReadPrompts ==
    \E e \in followers :
        /\ e.step = "read"
        /\ Steps(e, [e EXCEPT !.step = "write", !.purge = Purged(e)])
        /\ UNCHANGED <<replies, details, prompts, commits, changes, crossed>>

AsRead(e) ==
    /\ \A r \in DOMAIN e.rows : details[r].version = e.rows[r].version
    /\ e.purge \subseteq prompts

\* writeGenerationRecallChanges: all of it or, with a warning, nothing.
WriteChanges ==
    \E e \in followers :
        /\ e.step = "write"
        /\ followers' = followers \ {e}
        /\ IF AsRead(e)
           THEN /\ details' = [r \in DOMAIN details |->
                     IF r \in DOMAIN e.rows
                     THEN [Changed(e, e.rows[r]) EXCEPT !.version = details[r].version + 1] ELSE details[r]]
                /\ prompts' = prompts \ e.purge
                /\ UNCHANGED crossed
           ELSE UNCHANGED <<details, prompts>> /\ crossed' = TRUE
        /\ UNCHANGED <<replies, commits, changes>>

\* The storage is unavailable: the handler gives up, with a warning.
WriteFails ==
    \E e \in followers :
        /\ followers' = followers \ {e}
        /\ crossed' = TRUE
        /\ UNCHANGED <<replies, details, prompts, commits, changes>>

DetailNext ==
    \/ Reply \/ CommitDetail
    \/ DeleteMessages \/ EditMessage \/ DeleteSwipe
    \/ ScanDetails \/ ReadPrompts \/ WriteChanges \/ WriteFails
DetailSpec == DetailInit /\ [][DetailNext]_detailVars

-----------------------------------------------------------------------------
DetailTypeOK ==
    /\ \A i \in DOMAIN replies : replies[i].at \in DOMAIN SwipesOf(i)
    /\ DOMAIN details \subseteq 1..MaxReplies
    /\ \A r \in DOMAIN details : details[r].floor \in 1..MaxReplies /\ details[r].variant \in 1..MaxReplies
    /\ \A e \in followers : DOMAIN e.rows \subseteq DOMAIN details /\ e.purge \subseteq DOMAIN e.rows

\* A prompt is stored as long as its detail may be shown: an invalidated detail
\* leaves nothing of what was sent behind, whatever handlers ran at the same time.
PromptsGoWithDetails == prompts = {r \in DOMAIN details : ~details[r].invalid}

\* A detail that was invalidated is never shown again: no handler that read it
\* before, and no commit that is sent again, brings it back.
InvalidatedForGood ==
    \A r \in DOMAIN details : details[r].invalid => r \in DOMAIN details' /\ details'[r].invalid

\* What is invalidated stays so, and its prompt with it.
DetailsKept == /\ [](DetailTypeOK /\ PromptsGoWithDetails)
               /\ [][InvalidatedForGood]_detailVars

\* When every change was followed before the next thing happened, the replies that
\* were not edited have their detail at their place, and no other detail is left.
DetailsFollow ==
    (~crossed /\ followers = {} /\ commits.queue = <<>>) =>
        /\ \A i \in DOMAIN replies : \A v \in DOMAIN SwipesOf(i) :
              SwipesOf(i)[v].edited \/ SwipesOf(i)[v].reply \in Matching(i, v)
        /\ \A r \in DOMAIN details :
              details[r].invalid \/ \E i \in DOMAIN replies : \E v \in DOMAIN SwipesOf(i) :
                  SwipesOf(i)[v].reply = r /\ ~SwipesOf(i)[v].edited /\ r \in Matching(i, v)
=============================================================================
