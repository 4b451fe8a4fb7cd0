---- MODULE LlmCall ----
(***************************************************************************)
(* One completion by the OpenAI-compatible provider (coderking_llm): a     *)
(* streamed request with retries, a second request without the thinking    *)
(* switches when the first is refused, the fall back to a plain request,   *)
(* and the user's stop, which is polled.                                   *)
(*                                                                         *)
(* Abstracted: delays; what an answer says: a chunk is the pair of the     *)
(* request that brought it and its place.  External: the model's server.   *)
(***************************************************************************)
EXTENDS Integers, Sequences, SequencesExt

CONSTANTS
  MaxAttempts,   \* RetryPolicy.max_attempts
  MaxChunks      \* bound of the model: chunks of one answer

ASSUME LlmAssumption == MaxAttempts \in Nat \ {0} /\ MaxChunks \in Nat

VARIABLES
  mode,       \* "stream" or "plain"
  thinking,   \* the payload carries thinking switches
  attempt,    \* of retry_async
  at,         \* "loop", "posted", "reading", "sleeping", "ended"
  clean,      \* this request is the one without the switches
  chunks,     \* what once() has collected
  source,     \* history: what the server has sent in answer to the last request
  posts,      \* history: requests made
  abort,      \* should_abort()
  late,       \* history: requests made after the stop
  outcome     \* "none", "answer", "failed", "aborted"

llmVars == <<mode, thinking, attempt, at, clean, chunks, source, posts, abort, late, outcome>>

LlmInit ==
  /\ mode \in {"stream", "plain"} /\ thinking \in BOOLEAN
  /\ attempt = 1 /\ at = "loop" /\ clean = FALSE
  /\ chunks = <<>> /\ source = <<>> /\ posts = 0
  /\ abort = FALSE /\ late = 0 /\ outcome = "none"

Ended(how) == at' = "ended" /\ outcome' = how
Posted == posts' = posts + 1 /\ late' = late + (IF abort THEN 1 ELSE 0) /\ source' = <<>>
NoPost == UNCHANGED <<posts, late, source>>

----
(***************************************************************************)
(* The attempts (retry_async)                                              *)
(***************************************************************************)
ChunksKept == chunks                                   \* mutant: collected over all attempts
ChunksAtStart == <<>>

HearsNot == FALSE                                      \* mutant: no check
\* The check at the top of the loop.
HeardBefore == abort

\* once() begins: the list is new, the request goes out.
Attempt ==
  /\ at = "loop" /\ ~HeardBefore
  /\ at' = "posted" /\ clean' = FALSE /\ chunks' = ChunksAtStart
  /\ Posted
  /\ UNCHANGED <<mode, thinking, attempt, abort, outcome>>

Cancelled ==
  /\ at = "loop" /\ HeardBefore
  /\ Ended("aborted")
  /\ NoPost /\ UNCHANGED <<mode, thinking, attempt, clean, chunks, abort>>

\* An exception of once(): tried again only if it is of a kind that may pass.
Raised(retryable) ==
  IF retryable /\ attempt < MaxAttempts
  THEN at' = "sleeping" /\ UNCHANGED outcome
  ELSE Ended("failed")

\* The delay is slept in slices, and a stop is heard between them.
Awake ==
  /\ at = "sleeping"
  /\ \/ at' = "loop" /\ attempt' = attempt + 1 /\ UNCHANGED outcome
     \/ abort /\ Ended("aborted") /\ UNCHANGED attempt
  /\ NoPost /\ UNCHANGED <<mode, thinking, clean, chunks, abort>>

----
(***************************************************************************)
(* The answer of the server                                                *)
(***************************************************************************)
\* Refused (a status of 400 and above) with thinking switches: once more without.
Repost ==
  /\ at = "posted" /\ thinking /\ ~clean
  /\ mode = "plain" => ~abort
  /\ clean' = TRUE
  /\ Posted
  /\ UNCHANGED <<mode, thinking, attempt, at, chunks, abort, outcome>>

\* An error the server explains is raised as RuntimeError and never tried again.
RefusedWithReason ==
  /\ at = "posted" /\ (thinking => clean)
  /\ Ended("failed")
  /\ NoPost /\ UNCHANGED <<mode, thinking, attempt, clean, chunks, abort>>

\* One it does not explain: 408, 429, 5xx ... may pass.
Refused(retryable) ==
  /\ at = "posted" /\ (thinking => clean)
  /\ Raised(retryable)
  /\ NoPost /\ UNCHANGED <<mode, thinking, attempt, clean, chunks, abort>>

\* 400, 404, 415 and 501 of a stream: a plain request, with attempts of its own.
FallBack ==
  /\ at = "posted" /\ mode = "stream" /\ (thinking => clean)
  /\ mode' = "plain" /\ attempt' = 1 /\ at' = "loop"
  /\ NoPost /\ UNCHANGED <<thinking, clean, chunks, abort, outcome>>

\* No connection, or no answer in time: before the answer or in the midst of it.
ConnectionFails ==
  /\ at \in {"posted", "reading"}
  /\ \E retryable \in BOOLEAN : Raised(retryable)
  /\ NoPost /\ UNCHANGED <<mode, thinking, attempt, clean, chunks, abort>>

\* await_with_abort polls while a plain request is under way.
PlainAborted ==
  /\ at = "posted" /\ mode = "plain" /\ abort
  /\ Ended("aborted")
  /\ NoPost /\ UNCHANGED <<mode, thinking, attempt, clean, chunks, abort>>

PlainAnswer ==
  /\ at = "posted" /\ mode = "plain"
  /\ source' = <<<<posts, 1>>>> /\ chunks' = source'
  /\ Ended("answer")
  /\ UNCHANGED <<mode, thinking, attempt, clean, posts, abort, late>>

StreamOpens ==
  /\ at = "posted" /\ mode = "stream"
  /\ at' = "reading"
  /\ NoPost /\ UNCHANGED <<mode, thinking, attempt, clean, chunks, abort, outcome>>

\* A line of the stream; the stop is looked at before it is parsed.
Chunk ==
  /\ at = "reading" /\ ~abort /\ Len(source) < MaxChunks
  /\ source' = Append(source, <<posts, Len(source) + 1>>)
  /\ chunks' = Append(chunks, Last(source'))
  /\ UNCHANGED <<mode, thinking, attempt, at, clean, posts, abort, late, outcome>>

StreamAborted ==
  /\ at = "reading" /\ abort
  /\ Ended("aborted")
  /\ NoPost /\ UNCHANGED <<mode, thinking, attempt, clean, chunks, abort>>

\* The stream ends, properly or not: what has come is the answer.
StreamEnds ==
  /\ at = "reading"
  /\ Ended("answer")
  /\ NoPost /\ UNCHANGED <<mode, thinking, attempt, clean, chunks, abort>>

UserStops ==
  /\ ~abort /\ at # "ended"
  /\ abort' = TRUE
  /\ UNCHANGED <<mode, thinking, attempt, at, clean, chunks, source, posts, late, outcome>>

LlmNext ==
  \/ Attempt \/ Cancelled \/ Awake \/ Repost \/ RefusedWithReason \/ FallBack
  \/ (\E retryable \in BOOLEAN : Refused(retryable)) \/ ConnectionFails
  \/ PlainAborted \/ PlainAnswer \/ StreamOpens \/ Chunk \/ StreamAborted \/ StreamEnds \/ UserStops

LlmSpec == LlmInit /\ [][LlmNext]_llmVars

----
(***************************************************************************)
(* Properties                                                              *)
(***************************************************************************)
\* The answer is what the server sent to the last request, nothing of an attempt that
\* broke off, however many there were (complete_chat_streaming, openai_stream.py:77).
AnswerIsOfOneRequest == outcome = "answer" => chunks = source

\* After a stop at most one request still goes out, the repetition of one the server
\* was refusing at that moment (retry.py:66, openai_stream.py:50).
StopEndsRequests == late <= 1
====
