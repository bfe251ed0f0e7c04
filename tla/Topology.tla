------------------------------ MODULE Topology ------------------------------
(***************************************************************************)
(* Where RabbitMQ takes an event (mq/topology.go, mq/publisher.go,         *)
(* mq/dead_letter_message.go): the exchanges, queues and bindings the      *)
(* processes declare when they start, the exchange and key of every type   *)
(* of event, what the consumer of a queue accepts, and the row that a dead *)
(* letter becomes.                                                         *)
(*                                                                         *)
(* The other modules take a queue as a set of messages; here are the       *)
(* constants that let them: what is published has a queue, the queue has a *)
(* handler for it, and a rejected message ends in its own dead-letter      *)
(* queue though two queues share one dead-letter exchange.                 *)
(***************************************************************************)
EXTENDS Integers, Sequences

NoName == "(none)"        \* the empty string

\* One entry of queueSpecs; the exchange of the events is a topic exchange.
QueueSpec(exchange, keys, queue, dlx, failed, dlq) ==
    [exchange |-> exchange, keys |-> keys, queue |-> queue,
     dlx |-> dlx, failed |-> failed, dlq |-> dlq]

queueSpecs == {
    QueueSpec("like.events", {"like.created", "like.deleted"}, "like.write.q",
              "like.events.dlx", "like.write.failed", "like.write.dlq"),
    QueueSpec("comment.events", {"comment.created", "comment.deleted"}, "comment.write.q",
              "comment.events.dlx", "comment.write.failed", "comment.write.dlq"),
    QueueSpec("social.events", {"social.followed", "social.unfollowed"}, "social.write.q",
              "social.events.dlx", "social.write.failed", "social.write.dlq"),
    QueueSpec("popularity.events", {"popularity.changed"}, "popularity.update.q",
              "popularity.events.dlx", "popularity.write.failed", "popularity.update.dlq"),
    QueueSpec("video.timeline.events", {"video.timeline.publish"}, "timeline.update.q",
              "video.timeline.events.dlx", "timeline.write.failed", "timeline.update.dlq"),
    QueueSpec("video.timeline.events", {"video.timeline.publish", "video.fanout.batch"},
              "timeline.fanout.q",
              "video.timeline.events.dlx", "timeline.fanout.failed", "timeline.fanout.dlq"),
    QueueSpec("media.events", {"media.transcode.requested"}, "media.transcode.q",
              "media.events.dlx", "media.transcode.failed", "media.transcode.q.dlq"),
    QueueSpec("audit.events", {"audit.requested"}, "audit.moderate.q",
              "audit.events.dlx", "audit.moderate.failed", "audit.moderate.q.dlq"),
    QueueSpec("video.embed.events", {"video.embed.requested"}, "video.embed.q",
              "video.embed.events.dlx", "video.embed.failed", "video.embed.q.dlq")}

Invalidations == "cache.invalidate.events"

\* DeclareTopology, entry by entry, and then the fan-out exchange.  To declare
\* again what is there with another type or other arguments is an error.
DeclareTopology == [
    exchanges |-> {<<s.exchange, "topic">> : s \in queueSpecs}
                    \union {<<s.dlx, "direct">> : s \in queueSpecs}
                    \union {<<Invalidations, "fanout">>},
    queues    |-> {<<s.queue, s.dlx, s.failed>> : s \in queueSpecs}
                    \union {<<s.dlq, NoName, NoName>> : s \in queueSpecs},
    bindings  |-> (UNION {{<<s.exchange, k, s.queue>> : k \in s.keys} : s \in queueSpecs})
                    \union {<<s.dlx, s.failed, s.dlq>> : s \in queueSpecs}]

\* RabbitMQ: a topic exchange whose binding keys have no wildcard, and a direct
\* one, take a message to the queues that are bound by its key.
Route(exchange, key) ==
    {d[1] : d \in {q \in DeclareTopology.queues :
                     <<exchange, key, q[1]>> \in DeclareTopology.bindings}}
-----------------------------------------------------------------------------
\* The types of events that some NewEnvelope of the program makes for a queue;
\* "like.created", "like.deleted" and "tip.created" are only reasons.
PublishedTypes == {
    "comment.created", "comment.deleted", "social.followed", "social.unfollowed",
    "popularity.changed", "video.timeline.publish", "video.fanout.batch",
    "media.transcode.requested", "audit.requested", "video.embed.requested"}

\* exchangeAndKey; the key is the type, and no key for the fan-out exchange.
exchangeAndKey(type) ==
    CASE type \in {"like.created", "like.deleted"} -> <<"like.events", type>>
      [] type \in {"comment.created", "comment.deleted"} -> <<"comment.events", type>>
      [] type \in {"social.followed", "social.unfollowed"} -> <<"social.events", type>>
      [] type = "popularity.changed" -> <<"popularity.events", type>>
      [] type \in {"video.timeline.publish", "video.fanout.batch"} ->
           <<"video.timeline.events", type>>
      [] type = "cache.invalidated" -> <<Invalidations, NoName>>
      [] type = "media.transcode.requested" -> <<"media.events", type>>
      [] type = "audit.requested" -> <<"audit.events", type>>
      [] type = "video.embed.requested" -> <<"video.embed.events", type>>
      [] OTHER -> <<NoName, NoName>>                       \* unknown event type

\* The queues whose worker does not refuse an event of the type as unsupported:
\* the Handle methods, as cmd/worker/main.go starts them.
HandledBy(type) ==
    CASE type \in {"like.created", "like.deleted"} -> {"like.write.q"}
      [] type \in {"comment.created", "comment.deleted"} -> {"comment.write.q"}
      [] type \in {"social.followed", "social.unfollowed"} -> {"social.write.q"}
      [] type = "popularity.changed" -> {"popularity.update.q"}
      [] type = "video.timeline.publish" -> {"timeline.update.q", "timeline.fanout.q"}
      [] type = "video.fanout.batch" -> {"timeline.fanout.q"}
      [] type = "media.transcode.requested" -> {"media.transcode.q"}
      [] type = "audit.requested" -> {"audit.moderate.q"}
      [] type = "video.embed.requested" -> {"video.embed.q"}
      [] OTHER -> {}
-----------------------------------------------------------------------------
\* An entry of x-death, and a message with what the broker wrote on it; the
\* event is NoName when the body is no envelope.
Deaths == [queue : {s.queue : s \in queueSpecs}, reason : {"rejected", "expired"},
           count : Int, first : Nat, last : Nat]
DeadLetters == [event : STRING, message : STRING, body : STRING, deaths : Seq(Deaths)]

NoDeath == [queue |-> NoName, reason |-> NoName, count |-> 0, first |-> 0, last |-> 0]

\* firstDeath: the newest entry of x-death, if the header is there at all; a
\* time that is missing is 0, and the last one defaults to the first.
firstDeath(deaths) ==
    IF deaths = <<>> THEN NoDeath
      ELSE [deaths[1] EXCEPT !.last = IF @ = 0 THEN deaths[1].first ELSE @]

Known(name) == IF name = NoName THEN "unknown" ELSE name

\* NewDeadLetterMessage, or the row store makes when the body is no envelope.
NewDeadLetterMessage(dlq, delivery) ==
    LET death == firstDeath(delivery.deaths) IN
    IF delivery.event = NoName
      THEN [dlq |-> dlq, body |-> delivery.body, event |-> delivery.message,
            source |-> "unknown", reason |-> "invalid-json", count |-> 0]
      ELSE [dlq |-> dlq, body |-> delivery.body, event |-> delivery.event,
            source |-> Known(death.queue), reason |-> Known(death.reason),
            count |-> death.count]

\* RabbitMQ: the message that the worker of a queue rejects, in the
\* dead-letter queues that get it, with what the broker writes on it.
Rejected(s, message) ==
    [message EXCEPT !.deaths =
       <<[queue |-> s.queue, reason |-> "rejected", count |-> 1, first |-> 1, last |-> 1]>> \o @]
=============================================================================
