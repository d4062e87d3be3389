----------------------------- MODULE ConfTable -----------------------------
(***************************************************************************)
(* The configuration properties of librdkafka (rd_kafka_properties[] in    *)
(* rdkafka_conf.c), without their descriptions: what kind of value each    *)
(* has, its range, its default and the words it maps to numbers.  The      *)
(* build has zlib, snappy, SSL, SASL and plugins.                          *)
(***************************************************************************)
EXTENDS Integers, Sequences, TLC

IntMax == 2147483647

Prop(t) == [type |-> t, vmin |-> 0, vmax |-> 0, vdef |-> 0, sdef |-> "", fdef |-> {},
            s2i |-> <<>>, validate |-> "any"]

Num(n, lo, hi, d) == n :> [Prop("int") EXCEPT !.vmin = lo, !.vmax = hi, !.vdef = d]
Bool(n, d) == n :> [Prop("bool") EXCEPT !.vmax = 1, !.vdef = d]
Str(n, d) == n :> [Prop("str") EXCEPT !.sdef = d]
Valid(n, d, v) == n :> [Prop("str") EXCEPT !.sdef = d, !.validate = v]
Kstr(n, d) == n :> [Prop("kstr") EXCEPT !.sdef = d]
Ptr(n, d) == n :> [Prop("ptr") EXCEPT !.vdef = d]
Words(n, d, m) == n :> [Prop("s2i") EXCEPT !.vdef = d, !.s2i = m]
\* A flag's value is the set of its bits.
Flags(n, d, m) == n :> [Prop("s2f") EXCEPT !.fdef = d, !.s2i = m]
Alias(n, of) == n :> [Prop("alias") EXCEPT !.sdef = of]
Patterns(n) == n :> Prop("patlist")
Invalid(n) == n :> Prop("invalid")
Internal(n) == n :> Prop("internal")

\* RD_KAFKA_DBG_ALL and the default of builtin.features
AllBits == 0 .. 15

-----------------------------------------------------------------------------
ConnectionProps ==
    Flags("builtin.features", AllBits,
          << <<{0}, "gzip">>, <<{1}, "snappy">>, <<{2}, "ssl">>, <<{3}, "sasl">>, <<{4}, "regex">>,
             <<{5}, "lz4">>, <<{6}, "sasl_gssapi">>, <<{7}, "sasl_plain">>, <<{8}, "sasl_scram">>,
             <<{9}, "plugins">> >>) @@
    Str("client.id", "rdkafka") @@
    Str("metadata.broker.list", "") @@
    Alias("bootstrap.servers", "metadata.broker.list") @@
    Num("message.max.bytes", 1000, 1000000000, 1000000) @@
    Num("message.copy.max.bytes", 0, 1000000000, 65535) @@
    Num("receive.message.max.bytes", 1000, IntMax, 100000000) @@
    Num("max.in.flight.requests.per.connection", 1, 1000000, 1000000) @@
    Alias("max.in.flight", "max.in.flight.requests.per.connection") @@
    Num("metadata.request.timeout.ms", 10, 900000, 60000) @@
    Num("topic.metadata.refresh.interval.ms", -1, 3600000, 300000) @@
    Num("metadata.max.age.ms", 1, 86400000, -1) @@
    Num("topic.metadata.refresh.fast.interval.ms", 1, 60000, 250) @@
    Num("topic.metadata.refresh.fast.cnt", 0, 1000, 10) @@
    Bool("topic.metadata.refresh.sparse", 1) @@
    Patterns("topic.blacklist") @@
    Flags("debug", {},
          << <<{0}, "generic">>, <<{1}, "broker">>, <<{2}, "topic">>, <<{3}, "metadata">>,
             <<{4}, "feature">>, <<{5}, "queue">>, <<{6}, "msg">>, <<{7}, "protocol">>,
             <<{8}, "cgrp">>, <<{9}, "security">>, <<{10}, "fetch">>, <<{11}, "interceptor">>,
             <<{12}, "plugin">>, <<{13}, "consumer">>, <<{14}, "admin">>, <<AllBits, "all">> >>)

SocketProps ==
    Num("socket.timeout.ms", 10, 300000, 60000) @@
    Num("socket.blocking.max.ms", 1, 60000, 1000) @@
    Num("socket.send.buffer.bytes", 0, 100000000, 0) @@
    Num("socket.receive.buffer.bytes", 0, 100000000, 0) @@
    Bool("socket.keepalive.enable", 0) @@
    Bool("socket.nagle.disable", 0) @@
    Num("socket.max.fails", 0, 1000000, 1) @@
    Num("broker.address.ttl", 0, 86400000, 1000) @@
    Words("broker.address.family", 0, << <<0, "any">>, <<2, "v4">>, <<10, "v6">> >>) @@
    Num("reconnect.backoff.jitter.ms", 0, 3600000, 500)

ClientProps ==
    Num("statistics.interval.ms", 0, 86400000, 0) @@
    Num("enabled_events", 0, IntMax, 0) @@
    Ptr("error_cb", 0) @@ Ptr("throttle_cb", 0) @@ Ptr("stats_cb", 0) @@ Ptr("log_cb", 1) @@
    Num("log_level", 0, 7, 6) @@
    Bool("log.queue", 0) @@ Bool("log.thread.name", 1) @@ Bool("log.connection.close", 1) @@
    Ptr("background_event_cb", 0) @@ Ptr("socket_cb", 1) @@ Ptr("connect_cb", 0) @@
    Ptr("closesocket_cb", 0) @@ Ptr("open_cb", 1) @@ Ptr("opaque", 0) @@
    Ptr("default_topic_conf", 0) @@
    Num("internal.termination.signal", 0, 128, 0) @@
    Bool("api.version.request", 1) @@
    Num("api.version.request.timeout.ms", 1, 300000, 10000) @@
    Num("api.version.fallback.ms", 0, 604800000, 1200000) @@
    Valid("broker.version.fallback", "0.9.0", "broker_version")

SecurityProps ==
    Words("security.protocol", 0,
          << <<0, "plaintext">>, <<1, "ssl">>, <<2, "sasl_plaintext">>, <<3, "sasl_ssl">> >>) @@
    Str("ssl.cipher.suites", "") @@ Str("ssl.curves.list", "") @@ Str("ssl.sigalgs.list", "") @@
    Str("ssl.key.location", "") @@ Str("ssl.key.password", "") @@
    Str("ssl.certificate.location", "") @@ Str("ssl.ca.location", "") @@
    Str("ssl.crl.location", "") @@ Str("ssl.keystore.location", "") @@
    Str("ssl.keystore.password", "") @@
    Invalid("ssl.truststore.location") @@ Invalid("sasl.jaas.config") @@
    Valid("sasl.mechanisms", "GSSAPI", "single") @@
    Alias("sasl.mechanism", "sasl.mechanisms") @@
    Str("sasl.kerberos.service.name", "kafka") @@
    Str("sasl.kerberos.principal", "kafkaclient") @@
    Str("sasl.kerberos.kinit.cmd", "kinit") @@ Str("sasl.kerberos.keytab", "") @@
    Num("sasl.kerberos.min.time.before.relogin", 1, 86400000, 60000) @@
    Str("sasl.username", "") @@ Str("sasl.password", "") @@
    Str("plugin.library.paths", "") @@
    Internal("interceptors")

ConsumerProps ==
    Str("group.id", "") @@
    Str("partition.assignment.strategy", "range,roundrobin") @@
    Num("session.timeout.ms", 1, 3600000, 30000) @@
    Num("heartbeat.interval.ms", 1, 3600000, 1000) @@
    Kstr("group.protocol.type", "consumer") @@
    Num("coordinator.query.interval.ms", 1, 3600000, 600000) @@
    Bool("enable.auto.commit", 1) @@
    Num("auto.commit.interval.ms", 0, 86400000, 5000) @@
    Bool("enable.auto.offset.store", 1) @@
    Num("queued.min.messages", 1, 10000000, 100000) @@
    Num("queued.max.messages.kbytes", 1, 2097151, 1048576) @@
    Num("fetch.wait.max.ms", 0, 300000, 100) @@
    Num("fetch.message.max.bytes", 1, 1000000000, 1048576) @@
    Alias("max.partition.fetch.bytes", "fetch.message.max.bytes") @@
    Num("fetch.max.bytes", 0, IntMax - 512, 52428800) @@
    Num("fetch.min.bytes", 1, 100000000, 1) @@
    Num("fetch.error.backoff.ms", 0, 300000, 500) @@
    Words("offset.store.method", 2, << <<0, "none">>, <<1, "file">>, <<2, "broker">> >>) @@
    Ptr("consume_cb", 0) @@ Ptr("rebalance_cb", 0) @@ Ptr("offset_commit_cb", 0) @@
    Bool("enable.partition.eof", 1) @@
    Bool("check.crcs", 0)

ProducerProps ==
    Num("queue.buffering.max.messages", 1, 10000000, 100000) @@
    Num("queue.buffering.max.kbytes", 1, 2097151, 1048576) @@
    Num("queue.buffering.max.ms", 0, 900000, 0) @@
    Alias("linger.ms", "queue.buffering.max.ms") @@
    Num("message.send.max.retries", 0, 10000000, 2) @@
    Alias("retries", "message.send.max.retries") @@
    Num("retry.backoff.ms", 1, 300000, 100) @@
    Num("queue.buffering.backpressure.threshold", 1, 1000000, 1) @@
    Words("compression.codec", 0,
          << <<0, "none">>, <<1, "gzip">>, <<2, "snappy">>, <<3, "lz4">> >>) @@
    Alias("compression.type", "compression.codec") @@
    Num("batch.num.messages", 1, 1000000, 10000) @@
    Bool("delivery.report.only.error", 0) @@
    Ptr("dr_cb", 0) @@ Ptr("dr_msg_cb", 0)

TopicProducerProps ==
    "request.required.acks" :>
        [Prop("int") EXCEPT !.vmin = -1, !.vmax = 1000, !.vdef = 1, !.s2i = << <<-1, "all">> >>] @@
    Alias("acks", "request.required.acks") @@
    Num("request.timeout.ms", 1, 900000, 5000) @@
    Num("message.timeout.ms", 0, 900000, 300000) @@
    Words("queuing.strategy", 0, << <<0, "fifo">>, <<1, "lifo">> >>) @@
    Bool("produce.offset.report", 0) @@
    Valid("partitioner", "consistent_random", "partitioner") @@
    Ptr("partitioner_cb", 0) @@ Ptr("msg_order_cmp", 0) @@ Ptr("opaque", 0) @@
    Words("compression.codec", 4,
          << <<0, "none">>, <<1, "gzip">>, <<2, "snappy">>, <<3, "lz4">>, <<4, "inherit">> >>) @@
    Alias("compression.type", "compression.codec") @@
    Num("compression.level", -1, 12, -1)

TopicConsumerProps ==
    Bool("auto.commit.enable", 1) @@
    Alias("enable.auto.commit", "auto.commit.enable") @@
    Num("auto.commit.interval.ms", 10, 86400000, 60000) @@
    Words("auto.offset.reset", -1,
          << <<-2, "smallest">>, <<-2, "earliest">>, <<-2, "beginning">>, <<-1, "largest">>,
             <<-1, "latest">>, <<-1, "end">>, <<-1001, "error">> >>) @@
    Str("offset.store.path", ".") @@
    Num("offset.store.sync.interval.ms", -1, 86400000, -1) @@
    Words("offset.store.method", 2, << <<1, "file">>, <<2, "broker">> >>) @@
    Num("consume.callback.max.messages", 0, 1000000, 0)

GlobalProps == ConnectionProps @@ SocketProps @@ ClientProps @@ SecurityProps @@ ConsumerProps
               @@ ProducerProps
TopicProps == TopicProducerProps @@ TopicConsumerProps
=============================================================================
