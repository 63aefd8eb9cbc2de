---------------------------- MODULE AmqpFraming ----------------------------
(***************************************************************************)
(* modules/librabbitmq: what the AMQP library writes and what it reads.    *)
(* Three tables are taken from the code one by one: the structures of      *)
(* methods (amqp_framing.h), what amqp_encode_method writes of them and    *)
(* what amqp_decode_method reads.  Bytes are bytes; a number of more than  *)
(* sixteen bits is a sequence of 16-bit words, the high one first.         *)
(***************************************************************************)
EXTENDS Integers, Sequences, FiniteSets, SequencesExt, TLC

CONSTANTS
  Variants,        \* the fillings of a structure: 0, 1, ...
  FlagSets         \* of properties: sets of places of optional fields

\* A field of a structure, or of an encoded method.
u8(n) == <<"u8", n>>
u16(n) == <<"u16", n>>
u32(n) == <<"u32", n>>
u64(n) == <<"u64", n>>
bytes(n) == <<"bytes", n>>
str8(n) == <<"str8", n>>
str32(n) == <<"str32", n>>
table(n) == <<"table", n>>
bool(n) == <<"bool", n>>
bits(ns) == <<"bits", ns>>       \* a bit_buffer, bit 0 first

Struct(class, number, fields) == [id |-> <<class, number>>, fields |-> fields]

-----------------------------------------------------------------------------
\* amqp_framing.h: the structures of methods, and the methods' numbers.
StructConnection == [
  connection_start |-> Struct(10, 10, <<
    u8("version_major"), u8("version_minor"), table("server_properties"), bytes("mechanisms"),
    bytes("locales")>>),
  connection_start_ok |-> Struct(10, 11, <<
    table("client_properties"), bytes("mechanism"), bytes("response"), bytes("locale")>>),
  connection_secure |-> Struct(10, 20, <<bytes("challenge")>>),
  connection_secure_ok |-> Struct(10, 21, <<bytes("response")>>),
  connection_tune |-> Struct(10, 30, <<
    u16("channel_max"), u32("frame_max"), u16("heartbeat")>>),
  connection_tune_ok |-> Struct(10, 31, <<
    u16("channel_max"), u32("frame_max"), u16("heartbeat")>>),
  connection_open |-> Struct(10, 40, <<
    bytes("virtual_host"), bytes("capabilities"), bool("insist")>>),
  connection_open_ok |-> Struct(10, 41, <<bytes("known_hosts")>>),
  connection_redirect |-> Struct(10, 50, <<bytes("host"), bytes("known_hosts")>>),
  connection_close |-> Struct(10, 60, <<
    u16("reply_code"), bytes("reply_text"), u16("class_id"), u16("method_id")>>),
  connection_close_ok |-> Struct(10, 61, <<>>)]

StructChannel == [
  channel_open |-> Struct(20, 10, <<bytes("out_of_band")>>),
  channel_open_ok |-> Struct(20, 11, <<>>), channel_flow |-> Struct(20, 20, <<bool("active")>>),
  channel_flow_ok |-> Struct(20, 21, <<bool("active")>>),
  channel_alert |-> Struct(20, 30, <<
    u16("reply_code"), bytes("reply_text"), table("details")>>),
  channel_close |-> Struct(20, 40, <<
    u16("reply_code"), bytes("reply_text"), u16("class_id"), u16("method_id")>>),
  channel_close_ok |-> Struct(20, 41, <<>>),
  access_request |-> Struct(30, 10, <<
    bytes("realm"), bool("exclusive"), bool("passive"), bool("active"), bool("write"),
    bool("read")>>),
  access_request_ok |-> Struct(30, 11, <<u16("ticket")>>),
  exchange_declare |-> Struct(40, 10, <<
    u16("ticket"), bytes("exchange"), bytes("type"), bool("passive"), bool("durable"),
    bool("auto_delete"), bool("internal"), bool("nowait"), table("arguments")>>),
  exchange_declare_ok |-> Struct(40, 11, <<>>),
  exchange_delete |-> Struct(40, 20, <<
    u16("ticket"), bytes("exchange"), bool("if_unused"), bool("nowait")>>),
  exchange_delete_ok |-> Struct(40, 21, <<>>)]

StructQueue == [
  queue_declare |-> Struct(50, 10, <<
    u16("ticket"), bytes("queue"), bool("passive"), bool("durable"), bool("exclusive"),
    bool("auto_delete"), bool("nowait"), table("arguments")>>),
  queue_declare_ok |-> Struct(50, 11, <<
    bytes("queue"), u32("message_count"), u32("consumer_count")>>),
  queue_bind |-> Struct(50, 20, <<
    u16("ticket"), bytes("queue"), bytes("exchange"), bytes("routing_key"), bool("nowait"),
    table("arguments")>>),
  queue_bind_ok |-> Struct(50, 21, <<>>),
  queue_purge |-> Struct(50, 30, <<u16("ticket"), bytes("queue"), bool("nowait")>>),
  queue_purge_ok |-> Struct(50, 31, <<u32("message_count")>>),
  queue_delete |-> Struct(50, 40, <<
    u16("ticket"), bytes("queue"), bool("if_unused"), bool("if_empty"), bool("nowait")>>),
  queue_delete_ok |-> Struct(50, 41, <<u32("message_count")>>),
  queue_unbind |-> Struct(50, 50, <<
    u16("ticket"), bytes("queue"), bytes("exchange"), bytes("routing_key"), table("arguments")>>),
  queue_unbind_ok |-> Struct(50, 51, <<>>)]

StructBasicOut == [
  basic_qos |-> Struct(60, 10, <<
    u32("prefetch_size"), u16("prefetch_count"), bool("global")>>),
  basic_qos_ok |-> Struct(60, 11, <<>>),
  basic_consume |-> Struct(60, 20, <<
    u16("ticket"), bytes("queue"), bytes("consumer_tag"), bool("no_local"), bool("no_ack"),
    bool("exclusive"), bool("nowait")>>),
  basic_consume_ok |-> Struct(60, 21, <<bytes("consumer_tag")>>),
  basic_cancel |-> Struct(60, 30, <<bytes("consumer_tag"), bool("nowait")>>),
  basic_cancel_ok |-> Struct(60, 31, <<bytes("consumer_tag")>>),
  basic_publish |-> Struct(60, 40, <<
    u16("ticket"), bytes("exchange"), bytes("routing_key"), bool("mandatory"), bool("immediate")>>)]

StructBasicIn == [
  basic_return |-> Struct(60, 50, <<
    u16("reply_code"), bytes("reply_text"), bytes("exchange"), bytes("routing_key")>>),
  basic_deliver |-> Struct(60, 60, <<
    bytes("consumer_tag"), u64("delivery_tag"), bool("redelivered"), bytes("exchange"),
    bytes("routing_key")>>),
  basic_get |-> Struct(60, 70, <<u16("ticket"), bytes("queue"), bool("no_ack")>>),
  basic_get_ok |-> Struct(60, 71, <<
    u64("delivery_tag"), bool("redelivered"), bytes("exchange"), bytes("routing_key"),
    u32("message_count")>>),
  basic_get_empty |-> Struct(60, 72, <<bytes("cluster_id")>>),
  basic_ack |-> Struct(60, 80, <<u64("delivery_tag"), bool("multiple")>>),
  basic_reject |-> Struct(60, 90, <<u64("delivery_tag"), bool("requeue")>>),
  basic_recover |-> Struct(60, 100, <<bool("requeue")>>)]

StructFileOut == [
  file_qos |-> Struct(70, 10, <<u32("prefetch_size"), u16("prefetch_count"), bool("global")>>),
  file_qos_ok |-> Struct(70, 11, <<>>),
  file_consume |-> Struct(70, 20, <<
    u16("ticket"), bytes("queue"), bytes("consumer_tag"), bool("no_local"), bool("no_ack"),
    bool("exclusive"), bool("nowait")>>),
  file_consume_ok |-> Struct(70, 21, <<bytes("consumer_tag")>>),
  file_cancel |-> Struct(70, 30, <<bytes("consumer_tag"), bool("nowait")>>),
  file_cancel_ok |-> Struct(70, 31, <<bytes("consumer_tag")>>),
  file_open |-> Struct(70, 40, <<bytes("identifier"), u64("content_size")>>),
  file_open_ok |-> Struct(70, 41, <<u64("staged_size")>>), file_stage |-> Struct(70, 50, <<>>)]

StructFileIn == [
  file_publish |-> Struct(70, 60, <<
    u16("ticket"), bytes("exchange"), bytes("routing_key"), bool("mandatory"), bool("immediate"),
    bytes("identifier")>>),
  file_return |-> Struct(70, 70, <<
    u16("reply_code"), bytes("reply_text"), bytes("exchange"), bytes("routing_key")>>),
  file_deliver |-> Struct(70, 80, <<
    bytes("consumer_tag"), u64("delivery_tag"), bool("redelivered"), bytes("exchange"),
    bytes("routing_key"), bytes("identifier")>>),
  file_ack |-> Struct(70, 90, <<u64("delivery_tag"), bool("multiple")>>),
  file_reject |-> Struct(70, 100, <<u64("delivery_tag"), bool("requeue")>>)]

StructStream == [
  stream_qos |-> Struct(80, 10, <<
    u32("prefetch_size"), u16("prefetch_count"), u32("consume_rate"), bool("global")>>),
  stream_qos_ok |-> Struct(80, 11, <<>>),
  stream_consume |-> Struct(80, 20, <<
    u16("ticket"), bytes("queue"), bytes("consumer_tag"), bool("no_local"), bool("exclusive"),
    bool("nowait")>>),
  stream_consume_ok |-> Struct(80, 21, <<bytes("consumer_tag")>>),
  stream_cancel |-> Struct(80, 30, <<bytes("consumer_tag"), bool("nowait")>>),
  stream_cancel_ok |-> Struct(80, 31, <<bytes("consumer_tag")>>),
  stream_publish |-> Struct(80, 40, <<
    u16("ticket"), bytes("exchange"), bytes("routing_key"), bool("mandatory"), bool("immediate")>>),
  stream_return |-> Struct(80, 50, <<
    u16("reply_code"), bytes("reply_text"), bytes("exchange"), bytes("routing_key")>>),
  stream_deliver |-> Struct(80, 60, <<
    bytes("consumer_tag"), u64("delivery_tag"), bytes("exchange"), bytes("queue")>>)]

StructRest == [
  tx_select |-> Struct(90, 10, <<>>), tx_select_ok |-> Struct(90, 11, <<>>),
  tx_commit |-> Struct(90, 20, <<>>), tx_commit_ok |-> Struct(90, 21, <<>>),
  tx_rollback |-> Struct(90, 30, <<>>), tx_rollback_ok |-> Struct(90, 31, <<>>),
  dtx_select |-> Struct(100, 10, <<>>), dtx_select_ok |-> Struct(100, 11, <<>>),
  dtx_start |-> Struct(100, 20, <<bytes("dtx_identifier")>>),
  dtx_start_ok |-> Struct(100, 21, <<>>),
  tunnel_request |-> Struct(110, 10, <<table("meta_data")>>),
  test_integer |-> Struct(120, 10, <<
    u8("integer_1"), u16("integer_2"), u32("integer_3"), u64("integer_4"), u8("operation")>>),
  test_integer_ok |-> Struct(120, 11, <<u64("result")>>),
  test_string |-> Struct(120, 20, <<bytes("string_1"), bytes("string_2"), u8("operation")>>),
  test_string_ok |-> Struct(120, 21, <<bytes("result")>>),
  test_table |-> Struct(120, 30, <<table("table"), u8("integer_op"), u8("string_op")>>),
  test_table_ok |-> Struct(120, 31, <<u64("integer_result"), bytes("string_result")>>),
  test_content |-> Struct(120, 40, <<>>),
  test_content_ok |-> Struct(120, 41, <<u32("content_checksum")>>)]
-----------------------------------------------------------------------------
\* amqp_encode_method.
EConnection == [
  connection_start |-> <<
    u8("version_major"), u8("version_minor"), table("server_properties"), str32("mechanisms"),
    str32("locales")>>,
  connection_start_ok |-> <<
    table("client_properties"), str8("mechanism"), str32("response"), str8("locale")>>,
  connection_secure |-> <<str32("challenge")>>, connection_secure_ok |-> <<str32("response")>>,
  connection_tune |-> <<u16("channel_max"), u32("frame_max"), u16("heartbeat")>>,
  connection_tune_ok |-> <<u16("channel_max"), u32("frame_max"), u16("heartbeat")>>,
  connection_open |-> <<str8("virtual_host"), str8("capabilities"), bits(<<"insist">>)>>,
  connection_open_ok |-> <<str8("known_hosts")>>,
  connection_redirect |-> <<str8("host"), str8("known_hosts")>>,
  connection_close |-> <<
    u16("reply_code"), str8("reply_text"), u16("class_id"), u16("method_id")>>,
  connection_close_ok |-> <<>>]

EChannel == [
  channel_open |-> <<str8("out_of_band")>>, channel_open_ok |-> <<>>,
  channel_flow |-> <<bits(<<"active">>)>>, channel_flow_ok |-> <<bits(<<"active">>)>>,
  channel_alert |-> <<u16("reply_code"), str8("reply_text"), table("details")>>,
  channel_close |-> <<
    u16("reply_code"), str8("reply_text"), u16("class_id"), u16("method_id")>>,
  channel_close_ok |-> <<>>,
  access_request |-> <<
    str8("realm"), bits(<<"exclusive", "passive", "active", "write", "read">>)>>,
  access_request_ok |-> <<u16("ticket")>>,
  exchange_declare |-> <<
    u16("ticket"), str8("exchange"), str8("type"),
    bits(<<"passive", "durable", "auto_delete", "internal", "nowait">>), table("arguments")>>,
  exchange_declare_ok |-> <<>>,
  exchange_delete |-> <<u16("ticket"), str8("exchange"), bits(<<"if_unused", "nowait">>)>>,
  exchange_delete_ok |-> <<>>]

EQueue == [
  queue_declare |-> <<
    u16("ticket"), str8("queue"),
    bits(<<"passive", "durable", "exclusive", "auto_delete", "nowait">>), table("arguments")>>,
  queue_declare_ok |-> <<str8("queue"), u32("message_count"), u32("consumer_count")>>,
  queue_bind |-> <<
    u16("ticket"), str8("queue"), str8("exchange"), str8("routing_key"), bits(<<"nowait">>),
    table("arguments")>>,
  queue_bind_ok |-> <<>>, queue_purge |-> <<u16("ticket"), str8("queue"), bits(<<"nowait">>)>>,
  queue_purge_ok |-> <<u32("message_count")>>,
  queue_delete |-> <<
    u16("ticket"), str8("queue"), bits(<<"if_unused", "if_empty", "nowait">>)>>,
  queue_delete_ok |-> <<u32("message_count")>>,
  queue_unbind |-> <<
    u16("ticket"), str8("queue"), str8("exchange"), str8("routing_key"), table("arguments")>>,
  queue_unbind_ok |-> <<>>]

EBasicOut == [
  basic_qos |-> <<u32("prefetch_size"), u16("prefetch_count"), bits(<<"global">>)>>,
  basic_qos_ok |-> <<>>,
  basic_consume |-> <<
    u16("ticket"), str8("queue"), str8("consumer_tag"),
    bits(<<"no_local", "no_ack", "exclusive", "nowait">>)>>,
  basic_consume_ok |-> <<str8("consumer_tag")>>,
  basic_cancel |-> <<str8("consumer_tag"), bits(<<"nowait">>)>>,
  basic_cancel_ok |-> <<str8("consumer_tag")>>,
  basic_publish |-> <<
    u16("ticket"), str8("exchange"), str8("routing_key"), bits(<<"mandatory", "immediate">>)>>]

EBasicIn == [
  basic_return |-> <<
    u16("reply_code"), str8("reply_text"), str8("exchange"), str8("routing_key")>>,
  basic_deliver |-> <<
    str8("consumer_tag"), u64("delivery_tag"), bits(<<"redelivered">>), str8("exchange"),
    str8("routing_key")>>,
  basic_get |-> <<u16("ticket"), str8("queue"), bits(<<"no_ack">>)>>,
  basic_get_ok |-> <<
    u64("delivery_tag"), bits(<<"redelivered">>), str8("exchange"), str8("routing_key"),
    u32("message_count")>>,
  basic_get_empty |-> <<str8("cluster_id")>>,
  basic_ack |-> <<u64("delivery_tag"), bits(<<"multiple">>)>>,
  basic_reject |-> <<u64("delivery_tag"), bits(<<"requeue">>)>>,
  basic_recover |-> <<bits(<<"requeue">>)>>]

EFileOut == [
  file_qos |-> <<u32("prefetch_size"), u16("prefetch_count"), bits(<<"global">>)>>,
  file_qos_ok |-> <<>>,
  file_consume |-> <<
    u16("ticket"), str8("queue"), str8("consumer_tag"),
    bits(<<"no_local", "no_ack", "exclusive", "nowait">>)>>,
  file_consume_ok |-> <<str8("consumer_tag")>>,
  file_cancel |-> <<str8("consumer_tag"), bits(<<"nowait">>)>>,
  file_cancel_ok |-> <<str8("consumer_tag")>>,
  file_open |-> <<str8("identifier"), u64("content_size")>>,
  file_open_ok |-> <<u64("staged_size")>>, file_stage |-> <<>>]

EFileIn == [
  file_publish |-> <<
    u16("ticket"), str8("exchange"), str8("routing_key"), bits(<<"mandatory", "immediate">>),
    str8("identifier")>>,
  file_return |-> <<
    u16("reply_code"), str8("reply_text"), str8("exchange"), str8("routing_key")>>,
  file_deliver |-> <<
    str8("consumer_tag"), u64("delivery_tag"), bits(<<"redelivered">>), str8("exchange"),
    str8("routing_key"), str8("identifier")>>,
  file_ack |-> <<u64("delivery_tag"), bits(<<"multiple">>)>>,
  file_reject |-> <<u64("delivery_tag"), bits(<<"requeue">>)>>]

EStream == [
  stream_qos |-> <<
    u32("prefetch_size"), u16("prefetch_count"), u32("consume_rate"), bits(<<"global">>)>>,
  stream_qos_ok |-> <<>>,
  stream_consume |-> <<
    u16("ticket"), str8("queue"), str8("consumer_tag"),
    bits(<<"no_local", "exclusive", "nowait">>)>>,
  stream_consume_ok |-> <<str8("consumer_tag")>>,
  stream_cancel |-> <<str8("consumer_tag"), bits(<<"nowait">>)>>,
  stream_cancel_ok |-> <<str8("consumer_tag")>>,
  stream_publish |-> <<
    u16("ticket"), str8("exchange"), str8("routing_key"), bits(<<"mandatory", "immediate">>)>>,
  stream_return |-> <<
    u16("reply_code"), str8("reply_text"), str8("exchange"), str8("routing_key")>>,
  stream_deliver |-> <<
    str8("consumer_tag"), u64("delivery_tag"), str8("exchange"), str8("queue")>>]

ERest == [
  tx_select |-> <<>>, tx_select_ok |-> <<>>, tx_commit |-> <<>>, tx_commit_ok |-> <<>>,
  tx_rollback |-> <<>>, tx_rollback_ok |-> <<>>, dtx_select |-> <<>>, dtx_select_ok |-> <<>>,
  dtx_start |-> <<str8("dtx_identifier")>>, dtx_start_ok |-> <<>>,
  tunnel_request |-> <<table("meta_data")>>,
  test_integer |-> <<
    u8("integer_1"), u16("integer_2"), u32("integer_3"), u64("integer_4"), u8("operation")>>,
  test_integer_ok |-> <<u64("result")>>,
  test_string |-> <<str8("string_1"), str32("string_2"), u8("operation")>>,
  test_string_ok |-> <<str32("result")>>,
  test_table |-> <<table("table"), u8("integer_op"), u8("string_op")>>,
  test_table_ok |-> <<u64("integer_result"), str32("string_result")>>, test_content |-> <<>>,
  test_content_ok |-> <<u32("content_checksum")>>]
-----------------------------------------------------------------------------
\* amqp_decode_method.
DConnection == [
  connection_start |-> <<
    u8("version_major"), u8("version_minor"), table("server_properties"), str32("mechanisms"),
    str32("locales")>>,
  connection_start_ok |-> <<
    table("client_properties"), str8("mechanism"), str32("response"), str8("locale")>>,
  connection_secure |-> <<str32("challenge")>>, connection_secure_ok |-> <<str32("response")>>,
  connection_tune |-> <<u16("channel_max"), u32("frame_max"), u16("heartbeat")>>,
  connection_tune_ok |-> <<u16("channel_max"), u32("frame_max"), u16("heartbeat")>>,
  connection_open |-> <<str8("virtual_host"), str8("capabilities"), bits(<<"insist">>)>>,
  connection_open_ok |-> <<str8("known_hosts")>>,
  connection_redirect |-> <<str8("host"), str8("known_hosts")>>,
  connection_close |-> <<
    u16("reply_code"), str8("reply_text"), u16("class_id"), u16("method_id")>>,
  connection_close_ok |-> <<>>]

DChannel == [
  channel_open |-> <<str8("out_of_band")>>, channel_open_ok |-> <<>>,
  channel_flow |-> <<bits(<<"active">>)>>, channel_flow_ok |-> <<bits(<<"active">>)>>,
  channel_alert |-> <<u16("reply_code"), str8("reply_text"), table("details")>>,
  channel_close |-> <<
    u16("reply_code"), str8("reply_text"), u16("class_id"), u16("method_id")>>,
  channel_close_ok |-> <<>>,
  access_request |-> <<
    str8("realm"), bits(<<"exclusive", "passive", "active", "write", "read">>)>>,
  access_request_ok |-> <<u16("ticket")>>,
  exchange_declare |-> <<
    u16("ticket"), str8("exchange"), str8("type"),
    bits(<<"passive", "durable", "auto_delete", "internal", "nowait">>), table("arguments")>>,
  exchange_declare_ok |-> <<>>,
  exchange_delete |-> <<u16("ticket"), str8("exchange"), bits(<<"if_unused", "nowait">>)>>,
  exchange_delete_ok |-> <<>>]

DQueue == [
  queue_declare |-> <<
    u16("ticket"), str8("queue"),
    bits(<<"passive", "durable", "exclusive", "auto_delete", "nowait">>), table("arguments")>>,
  queue_declare_ok |-> <<str8("queue"), u32("message_count"), u32("consumer_count")>>,
  queue_bind |-> <<
    u16("ticket"), str8("queue"), str8("exchange"), str8("routing_key"), bits(<<"nowait">>),
    table("arguments")>>,
  queue_bind_ok |-> <<>>, queue_purge |-> <<u16("ticket"), str8("queue"), bits(<<"nowait">>)>>,
  queue_purge_ok |-> <<u32("message_count")>>,
  queue_delete |-> <<
    u16("ticket"), str8("queue"), bits(<<"if_unused", "if_empty", "nowait">>)>>,
  queue_delete_ok |-> <<u32("message_count")>>,
  queue_unbind |-> <<
    u16("ticket"), str8("queue"), str8("exchange"), str8("routing_key"), table("arguments")>>,
  queue_unbind_ok |-> <<>>]

DBasicOut == [
  basic_qos |-> <<u32("prefetch_size"), u16("prefetch_count"), bits(<<"global">>)>>,
  basic_qos_ok |-> <<>>,
  basic_consume |-> <<
    u16("ticket"), str8("queue"), str8("consumer_tag"),
    bits(<<"no_local", "no_ack", "exclusive", "nowait">>)>>,
  basic_consume_ok |-> <<str8("consumer_tag")>>,
  basic_cancel |-> <<str8("consumer_tag"), bits(<<"nowait">>)>>,
  basic_cancel_ok |-> <<str8("consumer_tag")>>,
  basic_publish |-> <<
    u16("ticket"), str8("exchange"), str8("routing_key"), bits(<<"mandatory", "immediate">>)>>]

DBasicIn == [
  basic_return |-> <<
    u16("reply_code"), str8("reply_text"), str8("exchange"), str8("routing_key")>>,
  basic_deliver |-> <<
    str8("consumer_tag"), u64("delivery_tag"), bits(<<"redelivered">>), str8("exchange"),
    str8("routing_key")>>,
  basic_get |-> <<u16("ticket"), str8("queue"), bits(<<"no_ack">>)>>,
  basic_get_ok |-> <<
    u64("delivery_tag"), bits(<<"redelivered">>), str8("exchange"), str8("routing_key"),
    u32("message_count")>>,
  basic_get_empty |-> <<str8("cluster_id")>>,
  basic_ack |-> <<u64("delivery_tag"), bits(<<"multiple">>)>>,
  basic_reject |-> <<u64("delivery_tag"), bits(<<"requeue">>)>>,
  basic_recover |-> <<bits(<<"requeue">>)>>]

DFileOut == [
  file_qos |-> <<u32("prefetch_size"), u16("prefetch_count"), bits(<<"global">>)>>,
  file_qos_ok |-> <<>>,
  file_consume |-> <<
    u16("ticket"), str8("queue"), str8("consumer_tag"),
    bits(<<"no_local", "no_ack", "exclusive", "nowait">>)>>,
  file_consume_ok |-> <<str8("consumer_tag")>>,
  file_cancel |-> <<str8("consumer_tag"), bits(<<"nowait">>)>>,
  file_cancel_ok |-> <<str8("consumer_tag")>>,
  file_open |-> <<str8("identifier"), u64("content_size")>>,
  file_open_ok |-> <<u64("staged_size")>>, file_stage |-> <<>>]

DFileIn == [
  file_publish |-> <<
    u16("ticket"), str8("exchange"), str8("routing_key"), bits(<<"mandatory", "immediate">>),
    str8("identifier")>>,
  file_return |-> <<
    u16("reply_code"), str8("reply_text"), str8("exchange"), str8("routing_key")>>,
  file_deliver |-> <<
    str8("consumer_tag"), u64("delivery_tag"), bits(<<"redelivered">>), str8("exchange"),
    str8("routing_key"), str8("identifier")>>,
  file_ack |-> <<u64("delivery_tag"), bits(<<"multiple">>)>>,
  file_reject |-> <<u64("delivery_tag"), bits(<<"requeue">>)>>]

DStream == [
  stream_qos |-> <<
    u32("prefetch_size"), u16("prefetch_count"), u32("consume_rate"), bits(<<"global">>)>>,
  stream_qos_ok |-> <<>>,
  stream_consume |-> <<
    u16("ticket"), str8("queue"), str8("consumer_tag"),
    bits(<<"no_local", "exclusive", "nowait">>)>>,
  stream_consume_ok |-> <<str8("consumer_tag")>>,
  stream_cancel |-> <<str8("consumer_tag"), bits(<<"nowait">>)>>,
  stream_cancel_ok |-> <<str8("consumer_tag")>>,
  stream_publish |-> <<
    u16("ticket"), str8("exchange"), str8("routing_key"), bits(<<"mandatory", "immediate">>)>>,
  stream_return |-> <<
    u16("reply_code"), str8("reply_text"), str8("exchange"), str8("routing_key")>>,
  stream_deliver |-> <<
    str8("consumer_tag"), u64("delivery_tag"), str8("exchange"), str8("queue")>>]

DRest == [
  tx_select |-> <<>>, tx_select_ok |-> <<>>, tx_commit |-> <<>>, tx_commit_ok |-> <<>>,
  tx_rollback |-> <<>>, tx_rollback_ok |-> <<>>, dtx_select |-> <<>>, dtx_select_ok |-> <<>>,
  dtx_start |-> <<str8("dtx_identifier")>>, dtx_start_ok |-> <<>>,
  tunnel_request |-> <<table("meta_data")>>,
  test_integer |-> <<
    u8("integer_1"), u16("integer_2"), u32("integer_3"), u64("integer_4"), u8("operation")>>,
  test_integer_ok |-> <<u64("result")>>,
  test_string |-> <<str8("string_1"), str32("string_2"), u8("operation")>>,
  test_string_ok |-> <<str32("result")>>,
  test_table |-> <<table("table"), u8("integer_op"), u8("string_op")>>,
  test_table_ok |-> <<u64("integer_result"), str32("string_result")>>, test_content |-> <<>>,
  test_content_ok |-> <<u32("content_checksum")>>]
Methods ==
  StructConnection @@ StructChannel @@ StructQueue @@ StructBasicOut @@ StructBasicIn
    @@ StructFileOut @@ StructFileIn @@ StructStream @@ StructRest
Encodings ==
  EConnection @@ EChannel @@ EQueue @@ EBasicOut @@ EBasicIn @@ EFileOut @@ EFileIn
    @@ EStream @@ ERest
Decodings ==
  DConnection @@ DChannel @@ DQueue @@ DBasicOut @@ DBasicIn @@ DFileOut @@ DFileIn
    @@ DStream @@ DRest

\* amqp_method_name.
MethodNamed ==
  [id \in {Methods[n].id : n \in DOMAIN Methods} |-> CHOOSE n \in DOMAIN Methods : Methods[n].id = id]

-----------------------------------------------------------------------------
\* E_8, E_16, E_32 and E_64.
E8(v) == <<v % 256>>
E16(v) == <<(v \div 256) % 256, v % 256>>
E32(v) == E16(v[1]) \o E16(v[2])
E64(v) == E32(<<v[1], v[2]>>) \o E32(<<v[3], v[4]>>)

Words(n) == <<n \div 65536, n % 65536>>
Bit(n, i) == (n \div 2 ^ i) % 2
BitBuffer(bs) == FoldLeft(LAMBDA acc, b : 2 * acc + b, 0, Reverse(bs))

\* amqp_encode_table: what is written of an entry of each kind: S, I, D, T, F.
EKinds ==
  (83 :> <<str32("bytes")>>) @@ (73 :> <<u32("i32")>>)
    @@ (68 :> <<u8("decimals"), u32("value")>>) @@ (84 :> <<u64("u64")>>)
    @@ (70 :> <<table("table")>>)

\* What is written of a field of a structure.  A table is a sequence of
\* entries, behind their length.
RECURSIVE PutAll(_, _)
PutAll(fs, m) ==
  LET entry(e) == PutAll(<<str8("key"), u8("kind")>> \o EKinds[e.kind], e)
      amqp_encode_table(t) ==
        LET entries == FlattenSeq([i \in DOMAIN t |-> entry(t[i])])
        IN  E32(Words(Len(entries))) \o entries
      Put(kind, n) ==
        CASE kind = "u8" -> E8(m[n])
          [] kind = "u16" -> E16(m[n])
          [] kind = "u32" -> E32(m[n])
          [] kind = "u64" -> E64(m[n])
          [] kind = "str8" -> E8(Len(m[n])) \o m[n]
          [] kind = "str32" -> E32(Words(Len(m[n]))) \o m[n]
          [] kind = "table" -> amqp_encode_table(m[n])
          [] kind = "bits" -> E8(BitBuffer([i \in DOMAIN n |-> m[n[i]]]))
  IN  FlattenSeq([i \in DOMAIN fs |-> Put(fs[i][1], fs[i][2])])

\* amqp_encode_method, into a buffer that is large enough.
amqp_encode_method(name, m) == PutAll(Encodings[name], m)

-----------------------------------------------------------------------------
(* A reader is [b, at, m]: the bytes, the offset of the next one, and the   *)
(* structure so far; at is -1 once a read went past the bytes               *)
(* (CHECK_LIMIT).                                                           *)
Reader(b) == [b |-> b, at |-> 0, m |-> <<>>]
Short(r, n) == r.at < 0 \/ r.at + n > Len(r.b)
Failed(r) == [r EXCEPT !.at = -1]

\* D_8, D_16, D_32, D_64 and D_BYTES, k bytes on.
D8(r, k) == r.b[r.at + k + 1]
D16(r, k) == 256 * D8(r, k) + D8(r, k + 1)
D32(r, k) == <<D16(r, k), D16(r, k + 2)>>
D64(r, k) == D32(r, k) \o D32(r, k + 4)
DBytes(r, k, n) == SubSeq(r.b, r.at + k + 1, r.at + k + n)
Number(w) == 65536 * w[1] + w[2]

Took(r, n, fields) ==
  [r EXCEPT !.at = @ + n, !.m = fields @@ @]
Counted(r, width, len, n) ==
  IF Short(r, width + len) THEN Failed(r) ELSE Took(r, width + len, n :> DBytes(r, width, len))

\* amqp_decode_table: what is read for an entry of each kind.
DKinds ==
  (83 :> <<str32("bytes")>>) @@ (73 :> <<u32("i32")>>)
    @@ (68 :> <<u8("decimals"), u32("value")>>) @@ (84 :> <<u64("u64")>>)
    @@ (70 :> <<table("table")>>)

WidthOf == [u8 |-> 1, u16 |-> 2, u32 |-> 4, u64 |-> 8, str8 |-> 1, str32 |-> 4, table |-> 4, bits |-> 1]

\* What is read for a field, and for all of them.
RECURSIVE Get(_, _), Entries(_, _, _)
Get(r, fld) ==
  LET n == fld[2]
      t == Entries([r EXCEPT !.at = @ + 4], r.at + 4 + Number(D32(r, 0)), <<>>)
  IN  IF Short(r, WidthOf[fld[1]]) THEN Failed(r)
      ELSE CASE fld[1] = "u8" -> Took(r, 1, n :> D8(r, 0))
             [] fld[1] = "u16" -> Took(r, 2, n :> D16(r, 0))
             [] fld[1] = "u32" -> Took(r, 4, n :> D32(r, 0))
             [] fld[1] = "u64" -> Took(r, 8, n :> D64(r, 0))
             [] fld[1] = "str8" -> Counted(r, 1, D8(r, 0), n)
             [] fld[1] = "str32" -> Counted(r, 4, Number(D32(r, 0)), n)
             [] fld[1] = "table" -> IF t.at < 0 THEN Failed(r) ELSE Took(r, t.at - r.at, n :> t.m)
             [] fld[1] = "bits" ->
                  Took(r, 1, [x \in ToSet(n) |-> Bit(D8(r, 0), (CHOOSE i \in DOMAIN n : n[i] = x) - 1)])

\* The entries of a table up to limit; m of the result is the table.
Entries(r, limit, entries) ==
  LET k == Get(Get([r EXCEPT !.m = <<>>], str8("key")), u8("kind"))
      v == FoldLeft(LAMBDA x, y : Get(x, y), k, DKinds[k.m["kind"]])
  IN  IF r.at < 0 THEN r
      ELSE IF r.at >= limit THEN [r EXCEPT !.m = entries]
      ELSE IF k.at < 0 THEN k
      ELSE IF k.m["kind"] \notin DOMAIN DKinds THEN Failed(r)
      ELSE Entries(v, limit, Append(entries, v.m))

GetAll(r, fs) == FoldLeft(LAMBDA x, y : Get(x, y), r, fs)

\* amqp_decode_method.
amqp_decode_method(name, b) == GetAll(Reader(b), Decodings[name])

-----------------------------------------------------------------------------
(* The properties of a content: flags, and the fields that are flagged.     *)
\* amqp_encode_properties.
EProperties == [
  connection |-> <<>>, channel |-> <<>>, access |-> <<>>, exchange |-> <<>>, queue |-> <<>>,
  basic |-> <<
    str8("content_type"), str8("content_encoding"), table("headers"), u8("delivery_mode"),
    u8("priority"), str8("correlation_id"), str8("reply_to"), str8("expiration"),
    str8("message_id"), u64("timestamp"), str8("type"), str8("user_id"), str8("app_id"),
    str8("cluster_id")>>]

EOtherProperties == [
  file |-> <<
    str8("content_type"), str8("content_encoding"), table("headers"), u8("priority"),
    str8("reply_to"), str8("message_id"), str8("filename"), u64("timestamp"), str8("cluster_id")>>,
  stream |-> <<
    str8("content_type"), str8("content_encoding"), table("headers"), u8("priority"),
    u64("timestamp")>>,
  tx |-> <<>>,
  dtx |-> <<>>,
  tunnel |-> <<
    table("headers"), str8("proxy_name"), str8("data_name"), u8("durable"), u8("broadcast")>>,
  test |-> <<>>]

\* amqp_decode_properties.
DProperties == [
  connection |-> <<>>, channel |-> <<>>, access |-> <<>>, exchange |-> <<>>, queue |-> <<>>,
  basic |-> <<
    str8("content_type"), str8("content_encoding"), table("headers"), u8("delivery_mode"),
    u8("priority"), str8("correlation_id"), str8("reply_to"), str8("expiration"),
    str8("message_id"), u64("timestamp"), str8("type"), str8("user_id"), str8("app_id"),
    str8("cluster_id")>>]

DOtherProperties == [
  file |-> <<
    str8("content_type"), str8("content_encoding"), table("headers"), u8("priority"),
    str8("reply_to"), str8("message_id"), str8("filename"), u64("timestamp"), str8("cluster_id")>>,
  stream |-> <<
    str8("content_type"), str8("content_encoding"), table("headers"), u8("priority"),
    u64("timestamp")>>,
  tx |-> <<>>,
  dtx |-> <<>>,
  tunnel |-> <<
    table("headers"), str8("proxy_name"), str8("data_name"), u8("durable"), u8("broadcast")>>,
  test |-> <<>>]

\* amqp_framing.h: the fields of a class and their flags.
PropertyStructs == [
  connection |-> <<>>, channel |-> <<>>, access |-> <<>>, exchange |-> <<>>, queue |-> <<>>,
  basic |-> <<
    <<15, bytes("content_type")>>, <<14, bytes("content_encoding")>>, <<13, table("headers")>>,
    <<12, u8("delivery_mode")>>, <<11, u8("priority")>>, <<10, bytes("correlation_id")>>,
    <<9, bytes("reply_to")>>, <<8, bytes("expiration")>>, <<7, bytes("message_id")>>,
    <<6, u64("timestamp")>>, <<5, bytes("type")>>, <<4, bytes("user_id")>>,
    <<3, bytes("app_id")>>, <<2, bytes("cluster_id")>>>>,
  file |-> <<
    <<15, bytes("content_type")>>, <<14, bytes("content_encoding")>>, <<13, table("headers")>>,
    <<12, u8("priority")>>, <<11, bytes("reply_to")>>, <<10, bytes("message_id")>>,
    <<9, bytes("filename")>>, <<8, u64("timestamp")>>, <<7, bytes("cluster_id")>>>>,
  stream |-> <<
    <<15, bytes("content_type")>>, <<14, bytes("content_encoding")>>, <<13, table("headers")>>,
    <<12, u8("priority")>>, <<11, u64("timestamp")>>>>,
  tx |-> <<>>, dtx |-> <<>>,
  tunnel |-> <<
    <<15, table("headers")>>, <<14, bytes("proxy_name")>>, <<13, bytes("data_name")>>,
    <<12, u8("durable")>>, <<11, u8("broadcast")>>>>,
  test |-> <<>>]

PropertyFields(c) == [i \in DOMAIN PropertyStructs[c] |-> PropertyStructs[c][i][2]]
Flags(c) == {PropertyStructs[c][i][1] : i \in DOMAIN PropertyStructs[c]}
FlagOf(c, n) ==
  PropertyStructs[c][CHOOSE i \in DOMAIN PropertyStructs[c] : PropertyStructs[c][i][2][2] = n][1]
Flagged(fs, flags, c) == SelectSeq(fs, LAMBDA y : FlagOf(c, y[2]) \in flags)

\* The flag words: sixteen bits each, the lowest of which tells that another
\* word follows.
RECURSIVE FlagWords(_)
FlagWords(flags) ==
  LET remainder == {x - 16 : x \in {y \in flags : y >= 16}}
      partial_flags == ((flags \cap 1..15) \cup (IF remainder = {} THEN {} ELSE {0}))
  IN  E16(FoldSet(LAMBDA x, acc : 2 ^ x + acc, 0, partial_flags))
        \o (IF remainder = {} THEN <<>> ELSE FlagWords(remainder))

RECURSIVE ReadFlags(_, _, _)
ReadFlags(r, word, flags) ==
  LET partial_flags == {i \in 0..15 : Bit(D16(r, 0), i) = 1}
      all == flags \cup {i + 16 * word : i \in partial_flags}
  IN  IF Short(r, 2) THEN [r EXCEPT !.at = -1, !.m = flags]
      ELSE IF 0 \in partial_flags THEN ReadFlags([r EXCEPT !.at = @ + 2], word + 1, all)
      ELSE [r EXCEPT !.at = @ + 2, !.m = all]

amqp_encode_properties(c, flags, p) ==
  FlagWords(flags) \o PutAll(Flagged((EProperties @@ EOtherProperties)[c], flags, c), p)
amqp_decode_properties(c, b) ==
  LET r == ReadFlags(Reader(b), 0, {})
  IN  IF r.at < 0 THEN Failed(Reader(b))
      ELSE GetAll([r EXCEPT !.m = "_flags" :> r.m],
                  Flagged((DProperties @@ DOtherProperties)[c], r.m, c))

-----------------------------------------------------------------------------
(* amqp_api.c: the method each function sends and its arguments in the      *)
(* order of the initialiser, the first for the structure's first field.     *)
(* "0" is a constant, "channel" the channel's number.                       *)
Request(method, args) == [method |-> method, args |-> args]

Setups == [
  amqp_channel_open |-> Request("channel_open", <<"empty">>),
  amqp_channel_close |-> Request("channel_close", <<"reply_code", "reply_text", "0", "0">>),
  amqp_connection_close |-> Request("connection_close", <<"reply_code", "reply_text", "0", "0">>),
  amqp_exchange_declare |-> Request("exchange_declare",
    <<"0", "exchange", "type", "passive", "durable", "auto_delete", "0", "0", "arguments">>),
  amqp_exchange_delete |-> Request("exchange_delete", <<"0", "exchange", "if_unused", "nowait">>)]

Queueings == [
  amqp_queue_declare |-> Request("queue_declare",
    <<"0", "queue", "passive", "durable", "exclusive", "auto_delete", "0", "arguments">>),
  amqp_queue_bind |-> Request("queue_bind",
    <<"0", "queue", "exchange", "routing_key", "0", "arguments">>),
  amqp_queue_unbind |-> Request("queue_unbind",
    <<"0", "queue", "exchange", "routing_key", "arguments">>),
  amqp_basic_consume |-> Request("basic_consume",
    <<"0", "queue", "consumer_tag", "no_local", "no_ack", "exclusive", "0">>),
  amqp_queue_purge |-> Request("queue_purge", <<"channel", "queue", "nowait">>),
  amqp_basic_get |-> Request("basic_get", <<"channel", "queue", "no_ack">>)]

Transactions == [
  amqp_tx_select |-> Request("tx_select", <<"channel">>),
  amqp_tx_commit |-> Request("tx_commit", <<"channel">>),
  amqp_tx_rollback |-> Request("tx_rollback", <<"channel">>),
  amqp_basic_qos |-> Request("basic_qos", <<"prefetch_size", "prefetch_count", "global">>)]

Requests == Setups @@ Queueings @@ Transactions

-----------------------------------------------------------------------------
(* What a caller may put into a structure: values that differ from field to *)
(* field (for the i-th field of a structure, in a variant).                 *)
Text(k) == [i \in 1..(k % 3) |-> (k + i) % 256]
SomeTable(k) ==
  <<[key |-> Text(k), kind |-> 83, bytes |-> Text(k + 1)],
    [key |-> Text(k + 1), kind |-> 68, decimals |-> k, value |-> <<k, 65535>>],
    [key |-> <<k>>, kind |-> 70,
     table |-> <<[key |-> <<>>, kind |-> 84, u64 |-> <<1, k, 2, 40000>>],
                 [key |-> Text(k), kind |-> 70, table |-> <<>>],
                 [key |-> Text(k), kind |-> 73, i32 |-> <<32768, k>>]>>]>>
Value(type, i, v) ==
  LET k == i + 20 * v IN
  CASE type = "u8" -> 250 - k
    [] type = "u16" -> 65535 - 300 * k
    [] type = "u32" -> <<40000 + k, k>>
    [] type = "u64" -> <<k, 40000, 300 + k, 7>>
    [] type = "bytes" -> Text(k)
    [] type = "table" -> IF v % 2 = 0 THEN SomeTable(k) ELSE <<>>
    [] type = "bool" -> Bit(i, v)

Filled(fs, v) ==
  [n \in {fs[i][2] : i \in DOMAIN fs} |->
     LET i == CHOOSE j \in DOMAIN fs : fs[j][2] = n IN Value(fs[i][1], i, v)]

\* The structure a function of amqp_api.c sends: only what it names is given.
Zero(type) ==
  CASE type \in {"u8", "u16", "bool"} -> 0
    [] type = "u32" -> <<0, 0>>
    [] type = "u64" -> <<0, 0, 0, 0>>
    [] type \in {"bytes", "table"} -> <<>>
Initialised(q, given) ==
  LET fs == Methods[q.method].fields
      arg(i) == IF q.args[i] = "channel" THEN 1
                ELSE IF q.args[i] \in {"0", "empty"} THEN Zero(fs[i][1]) ELSE given[q.args[i]]
  IN  [n \in {fs[i][2] : i \in DOMAIN fs} |-> arg(CHOOSE i \in DOMAIN fs : fs[i][2] = n)]

-----------------------------------------------------------------------------
(* A sender writes a method, the method of a request or the properties of a *)
(* content; a receiver reads them, or what is left when the frame is cut.   *)
VARIABLES
  writing,         \* [what, name, v, flags]
  encoded,         \* <<the bytes written>>, or <<>>
  cut,             \* how many of them there are for the receiver
  decoded          \* <<what it read>>, or <<>>

framingVars == <<writing, encoded, cut, decoded>>

StructureOf(w) ==
  CASE w.what = "method" -> Filled(Methods[w.name].fields, w.v)
    [] w.what = "request" ->
         Initialised(Requests[w.name], Filled(Methods[Requests[w.name].method].fields, w.v))
    [] w.what = "properties" ->
         [n \in {f[2] : f \in {g \in ToSet(PropertyFields(w.name)) : FlagOf(w.name, g[2]) \in w.flags}} |->
            Filled(PropertyFields(w.name), w.v)[n]]

MethodOf(w) == IF w.what = "request" THEN Requests[w.name].method ELSE w.name

Writings ==
  [what : {"method"}, name : DOMAIN Methods, v : Variants, flags : {{}}]
    \cup [what : {"request"}, name : DOMAIN Requests, v : Variants, flags : {{}}]
    \cup {[what |-> "properties", name |-> c, v |-> 0, flags |-> fl \cap Flags(c)] :
            c \in DOMAIN PropertyStructs, fl \in FlagSets}

FramingInit ==
  writing \in Writings /\ encoded = <<>> /\ cut = 0 /\ decoded = <<>>

Write ==
  /\ encoded = <<>>
  /\ encoded' = <<IF writing.what = "properties"
                  THEN amqp_encode_properties(writing.name, writing.flags, StructureOf(writing))
                  ELSE amqp_encode_method(MethodOf(writing), StructureOf(writing))>>
  /\ UNCHANGED <<writing, cut, decoded>>

Receive(n) ==
  /\ encoded # <<>> /\ decoded = <<>>
  /\ cut' = n
  /\ decoded' = <<IF writing.what = "properties"
                  THEN amqp_decode_properties(writing.name, SubSeq(encoded[1], 1, n))
                  ELSE amqp_decode_method(MethodOf(writing), SubSeq(encoded[1], 1, n))>>
  /\ UNCHANGED <<writing, encoded>>

FramingNext == Write \/ (encoded # <<>> /\ \E n \in 0..Len(encoded[1]) : Receive(n))

-----------------------------------------------------------------------------
(* Whatever a structure holds, the receiver of its bytes reads the same     *)
(* values into the same fields and uses all of the bytes; of a frame that   *)
(* was cut it reads nothing as a whole (amqp_encode_method and              *)
(* amqp_decode_method, amqp_encode_properties and amqp_decode_properties,   *)
(* amqp_table.c).                                                           *)
StructuresReadBack ==
  decoded # <<>> =>
    IF cut = Len(encoded[1])
    THEN decoded[1].at = cut
         /\ decoded[1].m = IF writing.what = "properties"
                           THEN ("_flags" :> writing.flags) @@ StructureOf(writing)
                           ELSE StructureOf(writing)
    ELSE decoded[1].at = -1

(* An argument of a function of amqp_api.c arrives in the field of its      *)
(* name, and every field it does not name is empty or the channel.          *)
ArgumentsArrive ==
  writing.what = "request" /\ decoded # <<>> /\ decoded[1].at >= 0 =>
    LET q == Requests[writing.name]
        fs == Methods[q.method].fields
        given == Filled(fs, writing.v)
    IN  \A i \in DOMAIN fs :
          decoded[1].m[fs[i][2]] =
            IF fs[i][2] \in ToSet(q.args) THEN given[fs[i][2]]
            ELSE IF q.args[i] = "channel" THEN 1 ELSE Zero(fs[i][1])
=============================================================================
