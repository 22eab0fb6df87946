------------------------------- MODULE Report -------------------------------
(***************************************************************************)
(* The report at /metrics: what the readers of telemetry_def.cpp emit for  *)
(* the enabled sensors, and the OpenMetrics text Collector makes of it.    *)
(* A text is a sequence of tokens: a special character, a digit, or a run  *)
(* of letters that no renderer touches.  No reader gives its points a time *)
(* of their own.                                                           *)
(***************************************************************************)
EXTENDS Integers, SequencesExt

CONSTANTS Enabled,     \* sensors that may be enabled
          MaxEnabled,  \* bound on the number of enabled sensors
          EventKinds,  \* kinds a client may post
          MaxCount,    \* bound on the events of one kind
          Order,       \* identifiers of metrics, as std::string::compare orders them
          Decimals,    \* places after the point in Decimal
          Start, Now   \* when the collector was made, and is asked

VARIABLE sensors       \* in the order of registration

-----------------------------------------------------------------------------
(* MetricPoint.h, and the readers that register_scavengers installs.       *)

Metric(type, identifier, description, unit) ==
  [type |-> type, identifier |-> identifier, description |-> description, unit |-> unit]

Gauge(name) == Metric("gauge", <<name>>, <<>>, <<"bytes">>)
Counter(name) == Metric("counter", <<name>>, <<>>, <<>>)
uptime_metric == Metric("counter", <<"uptime">>, <<"Measure", " ", "the", " ", "up">>, <<"seconds">>)

\* Attributes are pairs of texts.
Point(def, attrs, value) == [def |-> def, attrs |-> attrs, value |-> value]
Value(n) == [kind |-> "number", text |-> <<ToString(n)>>]
Label(key, value) == <<<<key>>, value>>

\* leveldb.sstables lists the files of each level under a heading.
Flush(read) ==
  IF read.level = -1 THEN read.out
  ELSE Append(read.out, Point(Gauge("nostr_database_level_size"),
                              <<Label("level", <<ToString(read.level)>>)>>, Value(read.size)))

ReadTable(read, line) ==
  IF line.heading THEN [level |-> line.number, size |-> 0, out |-> Flush(read)]
  ELSE [read EXCEPT !.size = @ + line.number]

Tables(lines) == Flush(FoldLeft(ReadTable, [level |-> -1, size |-> 0, out |-> <<>>], lines))

Database(s) ==
  Tables(s.tables)
  \o [i \in DOMAIN s.collections |->
        Point(Gauge("nostr_database_collection_size"),
              <<Label("collection", s.collections[i].name)>>, Value(s.collections[i].size))]
  \o <<Point(Gauge("nostr_database_memory_usage"), <<>>, Value(s.memory))>>

Storage(s) == <<Point(Counter("nostr_database_events"), <<>>, Value(s.rev))>>

SharedStats(s) == <<Point(Counter("nostr_database_duplicated_posts"), <<>>, Value(s.duplicated_post))>>

\* What is counted for a client, in the order of emission.
client_metrics ==
  <<Counter("nostr_client_command_count"), Counter("nostr_client_query_count"),
    Metric("gauge", <<"nostr_client_active_subscriptions">>, <<>>, <<>>),
    Counter("nostr_client_error_count"),
    Metric("gauge", <<"nostr_client_max_active_subscriptions">>, <<>>, <<>>)>>

Client(s) ==
  LET basic == <<Label("connID", <<ToString(s.id)>>)>>
      extended == basic \o <<Label("userAgent", s.user_agent), Label("ident", s.ident)>>
  IN <<Point(Metric("info", <<"nostr_client_info">>, <<>>, <<>>), extended, [kind |-> "info"])>>
     \o [i \in DOMAIN client_metrics |-> Point(client_metrics[i], basic, Value(s.counters[i]))]
     \o [i \in DOMAIN s.kinds |->
           Point(Counter("nostr_client_post_events"),
                 Append(basic, Label("kind", <<ToString(s.kinds[i].kind)>>)),
                 Value(s.kinds[i].count))]

\* Another sensor's reader may emit any point.
Emitted(s) ==
  CASE s.type = "database" -> Database(s)
    [] s.type = "storage"  -> Storage(s)
    [] s.type = "stats"    -> SharedStats(s)
    [] s.type = "client"   -> Client(s)
    [] OTHER               -> s.points

-----------------------------------------------------------------------------
(* Texts.                                                                  *)

Figures == <<"0", "1", "2", "3", "4", "5", "6", "7", "8", "9">>
Signs == {"\n", "\"", "\\", " ", "-", "{", "}", "=", ","}

\* Faulty variant: the backslash is not escaped itself.
Escaped_NotItself(c) ==
  CASE c = "\n" -> <<"\\", "n">> [] c = "\"" -> <<"\\", c>> [] OTHER -> <<c>>

Escaped(c) ==
  CASE c = "\n" -> <<"\\", "n">> [] c \in {"\"", "\\"} -> <<"\\", c>> [] OTHER -> <<c>>

render_escaped(text) == FlattenSeq([i \in DOMAIN text |-> Escaped(text[i])])

\* What is left of n, and the digits written of it, from the last one on.
WriteDigit(written, decimals) ==
  IF decimals < 0 /\ written.left = 0 THEN written
  ELSE [left |-> written.left \div 10,
        text |-> (IF decimals = 1 THEN <<".">> ELSE <<>>)
                 \o <<Figures[(written.left % 10) + 1]>> \o written.text]

\* The levels of the recursion that a number of 19 digits may need.
Levels(decimals) == [i \in 1..(decimals + 20) |-> (decimals + 1) - i]

to_string_helper(n, decimals) ==
  FoldLeft(WriteDigit, [left |-> n, text |-> <<>>], Levels(decimals)).text

Decimal(n) ==
  CASE n = 0 -> <<"0">> \o (IF Decimals > 0 THEN <<".">> ELSE <<>>) \o [i \in 1..Decimals |-> "0"]
    [] n < 0 -> <<"-">> \o to_string_helper(-n, Decimals)
    [] n > 0 -> to_string_helper(n, Decimals)

render_metric_identifier(name) ==
  IF name = <<>> THEN <<"error", ":", "__empty__">>
  ELSE (IF name[1] \in Signs \cup ToSet(Figures) \cup {"_"} THEN <<"x">> ELSE <<>>)
       \o [i \in DOMAIN name |-> IF name[i] \in Signs THEN "_" ELSE name[i]]

render_attribute_key(name) ==
  IF name = <<>> THEN <<"__empty">>
  ELSE (IF name[1] \in ToSet(Figures) THEN <<"n">> ELSE <<>>)
       \o [i \in DOMAIN name |-> IF name[i] \in Signs \cup {":"} THEN "_" ELSE name[i]]

render_metric_name(def) ==
  render_metric_identifier(def.identifier)
  \o (IF def.unit = <<>> THEN <<>> ELSE <<"_">> \o render_metric_identifier(def.unit))

render_attributes(attrs) ==
  IF attrs = <<>> THEN <<>>
  ELSE FlattenSeq([i \in DOMAIN attrs |->
         <<IF i = 1 THEN "{" ELSE ",">> \o render_attribute_key(attrs[i][1]) \o <<"=", "\"">>
         \o render_escaped(attrs[i][2]) \o <<"\"">>]) \o <<"}">>

render_metric_point(def, suffix, attrs, value) ==
  render_metric_name(def) \o suffix \o render_attributes(attrs)
  \o <<" ">> \o value \o <<" ">> \o Decimal(Now) \o <<"\n">>

metric_type_to_string(type) ==
  CASE type = "gauge_histogram" -> "gaugehistogram"
    [] type \in {"state_set", "state_enum"} -> "stateset"
    [] OTHER -> type

render_definition(def) ==
  LET Comment(word, text) ==
        <<"#", " ", word, " ">> \o render_metric_name(def) \o <<" ">> \o text \o <<"\n">>
  IN <<Comment("TYPE", <<metric_type_to_string(def.type)>>)>>
     \o (IF def.description = <<>> THEN <<>>
         ELSE <<Comment("HELP", render_escaped(def.description))>>)
     \o (IF def.unit = <<>> THEN <<>> ELSE <<Comment("UNIT", render_escaped(def.unit))>>)

-----------------------------------------------------------------------------
(* Values and the whole report.                                            *)

Part(suffix, extra, value) == [suffix |-> suffix, extra |-> extra, value |-> value]
Bit(b) == IF b THEN <<"1">> ELSE <<"0">>

States(type, v) ==
  [i \in DOMAIN v.names |->
     Part(<<>>, <<<<v.key, v.names[i]>>>>,
          Bit(IF type = "state_enum" THEN v.state = i - 1 ELSE (v.state \div 2 ^ (i - 1)) % 2 = 1))]

Sums(type, v) ==
  LET Both(sum, count) == <<Part(sum, <<>>, v.sum), Part(count, <<>>, <<ToString(v.count)>>)>>
  IN CASE type \in {"summary", "histogram"} -> Both(<<"_", "sum">>, <<"_", "count">>)
       [] type = "gauge_histogram" -> Both(<<"_", "gsum">>, <<"_", "gcount">>)
       [] OTHER -> <<>>

\* Each bucket counts what lies below, too.
Buckets(type, v) ==
  IF type # "histogram" THEN <<>>
  ELSE [i \in DOMAIN v.counts |->
          Part(<<"_", "bucket">>,
               <<Label("le", IF i > Len(v.boundaries) THEN <<"+", "Inf">> ELSE v.boundaries[i])>>,
               <<ToString(FoldLeft(LAMBDA sum, n : sum + n, 0, SubSeq(v.counts, 1, i)))>>)]

render_value(p) ==
  LET v == p.value
      type == p.def.type
  IN CASE v.kind = "info"      -> <<Part(<<"_", "info">>, <<>>, <<"1">>)>>
       [] v.kind = "states"    -> States(type, v)
       [] v.kind = "summary"   -> Sums(type, v)
       [] v.kind = "histogram" -> Sums(type, v) \o Buckets(type, v)
       [] v.kind = "number"    ->
            <<Part(IF type = "counter" THEN <<"_", "total">> ELSE <<>>, <<>>, v.text)>>

Created(p, created) ==
  IF p.def.type \in {"summary", "counter", "histogram"}
  THEN <<Part(<<"_", "created">>, <<>>, Decimal(created))>> ELSE <<>>

render_metrics(m, describe) ==
  LET parts == render_value(m.point) \o Created(m.point, m.created)
  IN (IF describe THEN render_definition(m.point.def) ELSE <<>>)
     \o [i \in DOMAIN parts |->
          render_metric_point(m.point.def, parts[i].suffix,
                              m.point.attrs \o parts[i].extra, parts[i].value)]

\* What the readers have pushed, each point with the time its sensor was made.
Pushed ==
  FlattenSeq([k \in DOMAIN sensors |->
    LET points == Emitted(sensors[k])
    IN [i \in DOMAIN points |-> [point |-> points[i], created |-> sensors[k].created]]])

\* Faulty variant: the points are written as they come.
Sorted_NotAtAll(metrics) == metrics

\* The stable sort brings together what has one identifier.
Sorted(metrics) ==
  FlattenSeq([k \in DOMAIN Order |->
    SelectSeq(metrics, LAMBDA m : m.point.def.identifier = Order[k])])

Uptime == [point |-> Point(uptime_metric, <<>>, [kind |-> "number", text |-> Decimal(Now - Start)]),
           created |-> Start]

\* The lines written, as the calls of render_metric_point and render_definition make them.
collect_lk ==
  LET metrics == Append(Sorted(Pushed), Uptime)
      Identifier(i) == metrics[i].point.def.identifier
  IN FlattenSeq([i \in DOMAIN metrics |->
       render_metrics(metrics[i], IF i = 1 THEN Identifier(1) # <<>> ELSE Identifier(i) # Identifier(i - 1))])

-----------------------------------------------------------------------------
ReportInit == sensors = <<>>

Enable(s) ==
  /\ Len(sensors) < MaxEnabled
  /\ sensors' = Append(sensors, s)

\* A sorted vector of kinds and their numbers.
report_kind(i, k) ==
  LET kinds == sensors[i].kinds
      fewer == SelectSeq(kinds, LAMBDA x : x.kind < k)
      more == SelectSeq(kinds, LAMBDA x : x.kind > k)
      old == SelectSeq(kinds, LAMBDA x : x.kind = k)
      count == IF old = <<>> THEN 1 ELSE old[1].count + 1
  IN /\ sensors[i].type = "client" /\ count <= MaxCount
     /\ sensors' = [sensors EXCEPT ![i].kinds = fewer \o <<[kind |-> k, count |-> count]>> \o more]

MoreMeasured ==
  \/ \E s \in Enabled : Enable(s)
  \/ \E i \in DOMAIN sensors, k \in EventKinds : report_kind(i, k)

-----------------------------------------------------------------------------
(* A reader of OpenMetrics: it cuts lines into fields at " ", "{", "=" and *)
(* "," outside of quotes, and takes back the escapes.                      *)

Unread == [field |-> <<>>, fields |-> <<>>, lines |-> <<>>, quoted |-> FALSE, escaped |-> FALSE]

ReadToken(r, c) ==
  CASE r.escaped ->
         [r EXCEPT !.escaped = FALSE, !.field = Append(@, IF c = "n" THEN "\n" ELSE c)]
    [] ~r.escaped /\ c = "\\" -> [r EXCEPT !.escaped = TRUE]
    [] ~r.escaped /\ c = "\"" -> [r EXCEPT !.quoted = ~@]
    [] ~r.escaped /\ ~r.quoted /\ c \in {" ", "{", "=", ","} ->
         [r EXCEPT !.field = <<>>, !.fields = Append(@, r.field)]
    [] ~r.escaped /\ ~r.quoted /\ c = "\n" ->
         [r EXCEPT !.field = <<>>, !.fields = <<>>, !.lines = Append(@, Append(r.fields, r.field))]
    [] ~r.escaped /\ ~r.quoted /\ c = "}" -> r
    [] OTHER -> [r EXCEPT !.field = Append(@, c)]

ReadLines(written) ==
  FlattenSeq([i \in DOMAIN written |-> FoldLeft(ReadToken, Unread, written[i]).lines])

\* The suffixes that samples of a type have.
SuffixesOf(type) ==
  CASE type = "counter"        -> {"total", "created"}
    [] type = "info"           -> {"info"}
    [] type = "summary"        -> {"sum", "count", "created"}
    [] type = "histogram"      -> {"sum", "count", "created", "bucket"}
    [] type = "gaugehistogram" -> {"gsum", "gcount"}
    [] OTHER                   -> {""}

\* What a point says: its name, labels and values.
SamplesOf(m) ==
  LET parts == render_value(m.point) \o Created(m.point, m.created)
  IN [i \in DOMAIN parts |->
        <<render_metric_name(m.point.def) \o parts[i].suffix>>
        \o FlattenSeq(m.point.attrs \o parts[i].extra) \o <<parts[i].value, Decimal(Now)>>]

\* Lines that are read describe each metric once, before its samples, and say what was
\* measured.
Says(lines, metrics) ==
  LET comments == {i \in DOMAIN lines : lines[i][1] = <<"#">>}
      types == {i \in comments : lines[i][2] = <<"TYPE">>}
      Described(i) == CHOOSE h \in types : h <= i /\ \A g \in types : g <= i => g <= h
      SamplesBelow(h) ==
        SelectSeq([i \in DOMAIN lines |-> i], LAMBDA i : i \notin comments /\ Described(i) = h)
  IN /\ 1 \in types
     /\ \A h, g \in types : lines[h][3] = lines[g][3] => h = g
     /\ \A i \in DOMAIN lines \ comments :
          LET h == Described(i)
          IN \E x \in SuffixesOf(lines[h][4][1]) :
               lines[i][1] = lines[h][3] \o (IF x = "" THEN <<>> ELSE <<"_", x>>)
     /\ \A m \in ToSet(metrics) : \E h \in types :
          /\ lines[h][3] = render_metric_name(m.point.def)
          /\ [i \in DOMAIN SamplesBelow(h) |-> lines[SamplesBelow(h)[i]]]
               = FlattenSeq([k \in DOMAIN metrics |->
                   IF metrics[k].point.def = m.point.def THEN SamplesOf(metrics[k]) ELSE <<>>])

\* Collector::collect: "report in valid OpenMetrics format".  Each metric is described
\* once, before its samples and with no other's between them, the samples bear suffixes of
\* the metric's type, and labels, values and times are read back as they were emitted,
\* whatever clients called themselves.
ReportReadsBack ==
  sensors # <<>> => Says(ReadLines(collect_lk), Append(Pushed, Uptime))
=============================================================================
