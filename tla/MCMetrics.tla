----------------------------- MODULE MCMetrics -----------------------------
(***************************************************************************)
(* The metrics and log calls with which Metrics is checked.                *)
(***************************************************************************)
EXTENDS Metrics

Lit(s) == [typ |-> "lit", text |-> s, path |-> <<>>, hasDefault |-> FALSE]
Var(path) == [typ |-> "var", text |-> "", path |-> path, hasDefault |-> FALSE]
VarOr(path, default) == [typ |-> "var", text |-> default, path |-> path, hasDefault |-> TRUE]

Metric(name, value, agg, window) ==
  [msgs |-> {"foo"}, fields |-> {}, value |-> value, name |-> name,
   double |-> FALSE, agg |-> agg, window |-> window]

\* One metric of each kind with each window.
Plain == {<<Metric(<<Lit("a")>>, <<"val">>, agg, window)>> :
            agg \in {"Replace", "Ignore", "Sum", "Max", "Min"}, window \in 0..2}

\* Two metrics: names from fields, a default, a matched field, an index.
Mixed == {<<[Metric(<<Lit("a"), VarOr(<<"src">>, "none")>>, <<>>, "Sum", 1) EXCEPT !.double = TRUE],
            [Metric(<<Lit("a"), Var(<<"src">>)>>, <<"list", "1">>, "Max", 2)
               EXCEPT !.fields = {[path |-> <<"val">>, texts |-> {"1", "-1", "2"}]}]>>}

MCConfigs == Plain \cup Mixed

Entry(level, msg, extra) ==
  [level |-> level, msg |-> msg, extra |-> extra, base |-> [src |-> Text("x")]]

MCCalls ==
  {Entry("Info", "foo", [val |-> Num(1)]), Entry("Debug", "foo", [val |-> Num(1)]),
   Entry("Info", "bar", [val |-> Num(1)]), Entry("Info", "foo", [val |-> Text("x")]),
   Entry("Warn", "foo", [val |-> Num(-1), list |-> Slice(<<Num(1)>>)]),
   Entry("Info", "foo", [val |-> Text("2"), list |-> Slice(<<Num(1), Num(1)>>)]),
   Entry("Error", "foo", [val |-> Text("NaN")]),
   Entry("Panic", "foo", [val |-> Num(1), list |-> Slice(<<Num(1)>>)])}

Logger(typ, level) == [typ |-> typ, level |-> level]

\* Two pairs of loggers with the same level, one on both sides of the metrics.
MCChain ==
  <<Logger("logrus", "WarnLevel"), Logger("metrics", "info"), Logger("null", ""),
    Logger("callback", "warning"), Logger("logrus", "TraceLevel"), Logger("callback", "debug"),
    Logger("entry", "FatalLevel")>>
=============================================================================
