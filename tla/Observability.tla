---------------------------- MODULE Observability ----------------------------
(***************************************************************************)
(* What is measured, traced and logged (pkg/httpmetrics, pkg/gitexec), one *)
(* beside the other: requests that are sent (HttpMetrics) and served       *)
(* (ServerMetrics), a trace (Tracing), and a call of git (GitExec).  They  *)
(* share no state: served are the requests of ServerMetrics.               *)
(***************************************************************************)
EXTENDS Tracing

CONSTANTS Requests, Targets, Quota, Handlers, Limit, MaxBytes, MaxWrite

VARIABLES config, setters, reqs, left, inFlight, counted, gauges, limited, overtaken,
          provider, wrapped, served, serving, sized, status, timed,
          command, git, helper, written, pipe, copier, content, failure, result

H == INSTANCE HttpMetrics
S == INSTANCE ServerMetrics WITH reqs <- served
G == INSTANCE GitExec

\* Each has its types.
ObservedTypeOK == TypeOK /\ H!TypeOK /\ S!TypeOK /\ G!TypeOK

\* The properties of HttpMetrics, ServerMetrics and GitExec, which say there what
\* they mean.
MetricsAreTrue == H!MetricsAreTrue /\ S!ServedIsTrue
AsItWas        == G!AsItWas
=============================================================================
