---------------------------- MODULE MCPipelines -----------------------------
EXTENDS Pipelines

Everything == [all |-> TRUE, to |-> {}, exclude |-> {}]

\* Everything; everything but two plugins and a kind; one kind; one plugin; nothing; and two that
\* say nothing, one of them with something else, which is refused.
MCConfigs ==
  {Everything, [Everything EXCEPT !.exclude = {"crt.sh", "Known-FQDN", "Identifier"}],
   [all |-> FALSE, to |-> {"FQDN"}, exclude |-> {}],
   [all |-> FALSE, to |-> {"HTTP-Probes"}, exclude |-> {}],
   [all |-> FALSE, to |-> {}, exclude |-> {}],
   [all |-> FALSE, to |-> {"none"}, exclude |-> {}],
   [all |-> TRUE, to |-> {"none"}, exclude |-> {}]}
=============================================================================
