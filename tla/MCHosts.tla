------------------------------- MODULE MCHosts -------------------------------
(***************************************************************************)
(* The parts of the hosts of the analyzer that run concurrently and are    *)
(* modelled apart: the run cache of the MCP server (McpRunCache), the      *)
(* History Server proxy (ShsProxy), the collection of two runs on Node     *)
(* (CollectPair), the layout worker of the browser (LayoutWorker) and its  *)
(* list of recent files (RecentFiles); and the alignment of two runs,      *)
(* which several of them ask for (RunAlignment).  They share no state, so  *)
(* a behaviour is one of theirs: `host` says which, and the others keep    *)
(* their initial state.                                                    *)
(***************************************************************************)
EXTENDS McpRunCache, ShsProxy, CollectPair, LayoutWorker, RecentFiles, MCRunAlignment

VARIABLE host

hostsVars == <<cacheVars, proxyVars, pairVars, layoutVars, recentVars, alignmentVars, host>>

\* A full list of recent files; which files they are is the same to it.
FirstListed == {<<"w", 1>>, <<"x", 2>>}

HostsInit ==
  /\ host \in {"mcp", "proxy", "pair", "layout", "recent", "compare"}
  /\ CacheInit /\ ProxyInit /\ LayoutInit
  /\ PairInit /\ (host # "pair" => \A l \in Logs : good[l])
  /\ RecentInit /\ IF host = "recent" THEN FirstListed = {<<f, entries[f]>> : f \in Listed(entries)}
                                      ELSE Listed(entries) = {}
  /\ AlignmentInit /\ (host # "compare" => table = NoTable)

OnlyMcp == UNCHANGED <<proxyVars, pairVars, layoutVars, recentVars, alignmentVars, host>>
OnlyProxy == UNCHANGED <<cacheVars, pairVars, layoutVars, recentVars, alignmentVars, host>>
OnlyPair == UNCHANGED <<cacheVars, proxyVars, layoutVars, recentVars, alignmentVars, host>>
OnlyLayout == UNCHANGED <<cacheVars, proxyVars, pairVars, recentVars, alignmentVars, host>>
OnlyRecent == UNCHANGED <<cacheVars, proxyVars, pairVars, layoutVars, alignmentVars, host>>
OnlyCompare == UNCHANGED <<cacheVars, proxyVars, pairVars, layoutVars, recentVars, host>>

HostsNext ==
  \/ host = "mcp" /\ CacheNext /\ OnlyMcp
  \/ host = "proxy" /\ ProxyNext /\ OnlyProxy
  \/ host = "pair" /\ PairNext /\ OnlyPair
  \/ host = "layout" /\ LayoutNext /\ OnlyLayout
  \/ host = "recent" /\ RecentNext /\ OnlyRecent
  \/ host = "compare" /\ AlignmentNext /\ OnlyCompare

\* The fairness of each, as its own specification states it.
HostsSpec ==
  /\ HostsInit /\ [][HostsNext]_hostsVars
  /\ WF_proxyVars(host = "proxy" /\ Handle /\ OnlyProxy)
  /\ WF_proxyVars(host = "proxy" /\ NoHeaders /\ OnlyProxy)
  /\ WF_proxyVars(host = "proxy" /\ WatchdogEnds /\ OnlyProxy)
  /\ WF_proxyVars(host = "proxy" /\ Events /\ OnlyProxy)
  /\ WF_proxyVars(host = "proxy" /\ ClientReads /\ OnlyProxy)
  /\ WF_pairVars(host = "pair" /\ PairNext /\ OnlyPair)
  /\ WF_layoutVars(host = "layout" /\ Run /\ OnlyLayout)
=============================================================================
