--------------------------- MODULE ExporterPlugins ---------------------------
(***************************************************************************)
(* Exporter plugins: ExporterPlugin resources, the operator's second       *)
(* controller, which probes their health and writes it into their status,  *)
(* and the API server's watcher, which keeps its registry of exporters in  *)
(* line with the resources.                                                *)
(***************************************************************************)
EXTENDS Operator

CONSTANTS
    Plugins,   \* names of ExporterPlugin resources
    BuiltIn    \* "mcp-gateway", registered before the watcher starts

ASSUME PluginsAssumption == BuiltIn \in Plugins

StaleAfter == 3   \* probe intervals after which a result is stale

Answers == {"200", "401", "500", "timeout", "refused"}

Phases == {"none", "Ready", "Error", "Unhealthy", "Unknown"}

(***************************************************************************)
(* A resource: its incarnation, what its spec says (by number), whether    *)
(* the API server can use its endpoint (it has no path), and the phase in  *)
(* its status.  An exporter says Unknown until it is told a phase.         *)
(***************************************************************************)
Plugin == [uid : Nat, spec : Nat, valid : BOOLEAN, phase : Phases]

Exporter ==
    [builtIn : {TRUE}, spec : {0}, health : {"none"}]
      \cup [builtIn : {FALSE}, spec : Nat, health : Phases \ {"none"}]

ASSUME AbsentAssumption == NoObject \notin Exporter

VARIABLES
    plugins,   \* the resources: name -> Plugin or NoObject
    answers,   \* what each plugin answers to a request
    age,       \* the intervals since the last probe that a status tells of
    due,       \* the keys in the controller's queue
    probe,     \* the probe under way: the resource as it was read, or NoObject
    seen,      \* the API server's copies of the resources
    registry   \* its exporters: name -> Exporter or NoObject

pluginVars == <<plugins, answers, age, due, probe, seen, registry>>

PluginsTypeOK ==
    /\ plugins \in [Plugins -> Plugin \cup {NoObject}]
    /\ answers \in [Plugins -> Answers]
    /\ age \in [Plugins -> 0..StaleAfter + 1]
    /\ due \subseteq Plugins
    /\ probe \in [Plugins -> Plugin \cup {NoObject}]
    /\ seen \in [Plugins -> Plugin \cup {NoObject}]
    /\ registry \in [Plugins -> Exporter \cup {NoObject}]

(***************************************************************************)
(* What the registry says of a resource: its phase, once it has one.       *)
(***************************************************************************)
(* MUTANT: a resource without a phase leaves the exporter without one. *)
WebhookOfPhase(r) == [builtIn |-> FALSE, spec |-> r.spec, health |-> r.phase]

Webhook(r) == [builtIn |-> FALSE, spec |-> r.spec,
               health |-> IF r.phase = "none" THEN "Unknown" ELSE r.phase]

Fresh == [p \in Plugins |-> IF p = BuiltIn
             THEN [builtIn |-> TRUE, spec |-> 0, health |-> "none"] ELSE NoObject]

Nothing == [p \in Plugins |-> NoObject]

PluginsInit ==
    /\ plugins = [p \in Plugins |-> IF p = BuiltIn \/ ~load.installed THEN NoObject
                   ELSE [uid |-> 0, spec |-> 0, valid |-> TRUE, phase |-> "Ready"]]
    /\ answers = [p \in Plugins |-> "200"]
    /\ age = [p \in Plugins |-> 0]
    /\ due = {}
    /\ probe = Nothing
    /\ seen = plugins
    /\ registry = [p \in Plugins |-> IF plugins[p] = NoObject THEN Fresh[p] ELSE Webhook(plugins[p])]

-----------------------------------------------------------------------------
(***************************************************************************)
(* What others change: the resources, and how the plugins answer.  Every   *)
(* change of a resource, of its status too, triggers the controller.       *)
(***************************************************************************)
Triggered(p) == IF running THEN due \cup {p} ELSE due

WritePlugin ==
    /\ Change("plugins")
    /\ \E p \in Plugins, valid \in BOOLEAN :
         /\ plugins' = [plugins EXCEPT ![p] =
              IF @ = NoObject
                THEN [uid |-> edits + 1, spec |-> edits + 1, valid |-> valid, phase |-> "none"]
                ELSE [@ EXCEPT !.spec = edits + 1, !.valid = valid]]
         /\ due' = Triggered(p)
    /\ UNCHANGED <<answers, age, probe, seen, registry>>

DeletePlugin ==
    /\ Change("plugins")
    /\ \E p \in Plugins :
         /\ plugins[p] # NoObject
         /\ plugins' = [plugins EXCEPT ![p] = NoObject]
         /\ age' = [age EXCEPT ![p] = 0]
         /\ due' = Triggered(p)
    /\ UNCHANGED <<answers, probe, seen, registry>>

ChangeAnswer ==
    /\ Change("answers")
    /\ \E p \in Plugins, x \in Answers : x # answers[p] /\ answers' = [answers EXCEPT ![p] = x]
    /\ UNCHANGED <<plugins, age, due, probe, seen, registry>>

-----------------------------------------------------------------------------
(***************************************************************************)
(* The controller, one worker.  A reconciliation ends with RequeueAfter,   *)
(* so that an interval makes every resource due, and begins once what the  *)
(* interval before made due is done: a probe takes at most 10 seconds of   *)
(* an interval of 30, so this is so of up to three plugins that time out.  *)
(***************************************************************************)
Busy == \E p \in Plugins : probe[p] # NoObject

Behind == \E p \in Plugins : age[p] > 0 /\ (p \in due \/ probe[p] # NoObject)

Interval ==
    /\ load.does \cap {"plugins", "answers"} # {}
    /\ running => ~Behind
    /\ age' = [p \in Plugins |-> IF plugins[p] = NoObject \/ age[p] > StaleAfter THEN age[p] ELSE age[p] + 1]
    /\ due' = IF running THEN {p \in Plugins : plugins[p] # NoObject} ELSE due
    /\ UNCHANGED <<plugins, answers, probe, seen, registry>>

(***************************************************************************)
(* A result that is stale is set aside; the write triggers the probe.      *)
(***************************************************************************)
(* MUTANT: a stale result is set aside again and again. *)
StaleForEver(p) == plugins[p].phase # "none" /\ age[p] > StaleAfter

Stale(p) == plugins[p].phase \notin {"none", "Unknown"} /\ age[p] > StaleAfter

ProbeStart(p) ==
    /\ running /\ p \in due /\ ~Busy
    /\ LET r == plugins[p]
       IN IF r # NoObject /\ Stale(p)
            THEN /\ plugins' = [plugins EXCEPT ![p].phase = "Unknown"]
                 /\ UNCHANGED <<due, probe>>
            ELSE /\ due' = due \ {p}
                 /\ probe' = [probe EXCEPT ![p] = r]
                 /\ UNCHANGED plugins
    /\ UNCHANGED <<answers, age, seen, registry>>

Classify(answer) ==
    CASE answer = "200" -> "Ready"
      [] answer \in {"401", "refused"} -> "Error"
      [] answer \in {"500", "timeout"} -> "Unhealthy"

(***************************************************************************)
(* The status says when the probe was made, in seconds: only a probe right *)
(* after another may write the status that is there.  A write to a         *)
(* resource that has changed is refused, and its error only logged.        *)
(***************************************************************************)
ProbeEnd(p) ==
    /\ probe[p] # NoObject
    /\ probe' = [probe EXCEPT ![p] = NoObject]
    /\ LET new == [probe[p] EXCEPT !.phase = Classify(answers[p])]
       IN IF plugins[p] # probe[p] THEN UNCHANGED <<plugins, age, due>>
            ELSE /\ plugins' = [plugins EXCEPT ![p] = new]
                 /\ age' = [age EXCEPT ![p] = 0]
                 /\ \/ due' = due \cup {p}
                    \/ new = probe[p] /\ age[p] = 0 /\ UNCHANGED due
    /\ UNCHANGED <<answers, seen, registry>>

(***************************************************************************)
(* The operator goes down and comes back with every resource due.          *)
(***************************************************************************)
DownPlugins ==
    /\ Down
    /\ due' = {} /\ probe' = Nothing
    /\ UNCHANGED <<plugins, answers, age, seen, registry>>

UpPlugins ==
    /\ Up
    /\ due' = {p \in Plugins : plugins[p] # NoObject}
    /\ UNCHANGED <<plugins, answers, age, probe, seen, registry>>

-----------------------------------------------------------------------------
(***************************************************************************)
(* The API server's watcher.  A resource that has been deleted and made    *)
(* again comes as two events, or as an update when the watch had to list   *)
(* the resources anew.  A name that is taken by a built-in exporter and an *)
(* endpoint that cannot be used are skipped, which on an update keeps the  *)
(* exporter of before.                                                     *)
(***************************************************************************)
IsBuiltIn(p) == registry[p] # NoObject /\ registry[p].builtIn

(* MUTANT: the name is only looked at when the resource is added. *)
RegisterAny(p, r) ==
    registry' = IF ~r.valid \/ (seen[p] = NoObject /\ IsBuiltIn(p)) THEN registry
      ELSE [registry EXCEPT ![p] = Webhook(r)]

RegisterWebhook(p, r) ==
    registry' = IF ~r.valid \/ IsBuiltIn(p) THEN registry
      ELSE [registry EXCEPT ![p] = Webhook(r)]

Deregister(p) ==
    registry' = IF IsBuiltIn(p) THEN registry ELSE [registry EXCEPT ![p] = NoObject]

Handle(p) ==
    /\ seen[p] # plugins[p]
    /\ LET old == seen[p]
           new == plugins[p]
           again == old # NoObject /\ new # NoObject /\ old.uid # new.uid
       IN \/ /\ new # NoObject
             /\ RegisterWebhook(p, new)
             /\ seen' = [seen EXCEPT ![p] = new]
          \/ /\ new = NoObject \/ again
             /\ Deregister(p)
             /\ seen' = [seen EXCEPT ![p] = NoObject]
    /\ UNCHANGED <<plugins, answers, age, due, probe>>

RestartServer ==
    /\ Change("server")
    /\ seen' = Nothing
    /\ registry' = Fresh
    /\ UNCHANGED <<plugins, answers, age, due, probe>>

(***************************************************************************)
(* Everything in the cluster that does not concern the catalogs.           *)
(***************************************************************************)
OperatorCalm ==
    UNCHANGED <<store, cache, dirty, queued, worker, running, load, faults, lagged, told>>

PluginsNext ==
    \/ OperatorNext /\ UNCHANGED pluginVars
    \/ DownPlugins \/ UpPlugins
    \/ (WritePlugin \/ DeletePlugin \/ ChangeAnswer) /\ OperatorCalm
    \/ /\ Interval \/ \E p \in Plugins : ProbeStart(p) \/ ProbeEnd(p) \/ Handle(p)
       /\ OperatorCalm /\ UNCHANGED edits

(***************************************************************************)
(* Timers fire, probes end (the client has a timeout), the watch delivers; *)
(* the work queue is fair to its keys.                                     *)
(***************************************************************************)
PluginsFairness ==
    /\ WF_pluginVars(Interval)
    /\ \A p \in Plugins :
         SF_pluginVars(ProbeStart(p)) /\ WF_pluginVars(ProbeEnd(p)) /\ WF_pluginVars(Handle(p))

-----------------------------------------------------------------------------
(***************************************************************************)
(* No resource replaces or removes a built-in exporter.                    *)
(***************************************************************************)
BuiltInKept == registry[BuiltIn] = Fresh[BuiltIn]

(***************************************************************************)
(* Once changes stop, the registry has exactly the exporters of the        *)
(* resources with a usable endpoint, at their present spec, and says of    *)
(* each what the plugin answers to the probes.  A resource that became     *)
(* unusable keeps the exporter it had, or none.                            *)
(***************************************************************************)
InRegistry(p) ==
    IF plugins[p] = NoObject THEN registry[p] = NoObject
      ELSE plugins[p].valid =>
             registry[p] = Webhook([plugins[p] EXCEPT !.phase = Classify(answers[p])])

RegistryFollows == <>[](\A p \in Plugins \ {BuiltIn} : InRegistry(p))
=============================================================================
