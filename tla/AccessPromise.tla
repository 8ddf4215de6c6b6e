--------------------------- MODULE AccessPromise ---------------------------
(***************************************************************************)
(* What pkg/access promises a consumer, without saying how: every call of  *)
(* BuildConfigFromCP answers from one published status of one profile and  *)
(* from the provider file alone.  Neither another call, whether concurrent *)
(* or earlier, nor a later publication shows in the answer.                *)
(*                                                                         *)
(* The promise is stated with quantifiers over the result; AccessBuild     *)
(* computes it with loops over shared memory.                              *)
(***************************************************************************)
EXTENDS AccessTypes

CONSTANTS Builders, Profiles, Contents

VARIABLES
    status,  \* status[p]: the published access providers of profile p
    call,    \* call[b]: what the caller of builder b knows of its call
    alive    \* FALSE once a panic has ended the consumer process

vars == <<status, call, alive>>

Idle == [state |-> "idle"]

Pending(content) == [state |-> "pending", content |-> content]

Returned(content, o) ==
    [state |-> "returned", content |-> content, outcome |-> o]

Error == [kind |-> "error"]

-----------------------------------------------------------------------------
(* The promise about one answer.                                           *)

\* Entry a of the status may serve provider number i: no provider that the
\* configuration prefers is offered by the profile.
Serves(content, a, i) ==
    /\ a \in Range(content)
    /\ i \in DOMAIN Providers
    /\ a.name = Providers[i].name
    /\ \A j \in 1 .. i - 1 : \A k \in DOMAIN content :
            content[k].name # Providers[j].name

Has(a, name) == \E k \in DOMAIN a.extensions : a.extensions[k].name = name

DataOf(a, name) ==
    (CHOOSE x \in Range(a.extensions) : x.name = name).data

SourcesArgs(a, p) == Has(a, "args") /\ p.cliArgs \notin {"", "Ignore"}

SourcesEnv(a, p) == Has(a, "envs") /\ p.envVars \notin {"", "Ignore"}

\* The policy is a known one and the payload has the shape it asks for.
Acceptable(a, p) ==
    /\ p.exec # NoExec
    /\ SourcesArgs(a, p) => /\ p.cliArgs = "Append"
                            /\ DataOf(a, "args").kind \in {"list", "null"}
    /\ SourcesEnv(a, p) => /\ p.envVars # "unsupported"
                           /\ DataOf(a, "envs").kind \in {"strings", "null"}

PromisedArgs(a, p, args) ==
    args = p.exec.args \o
             (IF SourcesArgs(a, p) /\ DataOf(a, "args").kind = "list"
              THEN DataOf(a, "args").list ELSE << >>)

\* Every name of either side exactly once, in order, and the value of a name
\* that both sides give is decided by the policy.
PromisedEnv(a, p, env) ==
    IF ~SourcesEnv(a, p) THEN env = p.exec.env
    ELSE LET extra == Decoded(DataOf(a, "envs"))
             base  == p.exec.env
             Kept(n) == p.envVars = "AppendIfNotExists" \/ n \notin DOMAIN extra
         IN  /\ \A i \in DOMAIN env : \A j \in 1 .. i - 1 :
                   env[j].name < env[i].name
             /\ NamesOf(env) = NamesOf(base) \cup DOMAIN extra
             /\ \A e \in Range(env) :
                  IF e.name \in NamesOf(base) /\ Kept(e.name)
                  THEN e \in Range(base)
                  ELSE e.value = extra[e.name]

PromisedConfig(a, p, config) ==
    config = IF Has(a, "exec") THEN DataOf(a, "exec") ELSE p.exec.config

PromisedFor(a, p, o) ==
    \/ o = Error /\ (~UniqueNames(a.extensions) \/ ~Acceptable(a, p))
    \/ /\ o.kind = "config"
       /\ o.server = a.server /\ o.proxy = a.proxy
       /\ p.exec # NoExec
       /\ UniqueNames(a.extensions) =>
            /\ Acceptable(a, p)
            /\ PromisedArgs(a, p, o.args)
            /\ PromisedEnv(a, p, o.env)
            /\ PromisedConfig(a, p, o.config)

Promised(content, o) ==
    \/ Supported(content) = {} /\ o = Error
    \/ \E k \in DOMAIN content, i \in DOMAIN Providers :
          /\ Serves(content, content[k], i)
          /\ PromisedFor(content[k], Providers[i], o)

\* Nothing is promised to a consumer whose provider merges an envs extension
\* without data: that call may end the process.
MayPanic(content) ==
    \E k \in DOMAIN content, i \in DOMAIN Providers :
        /\ Serves(content, content[k], i)
        /\ Providers[i].envVars \in {"AppendIfNotExists", "Replace"}
        /\ \E x \in Range(content[k].extensions) :
              x.name = "envs" /\ x.data.kind = "null"

-----------------------------------------------------------------------------
Init ==
    /\ status \in [Profiles -> Contents]
    /\ call = [b \in Builders |-> Idle]
    /\ alive = TRUE

Publish(p) ==
    /\ \E content \in Contents : status' = [status EXCEPT ![p] = content]
    /\ UNCHANGED <<call, alive>>

Begin(b, p) ==
    /\ call[b] = Idle
    /\ call' = [call EXCEPT ![b] = Pending(status[p])]
    /\ UNCHANGED <<status, alive>>

\* A call that is refused at once.
Refuse(b, p) ==
    /\ call[b] = Idle
    /\ Promised(status[p], Error)
    /\ call' = [call EXCEPT ![b] = Returned(status[p], Error)]
    /\ UNCHANGED <<status, alive>>

Answer(b) ==
    /\ call[b].state = "pending"
    /\ call'[b].state = "returned"
    /\ Promised(call[b].content, call'[b].outcome)
    /\ call' = [call EXCEPT ![b] =
                    Returned(call[b].content, call'[b].outcome)]
    /\ UNCHANGED <<status, alive>>

Panic(b) ==
    /\ call[b].state = "pending"
    /\ MayPanic(call[b].content)
    /\ alive' = FALSE
    /\ UNCHANGED <<status, call>>

Discard(b) ==
    /\ call[b].state = "returned"
    /\ call' = [call EXCEPT ![b] = Idle]
    /\ UNCHANGED <<status, alive>>

Next ==
    /\ alive
    /\ \/ \E p \in Profiles : Publish(p)
       \/ \E b \in Builders :
             \/ \E p \in Profiles : Begin(b, p) \/ Refuse(b, p)
             \/ Answer(b) \/ Panic(b) \/ Discard(b)

Spec == Init /\ [][Next]_vars
=============================================================================
