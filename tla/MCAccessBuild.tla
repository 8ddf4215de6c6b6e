--------------------------- MODULE MCAccessBuild ---------------------------
(***************************************************************************)
(* A small instance of AccessBuild: a provider file with one entry of      *)
(* every kind the code distinguishes, and statuses that reach every branch *)
(* of the merge.                                                           *)
(***************************************************************************)
EXTENDS AccessBuild, TLC

CONSTANTS b1, b2, p1, noExec, none

MCArgs == {"--base", "--extra"}
MCEnvNames == 1 .. 3
MCEnvValues == {"own", "late", "sourced"}
MCNames == {"token", "ident", "bare", "quiet", "odd", "unknown"}
MCServers == {"s1", "s2"}
MCProxies == {"", "proxy"}
MCOpaque == {"o1", "o2"}

EnvV(n, v) == [name |-> n, value |-> v]

List(l) == [kind |-> "list", list |-> l]
Strings(m) == [kind |-> "strings", map |-> m]
Object(o) == [kind |-> "object", id |-> o]
Null == [kind |-> "null"]

Ext(n, data) == [name |-> n, data |-> data]

AP(n, s, x, exts) == [name |-> n, server |-> s, proxy |-> x, extensions |-> exts]

\* "token" appends; "ident" replaces and lists one variable twice; "bare"
\* has no exec configuration; "quiet" sets no environment policy; "odd" has misspelt policies.
MCProviders ==
    << [name |-> "token", cliArgs |-> "Append", envVars |-> "AppendIfNotExists",
        exec |-> [args |-> <<"--base">>, env |-> <<EnvV(3, "own"), EnvV(1, "own")>>,
                  config |-> Null]],
       [name |-> "ident", cliArgs |-> "Ignore", envVars |-> "Replace",
        exec |-> [args |-> << >>,
                  env |-> <<EnvV(2, "own"), EnvV(1, "own"), EnvV(2, "late")>>,
                  config |-> Object("o2")]],
       [name |-> "bare", cliArgs |-> "", envVars |-> "", exec |-> noExec],
       [name |-> "quiet", cliArgs |-> "Append", envVars |-> "",
        exec |-> [args |-> << >>, env |-> <<EnvV(1, "own")>>, config |-> Null]],
       [name |-> "odd", cliArgs |-> "unsupported", envVars |-> "unsupported",
        exec |-> [args |-> << >>, env |-> << >>, config |-> Null]] >>

ArgsAndEnv ==
    << AP("token", "s1", "proxy",
          <<Ext("args", List(<<"--extra">>)),
            Ext("envs", Strings(1 :> "sourced" @@ 2 :> "sourced")),
            Ext("exec", Object("o1"))>>) >>

\* A name that both sides use, listed under the provider that replaces.
Replacing ==
    << AP("unknown", "s1", "", << >>),
       AP("ident", "s2", "", <<Ext("args", List(<<"--extra">>)),
                               Ext("envs", Strings(1 :> "sourced"))>>) >>

\* The profile prefers "ident", the consumer prefers "token".
Both ==
    << AP("ident", "s2", "", << >>), AP("token", "s1", "", << >>) >>

Twice ==
    << AP("token", "s2", "", <<Ext("envs", Strings(2 :> "sourced")),
                               Ext("envs", Strings(3 :> "sourced"))>>) >>

BadArgs == << AP("token", "s1", "", <<Ext("args", Object("o1"))>>) >>

BadEnv == << AP("token", "s1", "", <<Ext("envs", List(<<"--extra">>))>>) >>

NoData == << AP("token", "s1", "", <<Ext("args", Null), Ext("envs", Null)>>) >>

Bare == << AP("bare", "s1", "", << >>) >>

OddArgs == << AP("odd", "s1", "", <<Ext("args", List(<< >>))>>) >>

OddEnv == << AP("odd", "s1", "", <<Ext("other", Object("o1")),
                                   Ext("envs", Strings(<< >>))>>) >>

Quiet == << AP("quiet", "s1", "", <<Ext("envs", Strings(1 :> "sourced"))>>) >>

Unknown == << AP("unknown", "s1", "", << >>) >>

GoodContents == {ArgsAndEnv, Replacing, Both}

AllContents == GoodContents \cup {Twice, BadArgs, BadEnv, NoData, Bare, OddArgs,
                                  OddEnv, Quiet, Unknown}

\* Nothing tells the two builders apart.
BuilderSymmetry == Permutations({b1, b2})

\* SelectAccessor may copy an AccessProvider as a value because the generated
\* DeepCopyInto methods share nothing with the original.
Copies == INSTANCE DeepCopies

ASSUME CopyAssumption == Copies!CopiesAreDeep
=============================================================================
