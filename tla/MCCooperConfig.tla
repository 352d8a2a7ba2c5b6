---------------------------- MODULE MCCooperConfig ----------------------------
(* What cooper keeps between its runs and checks around them: the wizard that *)
(* edits config.json, the builds and updates that follow it, cooper proof and *)
(* cleanup, and the runtime the Docker tests share.  A behaviour is one of    *)
(* the part that which names, the others keep their initial state.           *)
EXTENDS ImageBuild, ConfigWizard, ProofRun, TestRuntime

\* Registries: pyright's second version needs one of four ranges of Node.
NoPin == << >>
Token(op, v) == [op |-> op, base |-> v]
Release(v) == [ver |-> v, needs |-> << >>]
NeedsOne(v, op, w) == [ver |-> v, needs |-> << <<Token(op, w)>> >>]
PublishedVersions ==
  [node |-> <<Release(<<22,12,0>>), Release(<<24,1,0>>)>>,
   python |-> <<Release(<<3,12,0>>)>>,
   claude |-> <<Release(<<1>>)>>, codex |-> <<Release(<<1>>)>>,
   typescript |-> <<NeedsOne(<<5,8,3>>, ">=", <<14,17>>)>>,
   pyright |-> <<NeedsOne(<<1,1,408>>, ">=", <<14>>),
                 [ver |-> <<1,2>>, needs |-> << <<Token("^", <<20,9>>)>>, <<Token(">=", <<21,1>>), Token("<", <<23>>)>>,
                                                <<Token("x", <<24,9>>)>>, <<Token("~", <<25,9>>)>> >>]>>]
  @@ ("python-lsp-server" :> <<NeedsOne(<<1,13>>, ">=", <<3,9>>)>>)
  @@ ("typescript-language-server" :> <<Release(<<5>>)>>)
\* What the wizard sets for a tool.
Enable(mode, v) == [enabled |-> TRUE, mode |-> mode, pinned |-> v]
Disable == [enabled |-> FALSE, mode |-> "latest", pinned |-> NoPin]
ToolSettings ==
  [node |-> {Enable("latest", NoPin), Enable("mirror", NoPin), Disable}, python |-> {Disable, Enable("off", NoPin)},
   claude |-> {Enable("pin", <<1>>), Disable}, codex |-> {Enable("off", NoPin), Enable("mirror", NoPin)}]
OnHost == [node |-> << <<18,0,0>>, <<22,12,0>> >>, python |-> << <<3,12,0>>, <<3,12,0>> >>,
           claude |-> << <<1>>, <<2>> >>, codex |-> << << >>, <<1>> >>]

\* The wizard: Go is not on the host, Codex is.
WizardTools == [programming |-> <<"go">>, aicli |-> <<"codex">>]
WizardHost == [go |-> NoVersion, codex |-> "1"]
WizardLatest == [go |-> "2", codex |-> "2"]
FoundVersions == {<<"go", "2">>, <<"codex", "1">>, <<"codex", "2">>}
Domain(n, source) == [name |-> n, source |-> source]
DefaultDomains == <<Domain("a", "default"), Domain("b", "default")>>
EnvRow(word, form, padded, good) == [word |-> word, form |-> form, padded |-> padded, good |-> good]
\* No config.json, or one edited by hand: a default domain is gone, another is the
\* user's own, a name has spaces round it.
ConfigFiles ==
  {NoFile,
   [tools |-> [go |-> [enabled |-> TRUE, mode |-> "pin", pinned |-> "1", host |-> NoVersion],
               codex |-> [enabled |-> FALSE, mode |-> "off", pinned |-> NoVersion, host |-> NoVersion]],
    domains |-> <<Domain("b", "user")>>,
    rules |-> <<[range |-> FALSE, first |-> 80, last |-> 0, host |-> 80]>>,
    env |-> <<EnvRow("x", 1, TRUE, TRUE), EnvRow("y", 1, FALSE, TRUE)>>, proxy |-> 3128, bridge |-> 4343]}
\* Typed: a range over the proxy's port, one that ends before it starts; a name
\* that differs from the first row's in case only, a new one, a protected one.
TypedRows ==
  [whitelist |-> {Domain("a", "user")},
   portforward |-> {[range |-> TRUE, cli |-> <<3000, 4000>>, host |-> <<3000, 3001>>],
                    [range |-> TRUE, cli |-> <<65535, 65534>>, host |-> <<65534, 65535>>]},
   barrelenv |-> {EnvRow("x", 2, FALSE, TRUE), EnvRow("z", 1, TRUE, TRUE), EnvRow("p", 1, FALSE, FALSE)}]

\* A package of tests, a driver, and one with a prefix of its own.
TestRunners == [tests |-> "package", driver |-> "driver", own |-> "prefixed"]

VARIABLE which
vars == <<imageVars, wizardVars, proofVars, testVars, which>>
Init ==
  /\ which \in {"images", "wizard", "proof", "tests"}
  /\ ImageInit /\ WizardInit /\ ProofInit /\ TestInit
  /\ which # "wizard" => file = NoFile
  /\ which # "proof" => enabled = {} /\ isolated /\ ~AnyUp
  /\ which # "tests" => onDisk = 1
Next ==
  \/ which = "images" /\ ImageNext /\ UNCHANGED <<wizardVars, proofVars, testVars, which>>
  \/ which = "wizard" /\ WizardNext /\ UNCHANGED <<imageVars, proofVars, testVars, which>>
  \/ which = "proof" /\ ProofNext /\ UNCHANGED <<imageVars, wizardVars, testVars, which>>
  \/ which = "tests" /\ TestNext /\ UNCHANGED <<imageVars, wizardVars, proofVars, which>>
Spec == Init /\ [][Next]_vars
=============================================================================
