------------------------ MODULE MCConstraintChecker -------------------------
(***************************************************************************)
(* The constraints of the fragment of the shipped schema in MCSchema.      *)
(***************************************************************************)
EXTENDS ConstraintChecker, MCSchema

-----------------------------------------------------------------------------
(***************************************************************************)
(* The constraints, as the actions that the parser calls for them.         *)
(***************************************************************************)

Call(handler)      == <<[handler |-> handler, value |-> Void]>>
Token(handler, v)  == <<[handler |-> handler, value |-> v]>>
Str(s)             == Token("STRING", String(s))
Bool0(b)           == Token("BOOLEAN", Bool(b))
Number(n)          == Token("NUMBER", Value("int", n))
Infix(a, op, b)    == a \o Token("RELATIVE_OPERATOR", String(<<op>>)) \o b \o Call("INFIX")
Func(name, args)   == args \o Call(name)
Must(e)            == e \o Call("MUST")
If(c, e)           == c \o Call("THEN") \o Must(e)

Base      == Str(<<"base">>)      \* '^eth[0-9]-...'
Plain     == Str(<<"plain">>)     \* '^eth[0-9]-...$'
Breakout  == Str(<<"breakout">>)  \* '^eth[0-9]-...(_[1-4])$'

EthernetKey == <<"interface", "ethernet", Key>>
PortKey     == <<"platform", "port", Key>>
LagKey      == <<"interface", "aggregate-ethernet", Key>>
Mode        == Append(PortKey, "breakout-mode")
Speed       == Append(EthernetKey, "speed")

XPathOf(x)       == Func("XPATH", Str(x))
ValueOf(x)       == Func("XPATH_VALUE", Str(x))
ExistsOf(f)      == Func("EXISTS", f)
BaseMode         == Func("XPATH_VALUE_KEY_REGEX_REPLACE", Str(Mode) \o Base)
Matches(regex)   == ExistsOf(Func("XPATH_MATCH_REGEX",
                        Str(EthernetKey) \o Str(<<"interface", "ethernet", Wildcard>>) \o regex))
AnyOf(x)           == ExistsOf(Func("XPATH_ANY", Str(x)))
HasPort(b)       == Infix(ExistsOf(XPathOf(PortKey)), "==", Bool0(b))
None(e, b)       == Infix(e, "==", Bool0(b))

SchemaActions ==
    [c \in {"speed-fixed"} |->       \* ethernet.json:37
        If(Infix(ValueOf(Speed), "==", Str(<<"fixed">>)), Infix(BaseMode, "<>", Str(<<"none">>)))]
 @@ [c \in {"speed-not-fixed"} |->   \* ethernet.json:38
        If(Infix(ValueOf(Speed), "<>", Str(<<"fixed">>)),
           Infix(ValueOf(Mode), "==", Str(<<"none">>)))]
 @@ [c \in {"no-port-no-plain"} |->  \* ethernet.json:59
        If(HasPort(FALSE), None(Matches(Plain), FALSE))]
 @@ [c \in {"no-port-split"} |->     \* ethernet.json:60
        If(HasPort(FALSE), Infix(BaseMode, "<>", Str(<<"none">>)))]
 @@ [c \in {"port-no-breakout"} |->  \* ethernet.json:61
        If(HasPort(TRUE), None(Matches(Breakout), FALSE))]
 @@ [c \in {"port-whole"} |->        \* ethernet.json:62
        If(HasPort(TRUE), Infix(ValueOf(Mode), "==", Str(<<"none">>)))]
 @@ [c \in {"split-no-interface"} |-> \* port.json:16
        If(Infix(ValueOf(Mode), "<>", Str(<<"none">>)),
           None(ExistsOf(Func("XPATH_KEY_BASED", Str(EthernetKey) \o Str(PortKey))), FALSE))]
 @@ [c \in {"whole-no-breakout"} |-> \* port.json:17
        If(Infix(ValueOf(Mode), "==", Str(<<"none">>)), None(Matches(Breakout), FALSE))]
 @@ [c \in {"reference"} |->         \* aggregate_ethernet.json:39, vlan.json:30, lacp.json:33
        Must(ExistsOf(Func("XPATH", Call("REFERENCE"))))]
 @@ [c \in {"not-in-vlan"} |->       \* aggregate_ethernet.json:40
        Must(None(AnyOf(<<"vlan", Wildcard, "members", Reference>>), FALSE))]
 @@ [c \in {"not-in-lag"} |->        \* vlan.json:31
        Must(None(AnyOf(<<"interface", "aggregate-ethernet", Wildcard, "members", Reference>>), FALSE))]
 @@ [c \in {"is-lacp"} |->           \* lacp.json:50
        Must(Infix(ValueOf(Append(LagKey, "protocol")), "==", Str(<<"lacp">>)))]
 @@ [c \in {"lag-empty"} |->         \* aggregate_ethernet.json:66
        Must(Infix(Func("COUNT", XPathOf(Append(LagKey, "members"))), "==", Number(0)))]
 @@ [c \in {"vlan-empty"} |->        \* vlan.json:70
        Must(Infix(Func("COUNT", XPathOf(<<"vlan", Key, "members">>)), "==", Number(0)))]
 \* Two of our own, with the functions that the shipped schema does not use.
 @@ [c \in {"base-port"} |->
        Must(ExistsOf(Func("XPATH_KEY_REGEX_REPLACE", Str(PortKey) \o Base)))]
 @@ [c \in {"one-lag"} |->
        Must(Infix(Func("COUNT", Func("XPATH_ALL",
            Str(<<"interface", "aggregate-ethernet", Wildcard, "members", Reference>>))),
            "==", Number(1)))]

\* FindAttr hands them out last first.
SchemaUpdateConstraints ==
    [p \in Paths |->
        CASE p \in {Append(Ethernet(n), "speed") : n \in {"e1", "e1_1"}}
                 -> <<"speed-not-fixed", "speed-fixed">>
          [] p = Ethernet("e1")
                 -> <<"port-whole", "port-no-breakout", "no-port-split", "no-port-no-plain">>
          [] p = Ethernet("e1_1")
                 -> <<"base-port", "port-whole", "port-no-breakout", "no-port-split",
                      "no-port-no-plain">>
          [] p = Append(Port, "breakout-mode") -> <<"whole-no-breakout", "split-no-interface">>
          [] p = Lag \o <<"members", "e1">>    -> <<"one-lag", "not-in-vlan", "reference">>
          [] p = Vlan \o <<"members", "tagged", "e1">> -> <<"not-in-lag", "reference">>
          [] p = Vlan \o <<"members", "tagged", "l1">> -> <<"reference">>
          [] p = Lacp                          -> <<"is-lacp", "reference">>
          [] p = Lacp \o <<"members", "e1">>   -> <<"reference">>
          [] OTHER                             -> <<>>]

SchemaDeleteConstraints ==
    [p \in Paths |-> CASE p = Lag  -> <<"lag-empty">>
                       [] p = Vlan -> <<"vlan-empty">>
                       [] OTHER    -> <<>>]

SchemaReferences ==
    [p \in Paths |->
        CASE p \in {Lag \o <<"members", "e1">>, Vlan \o <<"members", "tagged", "e1">>}
                 -> <<<<"interface", "ethernet", Reference>>>>
          [] p \in {Vlan \o <<"members", "tagged", "l1">>, Lacp}
                 -> <<<<"interface", "aggregate-ethernet", Reference>>>>
          [] p = Lacp \o <<"members", "e1">>
                 -> <<LagKey \o <<"members", Reference>>>>
          [] OTHER -> <<>>]

SchemaRegexSearch == [r \in {<<"base">>} |->
    [n \in DOMAIN MCRank |-> IF n \in {"e1", "e1_1"} THEN "e1" ELSE Key]]
MCActions           == SchemaActions
MCUpdateConstraints == SchemaUpdateConstraints
MCDeleteConstraints == SchemaDeleteConstraints
MCReferences        == SchemaReferences
MCRegexSearch       == SchemaRegexSearch

\* No xpath: the regexes begin with '^eth'.
MCRegexMatch  == [r \in {<<"plain">>, <<"breakout">>} |-> {}]

\* What the theorems that ReferencesExist and DeletesNeverRefused hold ask of a
\* schema is so in this one.
ASSUME SchemaAssumption ==
    /\ "value" \notin DOMAIN Rank
    /\ ReferencesAsk
    /\ DeletesAskForNone

-----------------------------------------------------------------------------
(***************************************************************************)
(* What the constraints mean, in terms of the tree alone.                  *)
(***************************************************************************)

Has(path)     == path \in Tree
ValueAt(path) == IF Has(path) THEN root[path] ELSE ""
PortMode      == ValueAt(Append(Port, "breakout-mode"))

Meaning(c) ==
    CASE c = "speed-fixed"     -> root[xpath] = "fixed" => PortMode \notin {"", "none"}
      [] c = "speed-not-fixed" ->
             root[xpath] # "fixed" => xpath[3] = "e1" /\ PortMode = "none"
      [] c = "no-port-split"   -> xpath[3] # "e1" => PortMode \notin {"", "none"}
      [] c = "port-whole"      -> xpath[3] = "e1" => PortMode = "none"
      [] c = "reference"       -> Has(ReferenceOf(xpath))
      [] c = "not-in-vlan"     -> ~Has(Vlan \o <<"members", "tagged", "e1">>)
      [] c = "not-in-lag"      -> ~Has(Lag \o <<"members", "e1">>)
      [] c = "is-lacp"         -> ValueAt(Append(Lag, "protocol")) = "lacp"
      [] c = "lag-empty"       -> ~Has(Append(Lag, "members"))
      [] c = "vlan-empty"      -> ~Has(Append(Vlan, "members"))
      [] c = "base-port"       -> Has(Port)
      [] c = "one-lag"         -> Has(Lag \o <<"members", "e1">>)

\* Constraints whose function never selects a node with the paths they give it.
Toothless == {"no-port-no-plain", "port-no-breakout", "whole-no-breakout", "split-no-interface"}

\* The verdict on a constraint is what its text says of the tree: the operands,
\* the flag that skips them and the "[@key]"s come together to that.
VerdictIsMeaning ==
    Evaluated /\ Head(constraints) \notin Toothless =>
        (expressionResult <=> Meaning(Head(constraints)))

\* An interface is in a vlan or in a lag, never in both, whichever it joined
\* first.  The mode (tagged, ...) that vlan.json has between "members" and the
\* interface is not in the xpath of the constraint.
NeverInBoth ==
    pc = "idle" => ~({Vlan \o <<"members", "tagged", "e1">>, Lag \o <<"members", "e1">>}
                         \subseteq DOMAIN config)

=============================================================================
