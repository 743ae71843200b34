-------------------------- MODULE MCTemplateProject --------------------------
(* Instances of TemplateProject, TemplateFixes and TemplateViews for TLC. *)
EXTENDS TemplateFixes, TemplateViews

Words(kind) == Tag(kind, <<>>)
Load(kind, target) == [Tag(kind, <<>>) EXCEPT !.target = target]
Import(target, alias) == [Tag("import", <<alias>>) EXCEPT !.target = target]
From(target, name, alias) ==
  [Tag("from", <<name>>) EXCEPT !.target = target, !.aliases = <<alias>>]
FromBoth(target, first, alias, second) ==
  [Tag("from", <<first, second>>) EXCEPT !.target = target, !.aliases = <<alias, None>>]
Invoke(name, positional) == [Tag("invoke", <<name>>) EXCEPT !.count = positional]

Nothing == [filter |-> {}, function |-> {"super"}, test |-> {}, variable |-> {"loop", "self", "caller"}, context |-> <<>>]
NotSimilar == {}
NoneOpened == {}

\* One template with bindings of one name in every kind of scope.
OneKey == << <<"page">> >>
ScopeTags ==
  {Tag("set", <<"x">>), Tag("for", <<"x">>), Words("endfor"),
   Tag("block", <<"b">>), Words("endblock"), Tag("named_endblock", <<"b">>),
   Tag("macro", <<"m", "x">>), Words("endmacro"), Tag("print", <<"x">>)}
ScopeVocabulary == [k \in Elements(OneKey) |-> ScopeTags]
LoopVocabulary ==
  [k \in Elements(OneKey) |->
    {Tag("for", <<"x">>), Words("endfor"), Tag("with", <<"x">>), Words("endwith"), Tag("print", <<"x">>)}]
SixTags == [k \in Elements(OneKey) |-> 6]

\* Three templates that extend and load each other; shared/mid is named by the tail of its key.
InheritanceKeys == << <<"base">>, <<"page">>, <<"shared", "mid">> >>
Block == Tag("block", <<"b">>)
Required(name) == [Tag("block", <<name>>) EXCEPT !.flags = {"required"}]
InheritanceVocabulary ==
  [k \in Elements(InheritanceKeys) |->
     CASE k = <<"base">> -> {Load("extends", <<"page">>), Required("b"), Required("c"), Import(<<"mid">>, "lib")}
       [] k = <<"shared", "mid">> ->
            {Load("extends", <<"base">>), Load("extends", <<"page">>), Block, Load("include", <<"page">>)}
       [] k = <<"page">> ->
            {Load("extends", <<"base">>), Load("extends", <<"mid">>), Block, Words("endblock"),
             Invoke("super", 0)}]
InheritanceLength == [k \in Elements(InheritanceKeys) |-> IF k = <<"page">> THEN 4 ELSE 2]

\* A library, a template that imports from it and a third one, with macros that call each other.
CallKeys == << <<"lib">>, <<"other">>, <<"page">> >>
MacroM == [Tag("macro", <<"m", "p", "q">>) EXCEPT !.count = 1]
CallVocabulary ==
  [k \in Elements(CallKeys) |->
     CASE k = <<"lib">> -> {MacroM, Words("endmacro"), Invoke("z", 0), Tag("macro", <<"z">>)}
       [] k = <<"other">> -> {Tag("macro", <<"m">>), Invoke("m", 1), From(<<"lib">>, "m", "z")}
       [] k = <<"page">> ->
            {From(<<"lib">>, "m", None), From(<<"other">>, "m", "z"), FromBoth(<<"lib">>, "m", "z", "w"), Invoke("m", 1), Invoke("z", 0),
             Tag("invoke", <<"m", "p">>), Tag("invoke", <<"m", "q">>),
             Import(<<"lib">>, "l"), Tag("invoke_member", <<"l", "m">>)}]
CallLength == [k \in Elements(CallKeys) |-> CASE k = <<"lib">> -> 3 [] k = <<"other">> -> 1 [] OTHER -> 2]
CallSimilar == {<<"z", "m">>}
\* Every template has been opened, or only the one the rename is asked for in.
CallOpened == {Elements(CallKeys)} \cup {{k} : k \in Elements(CallKeys)}
=============================================================================
