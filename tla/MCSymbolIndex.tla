--------------------------- MODULE MCSymbolIndex ---------------------------
(***************************************************************************)
(* Two files and the kinds of units that tell the cases of the visitor and *)
(* of the two databases apart.                                             *)
(***************************************************************************)
EXTENDS SymbolIndex

CONSTANTS Elsewhere     \* a header outside the two files

Decl(entity, kind, name, line) ==
    [entity |-> entity, kind |-> kind, name |-> name, spelled |-> Here, line |-> line,
     def |-> TRUE, main |-> TRUE, text |-> TRUE, related |-> {}]

Declared(d) == [d EXCEPT !.def = FALSE]
Related(d, entities) == [d EXCEPT !.related = entities]
SpelledIn(d, path) == [d EXCEPT !.spelled = path]
NoText(d) == [d EXCEPT !.text = FALSE]

Enter(d) == [at |-> "enter", decl |-> d]
Leave(d) == [at |-> "leave", decl |-> d]
Record(d) == [at |-> "record", decl |-> d]
Enum(d) == [at |-> "enum", decl |-> d]
Call(entity) == [at |-> "call", callee |-> entity]
Function(d, body) == <<Enter(d)>> \o body \o <<Leave(d)>>

\* A caller and its helper, which is declared first and defined last; the
\* caller also calls itself.
Forward ==
    LET helper == Decl("helper", "function", "n::helper", 3)
        caller == Decl("caller", "function", "n::caller", 2)
    IN  Function([Declared(helper) EXCEPT !.line = 1], << >>)
          \o Function(caller, <<Call("helper"), Call("caller")>>)
          \o Function(helper, << >>) \o <<Enum(Decl("E", "enum", "n::E", 4))>>

\* The same helper elsewhere in the file, not called any more, with an
\* overload on another line.
Overloads ==
    Function(Decl("helper", "function", "n::helper", 1), << >>)
      \o Function(Declared(Decl("other", "function", "n::helper", 2)), << >>)

\* A method of a class inside a function, and a call after the class.
Nested ==
    LET outer == Decl("outer", "function", "n::caller", 1)
        method == Decl("method", "method", "n::caller::C::m", 2)
    IN  Function(outer, <<Record(Decl("C", "class", "n::caller::C", 2))>>
                          \o Function(method, <<Call("helper")>>) \o <<Call("method")>>)
          \o Function(Declared(Decl("helper", "function", "n::helper", 4)), << >>)

\* Inheritance, overriding, a forward declaration of a class, a function of a
\* header, and a conversion function, which opens no scope.
Hierarchy ==
    LET base == Decl("Base", "class", "n::Base", 1)
        run == Decl("Base::run", "method", "n::Base::run", 1)
        derived == Related(Decl("Derived", "class", "n::Derived", 2), {"Base"})
        over == Related(Decl("Derived::run", "method", "n::Derived::run", 3), {"Base::run"})
        convert == Decl("convert", "conversion", "n::Derived::operator", 4)
        header == [Decl("header", "function", "n::header", 9) EXCEPT !.main = FALSE]
    IN  Function(header, <<Call("Base::run")>>) \o <<Record(Declared(derived)), Record(base)>>
          \o Function(Declared(run), << >>)
          \o <<Record(derived)>> \o Function(over, <<Call("Base::run"), Call("header")>>)
          \o Function(convert, <<Call("Derived::run")>>)

\* Two overloads on one line, declared only or defined.
OneLine(second) ==
    Function(Decl("helper", "function", "n::helper", 1), << >>)
      \o Function(second, << >>)

OneLineDeclared == OneLine(Declared(Decl("other", "function", "n::helper", 1)))
OneLineDefined == OneLine(Decl("other", "function", "n::helper", 1))

\* A file with two compile commands.
TwoCommands ==
    LET made(i) == Decl(<<"helper", i>>, "function", "n::helper", 1)
        caller(i) == Decl(<<"caller", i>>, "function", "n::caller", 2)
        walk(i) == Function(made(i), << >>) \o Function(caller(i), <<Call(<<"helper", i>>)>>)
    IN  walk(1) \o walk(2)

\* A function a macro of another file spells, beside a plain one that calls it.
\* The macro's text is that file's, or the lexer has none.
ByMacro(d) ==
    Function(Decl("caller", "function", "n::caller", 1), <<Call("made")>>) \o Function(d, << >>)

MacroOfHeader == ByMacro(SpelledIn(Decl("made", "function", "n::made", 1), Elsewhere))
MacroWithoutText == ByMacro(NoText(SpelledIn(Decl("made", "function", "n::made", 1), Elsewhere)))
MacroOfFirst == ByMacro(NoText(SpelledIn(Decl("made", "function", "n::made", 7), 1)))

\* Declarations only, and a unit that does not compile.
OnlyDeclared == Function(Declared(Decl("helper", "function", "n::helper", 1)), << >>)
DoesNotCompile == Function(Decl("broken", "function", "n::broken", 1), << >>)

MCUnit ==
    {Forward, Overloads, Nested, Hierarchy, OneLineDeclared, OneLineDefined, MacroOfHeader,
     MacroWithoutText, MacroOfFirst, TwoCommands, OnlyDeclared, DoesNotCompile}
MCBroken == {DoesNotCompile}
MCFile == 1..2

MCQuery ==
    {[names |-> names, callers |-> callers] :
        names \in {{"n::helper"}, {"n::caller", "n::helper"}, {"n::Base::run"}, {"n::Derived"}},
        callers \in BOOLEAN}
=============================================================================
