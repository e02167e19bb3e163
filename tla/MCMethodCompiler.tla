-------------------------- MODULE MCMethodCompiler --------------------------
EXTENDS MethodCompiler

N(k, parts) == [k |-> k, a |-> parts]

Constant == N("constant", <<>>)
Argument == N("argument", <<>>)
Temporary == N("temporary", <<>>)
Self == N("self", <<>>)

MCLeaves == {Constant, Argument, Temporary, Self, N("literal", <<>>), N("instance", <<>>)}

\* An object fresh from a send, and something that returns.
Fresh == N("send", <<Argument>>)
Leave == N("return", <<Constant>>)
Escape == N("block", <<Leave>>)

Values == {Constant, Temporary, Fresh}

If(c, x, y) == N("ifElse", <<c, x, y>>)
When(c, x) == N("ifTrue", <<c, x>>)

Cascade == N("cascade", <<Temporary, Constant>>)
While == N("while", <<Argument, Fresh>>)
Nested == When(Argument, When(Argument, Fresh))

Simple == MCLeaves \cup {Fresh, Leave, Escape, Cascade, While, Nested,
                        When(Argument, Fresh), N("isNil", <<Temporary>>),
                        N("value", <<Constant, Escape>>),
                        N("perform", <<Constant, Escape>>),
                        N("new", <<Self, Constant>>),
                        N("primitive", <<Temporary, Fresh>>)}

\* (argument ifTrue: [temporary] ifFalse: [constant]) ifTrue: [constant]
\* ifFalse: [send]; an and: in the condition compiles to blocks of the same shape
Guarded == If(If(Argument, Temporary, Constant), Constant, Fresh)

Conditionals == {If(Argument, x, y) : x \in Values \cup {Leave, Cascade}, y \in {Constant, Fresh}}
                  \cup {Guarded}

MCParts == Simple \cup Conditionals

Composed ==
  {N("plus", <<x, y>>) : x \in MCParts, y \in MCParts}
    \cup {N(k, <<x>>) : k \in {"assign", "store", "return", "block"}, x \in MCParts}
    \cup {N(k, <<Self, x>>) : k \in {"send", "super"}, x \in MCParts}
    \cup {N("sequence", <<Leave, Nested>>), N("send", <<If(Argument, Temporary, Fresh)>>)}

MCExprs ==
  MCParts \cup Composed
    \cup {If(Argument, Temporary, Constant), N("block", <<N("sequence", <<Leave, Nested>>)>>)}

MCSources == {<<e>> : e \in MCExprs} \cup {<<Leave, Nested>>, <<Escape>>}
                \cup {<<x, y>> : x \in Conditionals, y \in {Cascade, When(Argument, Fresh)}}

\* instance + Guarded: the block that chooses between the two arms holds its
\* branch and nothing else, and the sum's first operand lies below the value
\* that branch pops
MCBelowCondition == {<<N("plus", <<N("instance", <<>>), Guarded>>)>>}
=============================================================================
