SPECIFICATION Spec
CONSTANTS
    MaxText <- TextLengths
    Lines <- SomeFields
    MaxLines = 5
\* An input that has reached the bound grows no further.
CHECK_DEADLOCK FALSE
INVARIANTS
    UriParsed
    ListSearched
    RequestLineParsed
    FieldsFound
    SpanFound
