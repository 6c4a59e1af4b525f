\* The table over two starts.
CONSTANTS
    p0 = p0
    other = other
    src = src
    cat = cat
    Supabase = supabase
    Sinks = {supabase}
    Subs <- MCSubs
    P0 = p0
    Filter <- MCFilter
    Categories = {cat}
    Sources = {src}
    AnySource = AnySource
    Severities = {1, 2}
    BufferSize = 2
    RequirePersistence = TRUE
    MaxEvents = 2
    MaxStarts = 2
\* The process may be dead for good.
CHECK_DEADLOCK FALSE
SPECIFICATION RuntimeSpec
INVARIANT DurableIdsUnique
