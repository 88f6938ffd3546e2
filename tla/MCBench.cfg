SPECIFICATION BenchSpec
CONSTANT BenchmarkRuns <- MCBenchmarkRuns
INVARIANT ZeroBaselineFlagged
CHECK_DEADLOCK FALSE
