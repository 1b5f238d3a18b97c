\* Every page, with three rows, two views and a few calls for each visit.
SPECIFICATION Spec
CONSTANTS
    r1 = r1
    r2 = r2
    r3 = r3
    one = one
    two = two
    Page = {
        "AlertList", "AlertRules", "SilencePolicy", "NotificationConfig", "IncidentList",
        "IncidentDetail", "IncidentTimeline", "IncidentAnalysis", "IncidentSLA", "IncidentArchive",
        "IncidentArchiveReport", "SearchHistory", "SavedQueries", "UserManagement",
        "RolePermissions", "AuditLogs", "LoginPolicy", "SourceManagement", "SourceStatus",
        "AgentManagement", "AccessWizard", "DeadLetters", "Receipts", "TaskDetail", "PackageDetail",
        "Dashboard", "BackupRecovery", "IndexManagement", "LifecyclePolicy", "CapacityMonitoring",
        "DownloadRecords", "ReportManagement", "HealthCheck", "PerformanceMonitoring",
        "WebhookManagement"}
    Row = {r1, r2, r3}
    View = {one, two}
    FirstView = one
    Listed <- MCListed
    MaxCalls <- MCCalls
    MaxOutside <- MCOutside
    InOrder = {
        "AlertRules", "SilencePolicy", "NotificationConfig", "IncidentList", "IncidentDetail",
        "IncidentTimeline", "IncidentAnalysis", "IncidentSLA", "IncidentArchiveReport",
        "IncidentArchive", "UserManagement", "SourceManagement", "SourceStatus", "AgentManagement",
        "AccessWizard", "DeadLetters", "Receipts", "TaskDetail", "PackageDetail", "BackupRecovery",
        "IndexManagement", "LifecyclePolicy", "CapacityMonitoring", "DownloadRecords",
        "HealthCheck", "PerformanceMonitoring", "WebhookManagement", "Dashboard"}
    None = None
INVARIANTS SpinnersEnd SelectionShown   
CHECK_DEADLOCK FALSE
